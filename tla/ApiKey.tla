------------------------------- MODULE ApiKey -------------------------------
(***************************************************************************)
(* The text of an API key (services/gateway/internal/auth/apikey.go):      *)
(* sk-loopz_<public_id>_<secret>.                                          *)
(*                                                                         *)
(* A text is the sequence of its pieces between underscores, which is what *)
(* strings.Split makes of it; a piece may be empty.                        *)
(***************************************************************************)
EXTENDS Integers, Sequences

CONSTANTS
    Bytes,          \* what rand.Read may fill a buffer with
    HexOf,          \* hex.EncodeToString: never empty, never an underscore
    Raws            \* texts clients may send, beside the keys handed out

ASSUME HexAssumption == HexOf \in [Bytes -> STRING \ {""}]
ASSUME RawsAssumption == Raws \subseteq Seq(STRING)

VARIABLES
    text,           \* the argument of ParseKey
    parsed          \* its answer, once there is one: a set of at most one

keyVars == <<text, parsed>>

KeyPrefix == "sk-loopz"

ErrInvalidKey == << >>

\* The two halves and the full key.
GenerateKey(id, secret) ==
    [publicID |-> HexOf[id], secret |-> HexOf[secret],
     fullKey |-> <<KeyPrefix, HexOf[id], HexOf[secret]>>]

\* The prefix ends in an underscore: something must follow its piece.
HasPrefix(raw) == Len(raw) >= 2 /\ raw[1] = KeyPrefix

\* Mutant: strings.SplitN with a limit, the pieces behind the secret dropped.
TwoPartsAtLeast(parts) == Len(parts) >= 2 /\ parts[1] # "" /\ parts[2] # ""

TwoParts(parts) == Len(parts) = 2 /\ parts[1] # "" /\ parts[2] # ""

ParseKey(raw) == IF HasPrefix(raw) /\ TwoParts(Tail(raw))
                 THEN <<raw[2], raw[3]>>
                 ELSE ErrInvalidKey

HandedOut == {GenerateKey(id, secret).fullKey : id \in Bytes, secret \in Bytes}

KeyInit == /\ text \in Raws \union HandedOut
           /\ parsed = {}

Parse == /\ parsed = {}
         /\ parsed' = {ParseKey(text)}
         /\ UNCHANGED text

KeySpec == KeyInit /\ [][Parse]_keyVars

-----------------------------------------------------------------------------

\* The format is unambiguous.  What GenerateKey hands out ParseKey accepts, and
\* it finds the same public id (by which the key is looked up) and the same
\* secret (whose HMAC is stored): neither half can hold the separator.  And no
\* two texts are one key: nothing in front of, between or behind the halves is
\* passed over.
KeysAreUnambiguous ==
    \A answer \in parsed :
       /\ answer # ErrInvalidKey => text = <<KeyPrefix>> \o answer
       /\ \A id, secret \in Bytes :
             LET key == GenerateKey(id, secret)
             IN  text = key.fullKey => answer = <<key.publicID, key.secret>>
=============================================================================
