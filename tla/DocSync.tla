------------------------------ MODULE DocSync ------------------------------
(***************************************************************************)
(* The gate of .vibe/vibe_doctor.py that ties changes of the source to     *)
(* changes of the documents: claude-track notes the files an agent edits   *)
(* with its edit tools, claude-hook decides at the end of a turn whether   *)
(* the agent may stop, and acknowledge records that a document needs no    *)
(* change.                                                                 *)
(*                                                                         *)
(* The three share files and no lock: the working tree, which git compares *)
(* with HEAD, and .vibe/changed-files.json and .vibe/sync-state.json,      *)
(* which are files of the working tree themselves.                         *)
(***************************************************************************)
EXTENDS Integers, FiniteSets

CONSTANTS
    Files,          \* files an agent edits, the documents among them
    Hidden,         \* those of them whose path starts with a dot
    Domains,        \* DOMAIN_DOCS: the domains ...
    Doc,            \* ... and the document of each
    Impact,         \* the domains a change of each file has an impact on
    Trackers,       \* claude-track processes that may run at a time
    StateFile,      \* the path .vibe/sync-state.json
    TrackFile,      \* the path .vibe/changed-files.json
    NoFile,         \* a file that does not exist
    Empty,          \* a file truncated for writing
    Garbage,        \* a file two processes wrote at once: no JSON
    MaxVersion,     \* bound: edits of each file, by the value of parallel
    MaxCommits      \* bound: commits, by the value of parallel

ASSUME FilesAssumption ==
    /\ Hidden \subseteq Files
    /\ StateFile \notin Files /\ TrackFile \notin Files
    /\ \A fs \in SUBSET Files : fs \notin {NoFile, Empty, Garbage}
    /\ Doc \in [Domains -> Files]
    /\ Impact \in [Files -> SUBSET Domains]
ASSUME BoundsAssumption ==
    MaxVersion \in [BOOLEAN -> [Files -> Nat]] /\ MaxCommits \in [BOOLEAN -> Nat]

VARIABLES
    parallel,       \* edits go on while trackers and the hook run; never changes
    content,        \* content[f]: the version of f in the working tree
    head,           \* head[f]: the version of f in HEAD
    sync, syncHead,     \* sync-state.json in the working tree and in HEAD
    track, trackHead,   \* changed-files.json in the working tree and in HEAD
    tracker,        \* tracker[p]: a claude-track process
    hook,           \* the claude-hook process
    commits,        \* commits so far
    edited,         \* history: edits no hook has let pass, <<f, version, noted>>;
                    \* noted: a tracker was started to note it
    missed,         \* history: edits a hook let pass and did not know of
    acked           \* history: the contents the last acknowledgement was made for

tree == <<content, head, sync, syncHead, track, trackHead>>
vars == <<parallel, tree, tracker, hook, commits, edited, missed, acked>>

IdleTracker == [pc |-> "idle"]
IdleHook == [pc |-> "idle"]

Init == /\ parallel \in BOOLEAN
        /\ content = [f \in Files |-> 0]
        /\ head = content
        /\ sync = NoFile /\ syncHead = NoFile
        /\ track = NoFile /\ trackHead = NoFile
        /\ tracker = [p \in Trackers |-> IdleTracker]
        /\ hook = IdleHook
        /\ commits = 0
        /\ edited = {}
        /\ missed = {}
        /\ acked = NoFile

-----------------------------------------------------------------------------
\* What the commands compute from the tree.

\* git diff --name-only HEAD and the untracked files.  .gitignore does not
\* cover the two files of the gate.
GitChanged == {f \in Files : content[f] # head[f]}
              \union {f \in {StateFile} : sync # syncHead}
              \union {f \in {TrackFile} : track # trackHead}

\* A file that is missing or no JSON counts as empty.
Tracked == IF track \in {NoFile, Empty, Garbage} THEN {} ELSE track

\* Mutant: the files the trackers noted are not asked.
GitChangedOnly == GitChanged

\* Mutant: git is not asked.
TrackedOnly == Tracked

AllChanged == GitChanged \union Tracked

Impacted(changed) == UNION {Impact[f] : f \in changed \intersect Files}

\* Mutant: the digest covers the names and not the contents.
NameOnly(f) == <<f, -1>>

\* A path that starts with a dot has lost it when its content is read: the
\* file is not found, and <missing-or-deleted> goes into the digest.
DigestEntry(f) == <<f, IF f \in Files \ Hidden THEN content[f] ELSE -1>>

Digest(changed) == {DigestEntry(f) : f \in changed}

Acknowledged(d, changed) == /\ sync # NoFile
                            /\ sync.digest = Digest(changed)
                            /\ d \in sync.domains

\* _check_sync reports no error.
Passes(changed) == \A d \in Impacted(changed) :
                      Doc[d] \in changed \/ Acknowledged(d, changed)

-----------------------------------------------------------------------------
\* The agent: edits, acknowledgements, commits.

NothingRuns == hook = IdleHook /\ \A p \in Trackers : tracker[p] = IdleTracker

MayAct == parallel \/ NothingRuns

\* A file of the working tree gets its next version.
Write(f, noted) ==
    /\ MayAct
    /\ content[f] < MaxVersion[parallel][f]
    /\ content' = [content EXCEPT ![f] = @ + 1]
    /\ edited' = edited \union {<<f, content[f] + 1, noted>>}
    /\ UNCHANGED <<parallel, head, sync, syncHead, track, trackHead, hook, commits,
                   missed, acked>>

\* One of the tools Edit, Write, MultiEdit and NotebookEdit writes a file; the
\* PostToolUse hook starts claude-track.
Edit(p, f) ==
    /\ tracker[p] = IdleTracker
    /\ Write(f, TRUE)
    /\ tracker' = [tracker EXCEPT ![p] = [pc |-> "start", file |-> f]]

\* A shell command or any other tool writes a file, and no claude-track starts;
\* or one starts and returns at once, with a payload it finds no path in.
UnnotedEdit(f) ==
    /\ Write(f, FALSE)
    /\ UNCHANGED tracker

\* Mutant: the file of the acknowledgement is left out of its digest.
AckDigestWithoutItself(changed) == Digest(changed \ {StateFile})

AckDigest(changed) == Digest(changed)

\* acknowledge for the domains in ds; what was acknowledged before is gone.
Acknowledge(ds) ==
    /\ MayAct
    /\ ds # {} /\ ds \subseteq Impacted(AllChanged)
    /\ sync' = [digest |-> AckDigest(AllChanged), domains |-> ds]
    /\ acked' = content
    /\ UNCHANGED <<parallel, content, head, syncHead, track, trackHead, tracker, hook,
                   commits, edited, missed>>

\* git add --all and git commit.
Commit ==
    /\ MayAct
    /\ commits < MaxCommits[parallel]
    /\ GitChanged # {}
    /\ commits' = commits + 1
    /\ head' = content
    /\ syncHead' = sync
    /\ trackHead' = track
    /\ UNCHANGED <<parallel, content, sync, track, tracker, hook, edited, missed, acked>>

-----------------------------------------------------------------------------
\* claude-track: read, truncate, write.

\* What claude-track is going to write.
Noted(f) == Tracked \union {f}

TrackRead(p) ==
    /\ tracker[p].pc = "start"
    /\ tracker' = [tracker EXCEPT ![p] =
                      [pc |-> "open", files |-> Noted(tracker[p].file)]]
    /\ UNCHANGED <<parallel, tree, hook, commits, edited, missed, acked>>

TrackOpen(p) ==
    /\ tracker[p].pc = "open"
    /\ track' = Empty
    /\ tracker' = [tracker EXCEPT ![p].pc = "write"]
    /\ UNCHANGED <<parallel, content, head, sync, syncHead, trackHead, hook, commits,
                   edited, missed, acked>>

\* Where another process has written since, the longer text sticks out.
TrackWrite(p) ==
    /\ tracker[p].pc = "write"
    /\ track' \in {tracker[p].files} \union (IF track = Empty THEN {} ELSE {Garbage})
    /\ tracker' = [tracker EXCEPT ![p] = IdleTracker]
    /\ UNCHANGED <<parallel, content, head, sync, syncHead, trackHead, hook, commits,
                   edited, missed, acked>>

-----------------------------------------------------------------------------
\* claude-hook: read, check, remove.

HookReads ==
    /\ hook.pc = "idle"
    /\ parallel \/ \A p \in Trackers : tracker[p] = IdleTracker
    /\ hook' = [pc |-> "check", changed |-> AllChanged, due |-> edited]
    /\ UNCHANGED <<parallel, tree, tracker, commits, edited, missed, acked>>

HookBlocks ==
    /\ hook.pc = "check"
    /\ ~Passes(hook.changed)
    /\ hook' = IdleHook
    /\ UNCHANGED <<parallel, tree, tracker, commits, edited, missed, acked>>

HookPasses ==
    /\ hook.pc = "check"
    /\ Passes(hook.changed)
    /\ edited' = edited \ hook.due
    /\ missed' = missed \union {e \in hook.due : e[1] \notin hook.changed}
    /\ hook' = [pc |-> "unlink"]
    /\ UNCHANGED <<parallel, tree, tracker, commits, acked>>

\* A process that has changed-files.json open writes into the removed file.
HookUnlinks ==
    /\ hook.pc = "unlink"
    /\ track' = NoFile
    /\ tracker' = [p \in Trackers |->
                      IF tracker[p].pc = "write" THEN IdleTracker ELSE tracker[p]]
    /\ hook' = IdleHook
    /\ UNCHANGED <<parallel, content, head, sync, syncHead, trackHead, commits, edited,
                   missed, acked>>

TrackSteps == \E p \in Trackers : TrackRead(p) \/ TrackOpen(p) \/ TrackWrite(p)
HookSteps == HookReads \/ HookBlocks \/ HookPasses \/ HookUnlinks

Next == \/ \E p \in Trackers, f \in Files : Edit(p, f)
        \/ \E f \in Files : UnnotedEdit(f)
        \/ \E ds \in SUBSET Domains : Acknowledge(ds)
        \/ Commit
        \/ TrackSteps
        \/ HookSteps

Spec == Init /\ [][Next]_vars

\* An agent that does what the gate asks for: when it is blocked it
\* acknowledges every impacted domain at once, for the same reason each time.
AcknowledgeAll == ~Passes(AllChanged) /\ Acknowledge(Impacted(AllChanged))

\* The processes run to their end, turns go on ending, and the blocked agent
\* acknowledges: strong fairness, because it has to wait for the hook each time.
PatientSpec == Spec /\ WF_vars(TrackSteps) /\ WF_vars(HookSteps)
                    /\ SF_vars(AcknowledgeAll)

-----------------------------------------------------------------------------

Names == Files \union {StateFile, TrackFile}
Versions(f) == 0..MaxVersion[parallel][f]
TrackerStates == [pc : {"idle"}] \union [pc : {"start"}, file : Files]
                 \union [pc : {"open", "write"}, files : SUBSET Files]

TypeOK ==
    /\ parallel \in BOOLEAN
    /\ \A version \in {content, head} :
          version \in [Files -> Int] /\ \A f \in Files : version[f] \in Versions(f)
    /\ \A s \in {sync, syncHead} :
          s # NoFile => /\ s.digest \subseteq Names \X Int
                        /\ s.domains \subseteq Domains
    /\ \A t \in {track, trackHead} : t \notin {NoFile, Empty, Garbage} => t \subseteq Files
    /\ tracker \in [Trackers -> TrackerStates]
    /\ hook.pc \in {"idle", "check", "unlink"}
    /\ \A e \in edited \union missed :
          e[1] \in Files /\ e[2] \in Versions(e[1]) /\ e[3] \in BOOLEAN

\* What claude-track is for: an edit made with a tool it is started for is among
\* the changed files the turn is judged by, committed or not, as long as one
\* process at a time uses the files of the gate.  An edit of a shell command
\* that is committed before the turn ends does escape.
NothingMissed == ~parallel => \A e \in missed : ~e[3]

\* Whatever trackers and hook do to changed-files.json at the same time, and
\* noted or not, an edit escapes the hook only if it is in HEAD already.
OnlyCommittedMissed == \A e \in missed : e[2] <= head[e[1]]

\* The inductive invariant behind it: no edit is newer than the file, and an
\* edit the running check is due to cover but does not know of is in HEAD.
IInv ==
    /\ content \in [Files -> Nat] /\ head \in [Files -> Nat]
    /\ \A f \in Files : head[f] <= content[f]
    /\ edited \subseteq Files \X Nat \X BOOLEAN /\ missed \subseteq Files \X Nat \X BOOLEAN
    /\ \A e \in edited : e[2] <= content[e[1]]
    /\ hook.pc = "check" =>
          /\ hook.due \subseteq Files \X Nat \X BOOLEAN
          /\ \A e \in hook.due : e[1] \notin hook.changed => e[2] <= head[e[1]]
    /\ OnlyCommittedMissed

\* An acknowledgement is for "this exact change digest" (vibe_doctor.py:583):
\* while it lets a domain pass, every changed file with an impact on the
\* domain has the content it had when the acknowledgement was made, except
\* one that the digest reads as missing.
AcknowledgedContent ==
    \A d \in Impacted(AllChanged) : Acknowledged(d, AllChanged) =>
        \A f \in AllChanged \intersect (Files \ Hidden) :
            d \in Impact[f] => content[f] = acked[f]

\* "Update {doc}, or acknowledge that no stable fact changed" (582): edits and
\* commits come to an end; from some point on the agent that acknowledges what
\* it is blocked for passes at every turn.
GateSettles == <>[](hook = IdleHook => Passes(AllChanged))

\* An acknowledgement replaces the one before with its domains: an agent that
\* names fewer than it is blocked for takes back what it had acknowledged.
NamesAll == <>[][sync' # sync => sync'.domains = Impacted(AllChanged)]_vars

\* It does as long as every acknowledgement names all the impacted domains and
\* none has been committed, although every acknowledgement and every removal of
\* changed-files.json changes the set of changed files the next digest is of.
SettlesUncommitted == NamesAll /\ [](syncHead = NoFile) => GateSettles
=============================================================================
