--------------------------- MODULE DocSyncProofs ---------------------------
(***************************************************************************)
(* What the gate sees, for any files, impacts and number of processes: no  *)
(* edit of an edit tool escapes the hook when one process runs at a time,  *)
(* no uncommitted edit escapes it at all, and an acknowledgement is for    *)
(* its content.                                                            *)
(***************************************************************************)
EXTENDS DocSync, TLAPS

\* What git reports: a file that is not among the changed ones is as in HEAD.
LEMMA UnchangedIsCommitted ==
    \A f \in Files : f \notin AllChanged => content[f] = head[f]
BY DEF AllChanged, GitChanged

\* The inductive invariant holds in every reachable state.
THEOREM Inductive == Spec => []IInv
<1>1. Init => IInv
  BY DEF Init, IdleHook, IInv, OnlyCommittedMissed
<1>2. IInv /\ [Next]_vars => IInv'
  <2> SUFFICES ASSUME IInv, [Next]_vars PROVE IInv'
    OBVIOUS
  <2>1. ASSUME UNCHANGED <<content, head, edited, missed>>,
               hook' = hook \/ hook'.pc # "check"
        PROVE  IInv'
    BY <2>1 DEF IInv, OnlyCommittedMissed
  <2>2. ASSUME NEW f \in Files, NEW noted \in BOOLEAN, Write(f, noted) PROVE IInv'
    <3>1. /\ content' = [content EXCEPT ![f] = @ + 1]
          /\ edited' = edited \union {<<f, content[f] + 1, noted>>}
          /\ UNCHANGED <<head, hook, missed>>
      BY <2>2 DEF Write
    <3>2. content[f] \in Nat /\ content' \in [Files -> Nat] /\ content'[f] = content[f] + 1
      BY <3>1 DEF IInv
    <3>3. \A g \in Files : content[g] \in Nat /\ content'[g] \in Nat /\ content[g] <= content'[g]
      BY <3>1, <3>2 DEF IInv
    <3>4. \A g \in Files : head[g] <= content'[g]
      BY <3>3 DEF IInv
    <3>5. edited' \subseteq Files \X Nat \X BOOLEAN
      BY <3>1, <3>2 DEF IInv
    <3>6. \A e \in edited' : e[2] <= content'[e[1]]
      <4>1. ASSUME NEW e \in edited PROVE e[2] <= content'[e[1]]
        BY <3>3, <4>1 DEF IInv
      <4> QED
        BY <3>1, <3>2, <4>1
    <3> QED
      BY <3>1, <3>2, <3>4, <3>5, <3>6 DEF IInv, OnlyCommittedMissed
  <2>3. CASE Commit
    <3>1. head' = content /\ UNCHANGED <<content, hook, edited, missed>>
      BY <2>3 DEF Commit
    <3>2. \A f \in Files : content[f] \in Nat /\ head[f] \in Nat /\ head[f] <= content[f]
      BY DEF IInv
    <3>3. \A e \in Files \X Nat \X BOOLEAN : e[2] <= head[e[1]] => e[2] <= content[e[1]]
      BY <3>2
    <3> QED
      BY <3>1, <3>2, <3>3 DEF IInv, OnlyCommittedMissed
  <2>4. CASE HookReads
    <3>1. /\ UNCHANGED <<content, head, edited, missed>>
          /\ hook' = [pc |-> "check", changed |-> AllChanged, due |-> edited]
      BY <2>4 DEF HookReads, tree
    <3>2. \A e \in edited : e[1] \notin AllChanged => e[2] <= head[e[1]]
      BY UnchangedIsCommitted DEF IInv
    <3> QED
      BY <3>1, <3>2 DEF IInv, OnlyCommittedMissed
  <2>5. CASE HookPasses
    <3>1. /\ UNCHANGED <<content, head>>
          /\ edited' = edited \ hook.due
          /\ missed' = missed \union {e \in hook.due : e[1] \notin hook.changed}
          /\ hook.pc = "check" /\ hook'.pc = "unlink"
      BY <2>5 DEF HookPasses, tree
    <3> QED
      BY <3>1 DEF IInv, OnlyCommittedMissed
  <2>6. ASSUME NEW ds \in SUBSET Domains, Acknowledge(ds) PROVE IInv'
    BY <2>1, <2>6 DEF Acknowledge
  <2>7. CASE TrackSteps
    BY <2>1, <2>7 DEF TrackSteps, TrackRead, TrackOpen, TrackWrite, tree
  <2>8. CASE HookBlocks
    BY <2>1, <2>8 DEF HookBlocks, IdleHook, tree
  <2>9. CASE HookUnlinks
    BY <2>1, <2>9 DEF HookUnlinks, IdleHook
  <2>10. CASE UNCHANGED vars
    BY <2>1, <2>10 DEF vars, tree
  <2> QED
    BY <2>2, <2>3, <2>4, <2>5, <2>6, <2>7, <2>8, <2>9, <2>10
    DEF Next, Edit, UnnotedEdit, HookSteps
<1> QED
  BY <1>1, <1>2, PTL DEF Spec

\* Whatever trackers and hook do to changed-files.json, the hook lets pass
\* without knowing of it only an edit that is committed.
THEOREM UncommittedEditsAreSeen == Spec => []OnlyCommittedMissed
BY Inductive, PTL DEF IInv

-----------------------------------------------------------------------------
(* Acknowledgements *)

\* What the digest of the recorded acknowledgement says of a file that can be
\* read is the content it had then.
DigestOfAcked ==
    sync # NoFile => \A f \in Files \ Hidden : \A v :
                        <<f, v>> \in sync.digest => v = acked[f]

\* An acknowledgement counts only while the files are as they were when it was
\* made.
THEOREM AcknowledgementsHold == Spec => []AcknowledgedContent
<1>1. Init => DigestOfAcked
  BY DEF Init, DigestOfAcked
<1>2. DigestOfAcked /\ [Next]_vars => DigestOfAcked'
  <2> SUFFICES ASSUME DigestOfAcked, [Next]_vars PROVE DigestOfAcked'
    OBVIOUS
  <2>1. CASE UNCHANGED <<sync, acked>>
    BY <2>1 DEF DigestOfAcked
  <2>2. ASSUME NEW ds \in SUBSET Domains, Acknowledge(ds) PROVE DigestOfAcked'
    <3>1. sync'.digest = Digest(AllChanged) /\ acked' = content
      BY <2>2 DEF Acknowledge, AckDigest
    <3>2. ASSUME NEW f \in Files \ Hidden, NEW v, <<f, v>> \in Digest(AllChanged)
          PROVE  v = content[f]
      <4>1. PICK g \in AllChanged : <<f, v>> = DigestEntry(g)
        BY <3>2 DEF Digest
      <4>2. f = g
        BY <4>1 DEF DigestEntry
      <4> QED
        BY <4>1, <4>2 DEF DigestEntry
    <3> QED
      BY <3>1, <3>2 DEF DigestOfAcked
  <2> QED
    BY <2>1, <2>2
    DEF Next, Edit, UnnotedEdit, Write, Commit, TrackSteps, TrackRead, TrackOpen,
        TrackWrite, HookSteps, HookReads, HookBlocks, HookPasses, HookUnlinks, tree, vars
<1>3. DigestOfAcked => AcknowledgedContent
  <2> SUFFICES ASSUME DigestOfAcked, NEW d, Acknowledged(d, AllChanged),
                      NEW f \in AllChanged \intersect (Files \ Hidden)
               PROVE  content[f] = acked[f]
    BY DEF AcknowledgedContent
  <2>1. DigestEntry(f) = <<f, content[f]>> /\ DigestEntry(f) \in sync.digest
    BY DEF Acknowledged, Digest, DigestEntry
  <2> QED
    BY <2>1 DEF DigestOfAcked, Acknowledged
<1> QED
  BY <1>1, <1>2, <1>3, PTL DEF Spec

-----------------------------------------------------------------------------
(* Types *)

\* TypeOK, and the edits the running check is due to cover.
TypeInv == /\ TypeOK
           /\ hook.pc = "check" =>
                 \A e \in hook.due :
                    e[1] \in Files /\ e[2] \in Versions(e[1]) /\ e[3] \in BOOLEAN

\* What git and the trackers report are files of the tree.
LEMMA ChangedAreNames ==
    ASSUME TypeOK
    PROVE  Tracked \subseteq Files /\ AllChanged \subseteq Names
BY DEF TypeOK, Tracked, AllChanged, GitChanged, Names

\* A step that writes no version and no acknowledgement.
LEMMA TypeQuietStep ==
    ASSUME TypeInv,
           UNCHANGED <<parallel, content, head, sync, syncHead, trackHead, edited, missed>>,
           track' \notin {NoFile, Empty, Garbage} => track' \subseteq Files,
           tracker' \in [Trackers -> TrackerStates],
           hook' = hook \/ hook'.pc \in {"idle", "unlink"}
    PROVE  TypeInv'
BY DEF TypeInv, TypeOK, Versions

\* The tracker's three steps keep its types.
LEMMA TypeTrackSteps ==
    ASSUME TypeInv, TrackSteps
    PROVE  TypeInv'
<1> USE DEF TypeInv
<1>1. ASSUME NEW p \in Trackers, TrackRead(p) PROVE TypeInv'
  <2>1. tracker[p] \in [pc : {"start"}, file : Files]
    BY <1>1 DEF TrackRead, TypeOK, TrackerStates
  <2>2. Noted(tracker[p].file) \in SUBSET Files
    BY <2>1, ChangedAreNames DEF Noted
  <2>3. [pc |-> "open", files |-> Noted(tracker[p].file)] \in TrackerStates
    BY <2>2 DEF TrackerStates
  <2>4. tracker' \in [Trackers -> TrackerStates]
    BY <1>1, <2>3 DEF TrackRead, TypeOK
  <2>5. UNCHANGED <<parallel, content, head, sync, syncHead, track, trackHead, hook,
                    edited, missed>>
    BY <1>1 DEF TrackRead, tree
  <2> QED
    BY <2>4, <2>5, TypeQuietStep DEF TypeOK
<1>2. ASSUME NEW p \in Trackers, TrackOpen(p) PROVE TypeInv'
  <2>1. tracker[p] \in [pc : {"open", "write"}, files : SUBSET Files]
    BY <1>2 DEF TrackOpen, TypeOK, TrackerStates
  <2>2. [tracker[p] EXCEPT !.pc = "write"] \in TrackerStates
    BY <2>1 DEF TrackerStates
  <2>3. tracker' \in [Trackers -> TrackerStates]
    BY <1>2, <2>2 DEF TrackOpen, TypeOK
  <2> QED
    BY <1>2, <2>3, TypeQuietStep DEF TrackOpen
<1>3. ASSUME NEW p \in Trackers, TrackWrite(p) PROVE TypeInv'
  <2>1. tracker[p].files \in SUBSET Files
    BY <1>3 DEF TrackWrite, TypeOK, TrackerStates
  <2>2. IdleTracker \in TrackerStates
    BY DEF IdleTracker, TrackerStates
  <2>3. tracker' \in [Trackers -> TrackerStates]
    BY <1>3, <2>2 DEF TrackWrite, TypeOK
  <2>4. track' \notin {NoFile, Empty, Garbage} => track' \subseteq Files
    BY <1>3, <2>1 DEF TrackWrite
  <2> QED
    BY <1>3, <2>3, <2>4, TypeQuietStep DEF TrackWrite
<1> QED
  BY <1>1, <1>2, <1>3 DEF TrackSteps

\* An edit writes the next version, within its bound, and starts a tracker or
\* none.
LEMMA TypeWrite ==
    ASSUME TypeInv, NEW f \in Files, NEW noted \in BOOLEAN, Write(f, noted),
           tracker' \in [Trackers -> TrackerStates]
    PROVE  TypeInv'
<1> USE DEF TypeInv
<1>1. content[f] \in 0..MaxVersion[parallel][f] /\ content[f] < MaxVersion[parallel][f]
  BY DEF Write, TypeOK, Versions
<1>2. MaxVersion[parallel][f] \in Nat
  BY BoundsAssumption DEF TypeOK
<1>3. content[f] + 1 \in 0..MaxVersion[parallel][f]
  BY <1>1, <1>2
<1>4. content' \in [Files -> Int] /\ \A g \in Files : content'[g] \in Versions(g)'
  BY <1>1, <1>3 DEF Write, TypeOK, Versions
<1>5. \A e \in edited' : e[1] \in Files /\ e[2] \in Versions(e[1])' /\ e[3] \in BOOLEAN
  BY <1>3 DEF Write, TypeOK, Versions
<1> QED
  BY <1>4, <1>5 DEF Write, TypeOK, Versions

\* Both edits keep the types.
LEMMA TypeEdits ==
    ASSUME TypeInv, NEW f \in Files, UnnotedEdit(f) \/ \E p \in Trackers : Edit(p, f)
    PROVE  TypeInv'
<1>1. CASE UnnotedEdit(f)
  BY <1>1, TypeWrite DEF UnnotedEdit, TypeInv, TypeOK
<1>2. ASSUME NEW p \in Trackers, Edit(p, f) PROVE TypeInv'
  <2>1. [pc |-> "start", file |-> f] \in TrackerStates
    BY DEF TrackerStates
  <2>2. tracker' \in [Trackers -> TrackerStates]
    BY <1>2, <2>1 DEF Edit, TypeInv, TypeOK
  <2> QED
    BY <1>2, <2>2, TypeWrite DEF Edit
<1> QED
  BY <1>1, <1>2

\* Every variable keeps its type.
THEOREM TypeCorrect == Spec => []TypeOK
<1>1. Init => TypeInv
  <2> SUFFICES ASSUME Init PROVE TypeInv
    OBVIOUS
  <2>1. \A f \in Files : 0 \in 0..MaxVersion[parallel][f]
    BY BoundsAssumption DEF Init
  <2>2. content \in [Files -> Int] /\ \A f \in Files : content[f] \in Versions(f)
    BY <2>1 DEF Init, Versions
  <2>3. tracker \in [Trackers -> TrackerStates]
    BY DEF Init, IdleTracker, TrackerStates
  <2> QED
    BY <2>2, <2>3 DEF Init, IdleHook, TypeInv, TypeOK
<1>2. TypeInv /\ [Next]_vars => TypeInv'
  <2> SUFFICES ASSUME TypeInv, [Next]_vars PROVE TypeInv'
    OBVIOUS
  <2>1. ASSUME NEW ds \in SUBSET Domains, Acknowledge(ds) PROVE TypeInv'
    <3>1. \A f \in AllChanged : DigestEntry(f) \in Names \X Int
      BY ChangedAreNames DEF DigestEntry, TypeInv, TypeOK
    <3>2. AckDigest(AllChanged) \subseteq Names \X Int
      BY <3>1 DEF AckDigest, Digest
    <3>3. sync' = [digest |-> AckDigest(AllChanged), domains |-> ds]
      BY <2>1 DEF Acknowledge
    <3>4. sync'.digest \subseteq Names \X Int /\ sync'.domains \subseteq Domains
      BY <3>2, <3>3
    <3> QED
      BY <2>1, <3>4 DEF Acknowledge, TypeInv, TypeOK, Versions
  <2>2. CASE Commit
    BY <2>2 DEF Commit, TypeInv, TypeOK, Versions
  <2>3. CASE HookReads
    BY <2>3 DEF HookReads, tree, TypeInv, TypeOK, Versions
  <2>4. CASE HookBlocks
    BY <2>4, TypeQuietStep DEF HookBlocks, IdleHook, tree, TypeInv, TypeOK
  <2>5. CASE HookPasses
    BY <2>5 DEF HookPasses, tree, TypeInv, TypeOK, Versions
  <2>6. CASE HookUnlinks
    <3>1. IdleTracker \in TrackerStates
      BY DEF IdleTracker, TrackerStates
    <3>2. tracker' \in [Trackers -> TrackerStates]
      BY <2>6, <3>1 DEF HookUnlinks, TypeInv, TypeOK
    <3> QED
      BY <2>6, <3>2, TypeQuietStep DEF HookUnlinks, IdleHook
  <2>7. CASE UNCHANGED vars
    BY <2>7, TypeQuietStep DEF vars, tree, TypeInv, TypeOK
  <2> QED
    BY <2>1, <2>2, <2>3, <2>4, <2>5, <2>6, <2>7, TypeEdits, TypeTrackSteps
    DEF Next, HookSteps
<1>3. TypeInv => TypeOK
  BY DEF TypeInv
<1> QED
  BY <1>1, <1>2, <1>3, PTL DEF Spec

-----------------------------------------------------------------------------
(* One process at a time *)

\* Every edit of an edit tool that no hook has let pass is in
\* changed-files.json, or on its way there in the hands of the only tracker, and
\* the hook runs alone.
NotedEdits == {e \in edited : e[3]}
NotedFiles == {e[1] : e \in NotedEdits}

Idle(p) == tracker[p].pc = "idle"

Noting == \A p \in Trackers :
    /\ tracker[p].pc = "start" => NotedFiles \subseteq Tracked \union {tracker[p].file}
    /\ tracker[p].pc \in {"open", "write"} => NotedFiles \subseteq tracker[p].files
    /\ tracker[p].pc = "write" => track = Empty

Alone == /\ hook.pc # "idle" => \A p \in Trackers : Idle(p)
         /\ \A p, q \in Trackers : ~Idle(p) /\ ~Idle(q) => p = q

Judged == /\ hook.pc = "check" => hook.due = edited /\ NotedFiles \subseteq hook.changed
          /\ hook.pc = "unlink" => edited = {}

Serial == ~parallel => /\ \A e \in missed : ~e[3]
                       /\ Alone
                       /\ Noting
                       /\ (\A p \in Trackers : Idle(p)) => NotedFiles \subseteq Tracked
                       /\ Judged

\* A tracker that is not idle is the only one, and the hook does not run.
LEMMA OnlyTracker ==
    ASSUME Serial, ~parallel, NEW p \in Trackers, ~Idle(p)
    PROVE  /\ hook.pc = "idle"
           /\ \A q \in Trackers \ {p} : Idle(q)
BY DEF Serial, Alone

\* An edit starts the only tracker, or none.
LEMMA SerialEdits ==
    ASSUME TypeOK, Serial, ~parallel, NEW f \in Files,
           UnnotedEdit(f) \/ \E p \in Trackers : Edit(p, f)
    PROVE  Serial'
<1>1. PICK noted \in BOOLEAN : Write(f, noted) /\ (~noted => UnnotedEdit(f))
                                               /\ (noted => \E p \in Trackers : Edit(p, f))
  BY DEF UnnotedEdit, Edit
<1>2. hook = IdleHook /\ \A q \in Trackers : Idle(q)
  BY <1>1 DEF Write, MayAct, NothingRuns, IdleTracker, Idle
<1>3. /\ edited' = edited \union {<<f, content[f] + 1, noted>>}
      /\ UNCHANGED <<parallel, track, hook, missed>>
  BY <1>1 DEF Write
<1>4. NotedFiles \subseteq Tracked /\ \A e \in missed : ~e[3]
  BY <1>2 DEF Serial
<1>5. NotedFiles' \subseteq IF noted THEN Tracked' \union {f} ELSE Tracked'
  BY <1>3, <1>4 DEF NotedFiles, NotedEdits, Tracked
<1>6. hook'.pc = "idle"
  BY <1>2, <1>3 DEF IdleHook
<1>7. CASE ~noted
  <2>1. \A q \in Trackers : Idle(q)'
    BY <1>1, <1>2, <1>7 DEF UnnotedEdit, Idle
  <2> QED
    BY <1>3, <1>4, <1>5, <1>6, <1>7, <2>1 DEF Serial, Alone, Noting, Judged, Idle
<1>8. CASE noted
  <2>1. PICK p \in Trackers : tracker' = [tracker EXCEPT ![p] = [pc |-> "start", file |-> f]]
    BY <1>1, <1>8 DEF Edit
  <2>2. \A q \in Trackers : tracker'[q] = IF q = p THEN [pc |-> "start", file |-> f]
                                                  ELSE tracker[q]
    BY <2>1 DEF TypeOK
  <2>3. Alone' /\ Judged'
    BY <1>2, <1>6, <2>2 DEF Alone, Idle, Judged
  <2>4. Noting'
    BY <1>2, <1>5, <1>8, <2>2 DEF Noting, Idle
  <2> QED
    BY <1>3, <1>4, <2>2, <2>3, <2>4 DEF Serial, Idle
<1> QED
  BY <1>7, <1>8

\* The tracker's steps, with nobody else at work.
LEMMA SerialTrackSteps ==
    ASSUME TypeOK, Serial, ~parallel, TrackSteps
    PROVE  Serial'
<1>1. ASSUME NEW p \in Trackers, TrackRead(p) PROVE Serial'
  <2>1. /\ tracker[p].pc = "start"
        /\ tracker' = [tracker EXCEPT ![p] = [pc |-> "open", files |-> Noted(tracker[p].file)]]
        /\ UNCHANGED <<parallel, track, hook, edited, missed>>
    BY <1>1 DEF TrackRead, tree
  <2>2. hook.pc = "idle" /\ \A q \in Trackers \ {p} : Idle(q)
    BY <2>1, OnlyTracker DEF Idle
  <2>3. NotedFiles' \subseteq Noted(tracker[p].file)
    BY <2>1 DEF Serial, Noting, Noted, NotedFiles, NotedEdits
  <2>4. \A q \in Trackers : tracker'[q] =
           IF q = p THEN [pc |-> "open", files |-> Noted(tracker[p].file)] ELSE tracker[q]
    BY <2>1 DEF TypeOK
  <2>5. Alone' /\ Judged'
    BY <2>1, <2>2, <2>4 DEF Alone, Idle, Judged
  <2>6. Noting'
    BY <2>2, <2>3, <2>4 DEF Noting, Idle
  <2> QED
    BY <2>1, <2>4, <2>5, <2>6 DEF Serial, Idle
<1>2. ASSUME NEW p \in Trackers, TrackOpen(p) PROVE Serial'
  <2>1. /\ tracker[p].pc = "open" /\ track' = Empty
        /\ tracker' = [tracker EXCEPT ![p].pc = "write"]
        /\ UNCHANGED <<parallel, hook, edited, missed>>
    BY <1>2 DEF TrackOpen
  <2>2. hook.pc = "idle" /\ \A q \in Trackers \ {p} : Idle(q)
    BY <2>1, OnlyTracker DEF Idle
  <2>3. tracker[p] \in [pc : {"open", "write"}, files : SUBSET Files]
    BY <2>1 DEF TypeOK, TrackerStates
  <2>4. tracker'[p].pc = "write" /\ tracker'[p].files = tracker[p].files
    BY <2>1, <2>3 DEF TypeOK
  <2>5. \A q \in Trackers \ {p} : tracker'[q] = tracker[q]
    BY <2>1 DEF TypeOK
  <2>6. NotedFiles' \subseteq tracker'[p].files
    BY <2>1, <2>4 DEF Serial, Noting, NotedFiles, NotedEdits
  <2>7. Alone' /\ Judged'
    BY <2>1, <2>2, <2>5 DEF Alone, Idle, Judged
  <2>8. Noting'
    BY <2>1, <2>2, <2>4, <2>5, <2>6 DEF Noting, Idle
  <2> QED
    BY <2>1, <2>4, <2>7, <2>8 DEF Serial, Idle
<1>3. ASSUME NEW p \in Trackers, TrackWrite(p) PROVE Serial'
  <2>1. /\ tracker[p].pc = "write"
        /\ tracker' = [tracker EXCEPT ![p] = IdleTracker]
        /\ UNCHANGED <<parallel, hook, edited, missed>>
    BY <1>3 DEF TrackWrite
  <2>2. hook.pc = "idle" /\ \A q \in Trackers \ {p} : Idle(q)
    BY <2>1, OnlyTracker DEF Idle
  <2>3. tracker[p].files \in SUBSET Files
    BY <2>1 DEF TypeOK, TrackerStates
  <2>4. track' = tracker[p].files
    BY <1>3, <2>1 DEF TrackWrite, Serial, Noting
  <2>5. NotedFiles' \subseteq Tracked'
    <3>1. Tracked' = tracker[p].files
      BY <2>3, <2>4, FilesAssumption DEF Tracked
    <3> QED
      BY <2>1, <3>1 DEF Serial, Noting, NotedFiles, NotedEdits
  <2>6. \A q \in Trackers : tracker'[q].pc = "idle"
    BY <2>1, <2>2 DEF TypeOK, IdleTracker, Idle
  <2>7. Alone' /\ Judged' /\ Noting'
    BY <2>1, <2>2, <2>6 DEF Alone, Idle, Judged, Noting
  <2> QED
    BY <2>1, <2>5, <2>7 DEF Serial
<1> QED
  BY <1>1, <1>2, <1>3 DEF TrackSteps

\* One process at a time, the hook lets no edit of an edit tool pass that it does
\* not know of.
THEOREM NothingIsMissed == Spec => []NothingMissed
<1>1. Init => Serial
  BY DEF Init, IdleTracker, IdleHook, Serial, Alone, Noting, Judged, Idle, NotedFiles, NotedEdits
<1>2. TypeOK /\ Serial /\ [Next]_vars => Serial'
  <2> SUFFICES ASSUME TypeOK, Serial, [Next]_vars, ~parallel PROVE Serial'
    <3>1. [Next]_vars => parallel' = parallel
      BY DEF Next, Edit, UnnotedEdit, Write, Acknowledge, Commit, TrackSteps, TrackRead,
             TrackOpen, TrackWrite, HookSteps, HookReads, HookBlocks, HookPasses,
             HookUnlinks, vars
    <3> QED
      BY <3>1 DEF Serial
  <2>1. CASE UNCHANGED <<parallel, track, tracker, hook, edited, missed>>
    BY <2>1 DEF Serial, Alone, Noting, Judged, Idle, NotedFiles, NotedEdits, Tracked
  <2>2. CASE \E ds \in SUBSET Domains : Acknowledge(ds)
    BY <2>1, <2>2 DEF Acknowledge
  <2>3. CASE Commit
    BY <2>1, <2>3 DEF Commit
  <2>4. CASE HookReads
    <3>1. \A p \in Trackers : Idle(p)
      BY <2>4 DEF HookReads, IdleTracker, Idle
    <3>2. /\ hook' = [pc |-> "check", changed |-> AllChanged, due |-> edited]
          /\ UNCHANGED <<parallel, track, tracker, edited, missed>>
      BY <2>4 DEF HookReads, tree
    <3>3. NotedFiles \subseteq Tracked /\ Tracked \subseteq AllChanged
      BY <3>1 DEF Serial, AllChanged
    <3> QED
      BY <3>1, <3>2, <3>3 DEF Serial, Alone, Noting, Judged, Idle, NotedFiles, NotedEdits, Tracked
  <2>5. CASE HookBlocks
    <3>1. hook'.pc = "idle" /\ UNCHANGED <<parallel, track, tracker, edited, missed>>
      BY <2>5 DEF HookBlocks, IdleHook, tree
    <3> QED
      BY <3>1 DEF Serial, Alone, Noting, Judged, Idle, NotedFiles, NotedEdits, Tracked
  <2>6. CASE HookPasses
    <3>1. /\ hook.pc = "check" /\ hook'.pc = "unlink"
          /\ edited' = edited \ hook.due
          /\ missed' = missed \union {e \in hook.due : e[1] \notin hook.changed}
          /\ UNCHANGED <<parallel, track, tracker>>
      BY <2>6 DEF HookPasses, tree
    <3>2. /\ hook.due = edited /\ NotedFiles \subseteq hook.changed
          /\ \A e \in missed : ~e[3]
      BY <3>1 DEF Serial, Judged
    <3>3. edited' = {} /\ \A e \in missed' : ~e[3]
      BY <3>1, <3>2 DEF NotedFiles, NotedEdits
    <3>4. \A p \in Trackers : Idle(p) /\ Idle(p)'
      BY <3>1 DEF Serial, Alone, Idle
    <3> QED
      BY <3>1, <3>3, <3>4 DEF Serial, Alone, Noting, Judged, Idle, NotedFiles, NotedEdits
  <2>7. CASE HookUnlinks
    <3>1. /\ hook.pc = "unlink" /\ hook'.pc = "idle"
          /\ UNCHANGED <<parallel, edited, missed>>
          /\ tracker' = [p \in Trackers |->
                            IF tracker[p].pc = "write" THEN IdleTracker ELSE tracker[p]]
      BY <2>7 DEF HookUnlinks, IdleHook
    <3>2. edited' = {} /\ \A e \in missed' : ~e[3]
      BY <3>1 DEF Serial, Judged
    <3>3. \A p \in Trackers : Idle(p)'
      BY <3>1 DEF Serial, Alone, Idle, IdleTracker
    <3> QED
      BY <3>1, <3>2, <3>3 DEF Serial, Alone, Noting, Judged, Idle, NotedFiles, NotedEdits
  <2>8. CASE UNCHANGED vars
    BY <2>1, <2>8 DEF vars, tree
  <2> QED
    BY <2>2, <2>3, <2>4, <2>5, <2>6, <2>7, <2>8, SerialEdits, SerialTrackSteps
    DEF Next, HookSteps
<1>3. Serial => NothingMissed
  BY DEF Serial, NothingMissed
<1> QED
  BY <1>1, <1>2, <1>3, TypeCorrect, PTL DEF Spec
=============================================================================
