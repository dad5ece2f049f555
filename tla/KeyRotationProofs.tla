-------------------------- MODULE KeyRotationProofs -------------------------
(***************************************************************************)
(* What holds of the key files and of the records placed at lofts, for any *)
(* number of processes, lofts, keys and faults.                            *)
(***************************************************************************)
EXTENDS KeyRotation, FiniteSetTheorems, TLAPS

-----------------------------------------------------------------------------
(***************************************************************************)
(* The inductive invariant of the key files.                               *)
(***************************************************************************)

LeaseType ==
    \/ lease = Free
    \/ lease \in [by : Proc, goal : {"open", "use", "rotate"}, at : Steps,
                  stem : Nat, time : Nat]

FilesType ==
    /\ operating \in Nat /\ successor \in Nat /\ staged \in Nat /\ made \in Nat
    /\ operating <= made /\ successor <= made /\ staged <= made
    /\ IsFiniteSet(retired) /\ retired \subseteq Nat \ {NoKey}
    /\ metadata \subseteq signed
    /\ cached \in [Proc -> Nat]
    /\ now \in Nat /\ lease.time <= now

\* Every signed rotation is between three keys that have been made.
SignedType ==
    \A s \in signed :
      /\ s.from \in Nat /\ s.to \in Nat /\ s.next \in Nat /\ s.at \in Nat
      /\ NoKey < s.from /\ NoKey < s.to /\ NoKey < s.next
      /\ s.from <= made /\ s.to <= made /\ s.next <= made
      /\ s.from # s.to /\ s.from # s.next /\ s.to # s.next
      /\ s.at <= now

\* How far the keys of a pending rotation can have moved.
Pending ==
    journal # NoJournal =>
      /\ journal \in signed
      /\ \A s \in signed : s.from # journal.to /\ s.from # journal.next
      /\ \/ /\ operating = journal.from /\ successor = journal.to
            /\ staged = journal.next
         \/ /\ operating = journal.to /\ successor = journal.to
            /\ staged = journal.next /\ journal.from \in retired
         \/ /\ operating = journal.to /\ successor = journal.next
            /\ journal.from \in retired

\* Without one, the operating key and its successor have signed nothing.
Settled ==
    journal = NoJournal =>
      /\ \A s \in signed : s.from # operating /\ s.from # successor
      /\ operating # NoKey => successor # NoKey /\ successor # operating

\* The one transition that no other one continues.
Heads ==
    \A r \in signed : (\A s \in signed : s.from # r.to) =>
      IF journal # NoJournal THEN r = journal
      ELSE r.to = operating /\ r.next = successor

\* Nothing is opened, used or signed before the first operating key exists.
Founded ==
    operating = NoKey =>
      /\ signed = {}
      /\ \A p \in Proc : cached[p] = NoKey
      /\ lease.goal \in {"none", "open"}

KeysInv ==
    /\ LeaseType /\ FilesType /\ SignedType
    /\ Pending /\ Settled /\ Heads /\ Founded
    /\ OneSuccessor

\* What each step of the holder may rely on.
Resolved == {"create", "stage", "journal", "opened", "leased", "listed", "rotated"}

Completing == {"retain", "publish", "promote", "succeed", "note", "unstage",
               "unjournal"}

LeaseInv ==
    /\ lease.at \in Resolved => journal = NoJournal
    /\ lease.at \in Completing => journal # NoJournal
    /\ At("create") => operating = NoKey
    /\ lease.at \in {"stage", "journal"} => lease.goal = "rotate"
    /\ lease.at \in {"leased", "listed"} => lease.goal = "use"
    /\ At("journal") =>
         /\ staged # NoKey /\ staged # operating /\ staged # successor
         /\ \A s \in signed : s.from # staged
    /\ At("publish") => operating = journal.from /\ journal.from \notin retired
    /\ lease.at \in {"promote", "succeed", "note", "unstage", "unjournal"} =>
         journal.from \in retired
    /\ lease.at \in {"succeed", "note", "unstage", "unjournal"} =>
         operating = journal.to
    /\ lease.at \in {"note", "unstage", "unjournal"} => successor = journal.next
    /\ lease.at \in {"unstage", "unjournal"} => journal \in metadata
    /\ At("unlink") => lease.stem \notin retired /\ lease.stem \in Noted

\* The retired directory in order: exact pairs but for the pending key, and no
\* more of them than allowed.
InOrder ==
    /\ retired \ Noted \subseteq {journal.from}
    /\ Cardinality(retired) <= MaxLive

\* A half-removed pair other than the one at hand.
HalfGone == Noted \ (retired \cup IF At("unlink") THEN {lease.stem} ELSE {})

DirectoryInv ==
    /\ remnant \/ HalfGone # {} \/ InOrder
    /\ lease.at \in Completing =>
         Noted \subseteq retired /\ InOrder /\ (At("publish") \/ ~remnant)
    /\ lease.at \in {"retain", "publish"} /\ journal.from \notin retired =>
         Cardinality(retired) < MaxLive

KInv == KeysInv /\ LeaseInv /\ DirectoryInv /\ GraceKeyKept

-----------------------------------------------------------------------------
(***************************************************************************)
(* Steps that leave the files alone.                                       *)
(***************************************************************************)

\* The holder goes on without touching a file.
LEMMA HolderMoves ==
    ASSUME KInv, UNCHANGED <<files, cached, made, signed, now>>,
           LeaseType', lease'.time <= now,
           operating = NoKey => lease'.goal \in {"none", "open"},
           ~At("unlink"), ~At("unlink")',
           LeaseInv',
           lease'.at \in Completing =>
             Noted \subseteq retired /\ InOrder /\ (lease'.at = "publish" \/ ~remnant),
           lease'.at \in {"retain", "publish"} /\ journal.from \notin retired =>
             Cardinality(retired) < MaxLive
    PROVE  KInv'
<1>1. KeysInv'
  BY DEF KInv, KeysInv, FilesType, SignedType, Pending, Settled, Heads, Founded,
         OneSuccessor, files
<1>2. Noted' = Noted /\ InOrder' = InOrder /\ HalfGone' = HalfGone
  BY DEF Noted, InOrder, HalfGone, files, At
<1>3. DirectoryInv'
  BY <1>2 DEF KInv, DirectoryInv, files, At
<1>4. GraceKeyKept'
  BY DEF KInv, GraceKeyKept, files
<1> QED BY <1>1, <1>3, <1>4 DEF KInv

\* The lock is dropped, wherever its holder was.
LEMMA LockDropped ==
    ASSUME KInv, lease' = Free,
           UNCHANGED <<operating, successor, journal, retired, metadata, made, signed, now>>,
           \/ UNCHANGED staged
           \/ staged' = NoKey /\ journal = NoJournal,
           cached' \in [Proc -> Nat],
           \A p \in Proc : cached'[p] \in {cached[p], NoKey, operating},
           UNCHANGED remnant \/ (At("publish") /\ remnant' = FALSE)
    PROVE  KInv'
<1>1. lease'.at = "none" /\ lease'.goal = "none" /\ lease'.time = 0
  BY DEF Free
<1>2. KeysInv'
  <2>1. LeaseType'
    BY DEF LeaseType
  <2>2. FilesType' /\ SignedType'
    BY <1>1 DEF KInv, KeysInv, FilesType, SignedType, NoKey
  <2>3. Pending' /\ Settled' /\ Heads' /\ OneSuccessor'
    BY DEF KInv, KeysInv, Pending, Settled, Heads, OneSuccessor
  <2>4. Founded'
    BY <1>1 DEF KInv, KeysInv, Founded
  <2> QED BY <2>1, <2>2, <2>3, <2>4 DEF KeysInv
<1>3. LeaseInv'
  BY <1>1 DEF LeaseInv, Resolved, Completing, At
<1>4. DirectoryInv'
  <2>1. Noted' = Noted /\ InOrder' = InOrder /\ HalfGone' = Noted \ retired
    BY <1>1 DEF Noted, InOrder, HalfGone, At
  <2>2. remnant' \/ HalfGone' # {} \/ InOrder'
    <3>1. CASE At("publish")
      BY <2>1, <3>1 DEF KInv, DirectoryInv, Completing, At
    <3>2. CASE At("unlink")
      BY <2>1, <3>2 DEF KInv, LeaseInv
    <3>3. CASE ~At("publish") /\ ~At("unlink")
      BY <2>1, <3>3 DEF KInv, DirectoryInv, HalfGone
    <3> QED BY <3>1, <3>2, <3>3
  <2> QED BY <1>1, <2>2 DEF DirectoryInv, Completing, At
<1>5. GraceKeyKept'
  BY DEF KInv, GraceKeyKept
<1> QED BY <1>2, <1>3, <1>4, <1>5 DEF KInv

\* A process without the lock ends.
LEMMA ProcessEnds ==
    ASSUME KInv, UNCHANGED <<files, lease, made, signed, now>>,
           cached' \in [Proc -> Nat],
           \A p \in Proc : cached'[p] \in {cached[p], NoKey}
    PROVE  KInv'
<1>1. KeysInv'
  BY DEF KInv, KeysInv, LeaseType, FilesType, SignedType, Pending, Settled, Heads,
         Founded, OneSuccessor, files
<1>2. Noted' = Noted
  BY DEF Noted, files
<1>3. LeaseInv' /\ DirectoryInv'
  BY <1>2 DEF KInv, LeaseInv, DirectoryInv, InOrder, HalfGone, files, At
<1>4. GraceKeyKept'
  BY DEF KInv, GraceKeyKept, files
<1> QED BY <1>1, <1>3, <1>4 DEF KInv

LEMMA TickKeeps == ASSUME KInv, Tick PROVE KInv'
<1>1. UNCHANGED <<files, lease, cached, made, signed>> /\ now' = now + 1 /\ now \in Nat
  BY DEF Tick, KInv, KeysInv, FilesType
<1>2. KeysInv'
  <2>1. LeaseType'
    BY <1>1 DEF KInv, KeysInv, LeaseType
  <2>2. lease.time \in Nat
    BY DEF KInv, KeysInv, LeaseType, Free
  <2>3. FilesType'
    BY <1>1, <2>2 DEF KInv, KeysInv, FilesType, files
  <2>4. SignedType'
    BY <1>1 DEF KInv, KeysInv, SignedType
  <2> QED BY <1>1, <2>1, <2>3, <2>4
          DEF KInv, KeysInv, Pending, Settled, Heads, Founded, OneSuccessor, files
<1>3. Noted' = Noted
  BY <1>1 DEF Noted, files
<1>4. LeaseInv' /\ DirectoryInv'
  BY <1>1, <1>3 DEF KInv, LeaseInv, DirectoryInv, InOrder, HalfGone, files, At
<1>5. GraceKeyKept'
  <2>1. \A r \in signed : r.at \in Nat
    BY DEF KInv, KeysInv, SignedType
  <2> QED BY <1>1, <2>1, KeyStoreAssumption DEF KInv, GraceKeyKept, files
<1> QED BY <1>2, <1>4, <1>5 DEF KInv

LEMMA TakeKeeps == ASSUME KInv, NEW p \in Proc, Open(p) \/ Acquire(p) PROVE KInv'
<1>1. /\ UNCHANGED <<files, cached, made, signed, now>> /\ lease = Free
      /\ lease'.by = p /\ lease'.at = "recover" /\ lease'.time = 0
      /\ \/ lease'.goal = "open"
         \/ lease'.goal = "use" /\ cached[p] # NoKey
  BY DEF Open, Acquire, Free
<1>2. LeaseType'
  <2>1. PICK g \in {"open", "use"} :
           lease' = [by |-> p, goal |-> g, at |-> "recover", stem |-> NoKey, time |-> 0]
    BY DEF Open, Acquire, Free
  <2> QED BY <2>1 DEF LeaseType, Steps, NoKey
<1>3. LeaseInv'
  BY <1>1 DEF LeaseInv, Resolved, Completing, At
<1>4. operating = NoKey => lease'.goal \in {"none", "open"}
  BY <1>1 DEF KInv, KeysInv, Founded
<1> QED BY <1>1, <1>2, <1>3, <1>4, HolderMoves
        DEF Free, At, Completing, KInv, KeysInv, FilesType

LEMMA DropKeeps ==
    ASSUME KInv, Fail \/ Opened \/ Rotated \/ IdentityChanged \/ FileError
    PROVE  KInv'
<1>1. cached \in [Proc -> Nat] /\ operating \in Nat
  BY DEF KInv, KeysInv, FilesType
<1>2. CASE Fail
  BY <1>1, <1>2, LockDropped DEF Fail, files
<1>3. CASE Opened \/ Rotated
  <2>1. /\ cached' = [cached EXCEPT ![lease.by] = operating] /\ lease' = Free
        /\ UNCHANGED <<files, made, signed, now>>
    BY <1>3 DEF Opened, Rotated
  <2>2. cached' \in [Proc -> Nat] /\ \A p \in Proc : cached'[p] \in {cached[p], NoKey, operating}
    BY <1>1, <2>1
  <2> QED BY <2>1, <2>2, LockDropped DEF files
<1>4. CASE IdentityChanged
  BY <1>1, <1>4, LockDropped DEF IdentityChanged
<1>5. CASE FileError
  BY <1>1, <1>5, LockDropped DEF FileError
<1> QED BY <1>2, <1>3, <1>4, <1>5

LEMMA EndKeeps == ASSUME KInv, NEW p \in Proc, Close(p) \/ Die(p) PROVE KInv'
<1>1. cached \in [Proc -> Nat] /\ cached' = [cached EXCEPT ![p] = NoKey]
  BY DEF KInv, KeysInv, FilesType, Close, Die
<1>2. cached' \in [Proc -> Nat] /\ \A q \in Proc : cached'[q] \in {cached[q], NoKey}
  BY <1>1 DEF NoKey
<1>3. CASE UNCHANGED <<files, lease, made, signed, now>>
  BY <1>2, <1>3, ProcessEnds
<1>4. CASE lease' = Free /\ UNCHANGED <<files, made, signed, now>>
  BY <1>2, <1>4, LockDropped DEF files
<1> QED BY <1>3, <1>4 DEF Close, Die

\* The lease moves to another step of the same task.
LEMMA GoToForm ==
    ASSUME KInv, lease.at # "none", NEW at \in Steps, GoTo(at)
    PROVE  /\ LeaseType' /\ lease'.at = at /\ lease'.time <= now
           /\ lease'.goal = lease.goal /\ lease'.by = lease.by /\ lease'.stem = lease.stem
           /\ operating = NoKey => lease'.goal \in {"none", "open"}
<1>1. lease \in [by : Proc, goal : {"open", "use", "rotate"}, at : Steps, stem : Nat, time : Nat]
  BY DEF KInv, KeysInv, LeaseType, Free
<1>2. lease'.at = at /\ lease'.time = lease.time /\ lease'.goal = lease.goal
      /\ lease'.by = lease.by /\ lease'.stem = lease.stem
  BY <1>1 DEF GoTo
<1>3. LeaseType'
  BY <1>1 DEF GoTo, LeaseType
<1> QED BY <1>2, <1>3 DEF KInv, KeysInv, FilesType, Founded

LEMMA GoScanForm ==
    ASSUME KInv, lease.at # "none", GoScan
    PROVE  /\ LeaseType' /\ lease'.at = "scan" /\ lease'.time <= now
           /\ lease'.goal = lease.goal /\ lease'.by = lease.by /\ lease'.stem = lease.stem
           /\ operating = NoKey => lease'.goal \in {"none", "open"}
<1>1. lease \in [by : Proc, goal : {"open", "use", "rotate"}, at : Steps, stem : Nat, time : Nat]
  BY DEF KInv, KeysInv, LeaseType, Free
<1>0. now \in Nat /\ "scan" \in Steps
  BY DEF KInv, KeysInv, FilesType, Steps
<1>2. lease'.at = "scan" /\ lease'.time = now /\ lease'.goal = lease.goal
      /\ lease'.by = lease.by /\ lease'.stem = lease.stem
  BY <1>1 DEF GoScan
<1>3. LeaseType'
  BY <1>0, <1>1 DEF GoScan, LeaseType
<1> QED BY <1>0, <1>2, <1>3 DEF KInv, KeysInv, FilesType, Founded

-----------------------------------------------------------------------------
(***************************************************************************)
(* The steps of the holder.                                                *)
(***************************************************************************)

\* A list that gets this far found the directory in order, and has room where it
\* is asked for it.
LEMMA ListedForm ==
    ASSUME KInv, Listed
    PROVE  /\ ~remnant /\ Noted \subseteq retired /\ InOrder
           /\ HasRoom /\ journal.from \notin retired => Cardinality(retired) < MaxLive
<1>1. ~remnant /\ Noted \subseteq retired
  BY DEF Listed, Unpaired, Tolerated
<1>2. HalfGone = {}
  BY <1>1 DEF HalfGone
<1>3. InOrder
  BY <1>1, <1>2 DEF KInv, DirectoryInv
<1>4. ASSUME HasRoom, journal.from \notin retired PROVE Cardinality(retired) < MaxLive
  <2>1. retired \cap Noted = retired
    BY <1>3, <1>4 DEF InOrder
  <2>2. LiveCount = Cardinality(retired)
    BY <2>1 DEF LiveCount, Listed
  <2> QED BY <1>4, <2>2 DEF HasRoom
<1> QED BY <1>1, <1>3, <1>4

LEMMA ScanDoneKeeps == ASSUME KInv, ScanDone PROVE KInv'
<1>1. /\ At("scan") /\ UNCHANGED <<files, cached, made, signed, now>>
      /\ GoTo(AfterScan) /\ Listed
  BY DEF ScanDone, Listed
<1>2. lease.goal \in {"open", "use", "rotate"} /\ lease.at # "none"
  BY <1>1 DEF At, KInv, KeysInv, LeaseType, Free
<1>3. /\ AfterScan \in {"retain", "opened", "listed", "stage"}
      /\ AfterScan = "retain" <=> journal # NoJournal
      /\ AfterScan = "stage" => lease.goal = "rotate"
      /\ AfterScan = "listed" => lease.goal = "use"
  <2>1. CASE journal # NoJournal
    BY <2>1 DEF AfterScan
  <2>2. CASE journal = NoJournal
    <3>1. CASE lease.goal = "open"
      BY <2>2, <3>1 DEF AfterScan
    <3>2. CASE lease.goal = "use"
      BY <2>2, <3>2 DEF AfterScan
    <3>3. CASE lease.goal = "rotate"
      BY <2>2, <3>3 DEF AfterScan
    <3> QED BY <1>2, <3>1, <3>2, <3>3
  <2> QED BY <2>1, <2>2
<1>4. AfterScan \in Steps
  BY <1>3 DEF Steps
<1>5. /\ LeaseType' /\ lease'.at = AfterScan /\ lease'.time <= now
      /\ lease'.goal = lease.goal
      /\ operating = NoKey => lease'.goal \in {"none", "open"}
  BY <1>1, <1>2, <1>4, GoToForm
<1>6. LeaseInv'
  <2>1. lease'.at \in {"retain", "opened", "listed", "stage"} /\ journal' = journal
    BY <1>1, <1>3, <1>5 DEF files
  <2> QED BY <1>3, <1>5, <2>1 DEF LeaseInv, Resolved, Completing, At
<1>7. lease'.at \in Completing =>
        Noted \subseteq retired /\ InOrder /\ (lease'.at = "publish" \/ ~remnant)
  BY <1>1, ListedForm
<1>8. lease'.at \in {"retain", "publish"} /\ journal.from \notin retired =>
        Cardinality(retired) < MaxLive
  BY <1>1, <1>3, <1>5, ListedForm DEF ScanDone
<1>9. ~At("unlink") /\ ~At("unlink")'
  BY <1>1, <1>3, <1>5 DEF At
<1> QED BY <1>1, <1>5, <1>6, <1>7, <1>8, <1>9, HolderMoves

LEMMA RescanKeeps ==
    ASSUME KInv, GoScan \/ BeginRotation, lease.at # "none", ~At("unlink"),
           BeginRotation => At("leased") /\ operating # NoKey,
           UNCHANGED <<files, cached, made, signed, now>>
    PROVE  KInv'
<1>1. LeaseType' /\ lease'.at = "scan" /\ lease'.time <= now
  <2>1. CASE GoScan
    BY <2>1, GoScanForm
  <2>2. CASE BeginRotation
    <3>1. lease \in [by : Proc, goal : {"open", "use", "rotate"}, at : Steps, stem : Nat, time : Nat]
      BY DEF KInv, KeysInv, LeaseType, Free
    <3>2. now \in Nat /\ "scan" \in Steps
      BY DEF KInv, KeysInv, FilesType, Steps
    <3>3. lease' = [by |-> lease.by, goal |-> "rotate", at |-> "scan",
                    stem |-> lease.stem, time |-> now]
      BY <2>2, <3>1 DEF BeginRotation
    <3> QED BY <3>1, <3>2, <3>3 DEF LeaseType
  <2> QED BY <2>1, <2>2
<1>2. operating = NoKey => lease'.goal \in {"none", "open"}
  BY GoScanForm
<1>3. LeaseInv'
  BY <1>1 DEF LeaseInv, Resolved, Completing, At
<1>4. ~At("unlink")' /\ lease'.at \notin Completing /\ lease'.at \notin {"retain", "publish"}
  BY <1>1 DEF At, Completing
<1> QED BY <1>1, <1>2, <1>3, <1>4, HolderMoves

\* Who may use the key finds one.
LEMMA LeasedHasKey == ASSUME KInv, lease.goal \in {"use", "rotate"} PROVE operating # NoKey
BY DEF KInv, KeysInv, Founded

LEMMA RecoverKeeps == ASSUME KInv, Recover PROVE KInv'
<1>1. /\ At("recover") /\ lease.at # "none"
      /\ UNCHANGED <<operating, successor, journal, retired, metadata, remnant,
                      cached, made, signed, now>>
  BY DEF Recover, At
<1>2. CASE journal # NoJournal
  <2>1. GoScan /\ UNCHANGED staged
    BY <1>2 DEF Recover
  <2> QED BY <1>1, <2>1, RescanKeeps DEF files, At, BeginRotation
<1>3. CASE journal = NoJournal
  <2>1. /\ staged' = NoKey
        /\ \/ operating = NoKey /\ GoTo("create")
           \/ GoScan
           \/ GoTo("leased") /\ lease.goal = "use"
    BY <1>3 DEF Recover
  <2>2. /\ LeaseType' /\ lease'.time <= now
        /\ operating = NoKey => lease'.goal \in {"none", "open"}
        /\ lease'.at \in {"create", "scan", "leased"}
        /\ lease'.at = "create" => operating = NoKey
        /\ lease'.at = "leased" => lease'.goal = "use"
    BY <1>1, <2>1, GoToForm, GoScanForm DEF Steps
  <2>3. KeysInv'
    <3>1. FilesType' /\ SignedType'
      BY <1>1, <2>1, <2>2 DEF KInv, KeysInv, FilesType, SignedType, NoKey
    <3>2. Pending' /\ Settled' /\ Heads' /\ OneSuccessor' /\ Founded'
      BY <1>1, <1>3, <2>2 DEF KInv, KeysInv, Pending, Settled, Heads, OneSuccessor, Founded
    <3> QED BY <2>2, <3>1, <3>2 DEF KeysInv
  <2>4. LeaseInv'
    BY <1>1, <1>3, <2>2 DEF LeaseInv, Resolved, Completing, At
  <2>5. DirectoryInv'
    <3>1. Noted' = Noted /\ InOrder' = InOrder /\ HalfGone' = HalfGone
      BY <1>1, <2>2 DEF Noted, InOrder, HalfGone, At
    <3> QED BY <1>1, <2>2, <3>1 DEF KInv, DirectoryInv, Completing
  <2>6. GraceKeyKept'
    BY <1>1 DEF KInv, GraceKeyKept
  <2> QED BY <2>3, <2>4, <2>5, <2>6 DEF KInv
<1> QED BY <1>2, <1>3
LEMMA ListRetiredKeeps == ASSUME KInv, ListRetired \/ BeginRotation PROVE KInv'
<1>1. At("leased") /\ lease.at # "none" /\ ~At("unlink") /\ operating # NoKey
  BY LeasedHasKey DEF ListRetired, BeginRotation, At, KInv, LeaseInv
<1> QED BY <1>1, RescanKeeps DEF ListRetired, BeginRotation

\* The pair that is removed first loses its key: never the pending one, and only
\* when its grace interval is over.
LEMMA ScanUnlinkKeyKeeps == ASSUME KInv, ScanUnlinkKey PROVE KInv'
<1>1. PICK n \in metadata :
        /\ n.from \in retired /\ ScanTime >= n.at + Grace
        /\ retired' = retired \ {n.from}
        /\ lease' = [lease EXCEPT !.at = "unlink", !.stem = n.from]
  BY DEF ScanUnlinkKey, Overdue
<1>2. /\ At("scan")
      /\ UNCHANGED <<operating, successor, staged, journal, metadata, remnant, cached,
                      made, signed, now>>
  BY DEF ScanUnlinkKey
<1>3. lease \in [by : Proc, goal : {"open", "use", "rotate"}, at : Steps, stem : Nat, time : Nat]
  BY <1>2 DEF KInv, KeysInv, LeaseType, Free, At
<1>4. /\ n \in signed /\ n.at \in Nat /\ n.from \in Nat \ {NoKey}
      /\ now \in Nat /\ lease.time \in Nat /\ lease.time <= now /\ Grace \in Nat \ {0}
  BY <1>1, <1>3, KeyStoreAssumption DEF KInv, KeysInv, FilesType, SignedType
<1>5. journal # NoJournal => journal \in signed /\ journal.at \in Nat /\ journal.at <= now
  BY DEF KInv, KeysInv, Pending, SignedType
<1>6. now >= n.at + Grace
  BY <1>1, <1>4, <1>5 DEF ScanTime
<1>7. n.from # journal.from
  <2>1. CASE journal = NoJournal
    BY <1>4, <2>1 DEF NoJournal
  <2>2. CASE journal # NoJournal /\ n.from = journal.from
    <3>1. n = journal
      BY <1>4, <1>5, <2>2 DEF KInv, KeysInv, OneSuccessor
    <3> QED BY <1>1, <1>4, <1>5, <2>2, <3>1 DEF ScanTime
  <2> QED BY <2>1, <2>2
<1>8. /\ lease' = [by |-> lease.by, goal |-> lease.goal, at |-> "unlink", stem |-> n.from,
                   time |-> lease.time]
      /\ lease'.at = "unlink" /\ lease'.stem = n.from /\ lease'.goal = lease.goal
      /\ lease'.time = lease.time
  BY <1>1, <1>3
<1>9. KeysInv'
  <2>1. LeaseType'
    BY <1>3, <1>4, <1>8 DEF LeaseType, Steps
  <2>2. IsFiniteSet(retired')
    BY <1>1, FS_RemoveElement DEF KInv, KeysInv, FilesType
  <2>3. FilesType' /\ SignedType'
    BY <1>1, <1>2, <1>8, <2>2 DEF KInv, KeysInv, FilesType, SignedType
  <2>4. Pending'
    BY <1>1, <1>2, <1>7 DEF KInv, KeysInv, Pending
  <2>5. Settled' /\ Heads' /\ OneSuccessor' /\ Founded'
    BY <1>2, <1>8 DEF KInv, KeysInv, Settled, Heads, OneSuccessor, Founded
  <2> QED BY <2>1, <2>3, <2>4, <2>5 DEF KeysInv
<1>10. Noted' = Noted /\ n.from \in Noted
  BY <1>2 DEF Noted
<1>11. LeaseInv'
  BY <1>1, <1>8, <1>10 DEF LeaseInv, Resolved, Completing, At
<1>12. DirectoryInv'
  <2>1. HalfGone' = HalfGone
    BY <1>1, <1>2, <1>8, <1>10 DEF HalfGone, At
  <2>2. Cardinality(retired') = Cardinality(retired) - 1 /\ Cardinality(retired) \in Nat
    BY <1>1, FS_RemoveElement, FS_CardinalityType DEF KInv, KeysInv, FilesType
  <2>3. InOrder => InOrder'
    BY <1>1, <1>2, <1>10, <2>2, KeyStoreAssumption DEF InOrder
  <2> QED BY <1>2, <1>8, <2>1, <2>3 DEF KInv, DirectoryInv, Completing
<1>13. GraceKeyKept'
  <2>1. \A r \in signed : now < r.at + Grace => r.from # n.from
    BY <1>4, <1>6 DEF KInv, KeysInv, OneSuccessor
  <2> QED BY <1>1, <1>2, <2>1 DEF KInv, GraceKeyKept
<1> QED BY <1>9, <1>11, <1>12, <1>13 DEF KInv

LEMMA ScanUnlinkMetadataKeeps == ASSUME KInv, ScanUnlinkMetadata PROVE KInv'
<1>1. /\ At("unlink") /\ metadata' = {m \in metadata : m.from # lease.stem}
      /\ lease' = [lease EXCEPT !.at = "scan", !.stem = NoKey]
      /\ UNCHANGED <<operating, successor, staged, journal, retired, remnant, cached,
                      made, signed, now>>
  BY DEF ScanUnlinkMetadata
<1>2. lease \in [by : Proc, goal : {"open", "use", "rotate"}, at : Steps, stem : Nat, time : Nat]
  BY <1>1 DEF KInv, KeysInv, LeaseType, Free, At
<1>3. /\ lease' = [by |-> lease.by, goal |-> lease.goal, at |-> "scan", stem |-> NoKey,
                   time |-> lease.time]
      /\ lease'.at = "scan" /\ lease'.goal = lease.goal /\ lease'.time = lease.time
  BY <1>1, <1>2
<1>4. KeysInv'
  <2>1. LeaseType'
    BY <1>2, <1>3 DEF LeaseType, Steps, NoKey
  <2>2. FilesType' /\ SignedType'
    BY <1>1, <1>3 DEF KInv, KeysInv, FilesType, SignedType
  <2>3. Pending' /\ Settled' /\ Heads' /\ OneSuccessor' /\ Founded'
    BY <1>1, <1>3 DEF KInv, KeysInv, Pending, Settled, Heads, OneSuccessor, Founded
  <2> QED BY <2>1, <2>2, <2>3 DEF KeysInv
<1>5. LeaseInv'
  BY <1>3 DEF LeaseInv, Resolved, Completing, At
<1>6. DirectoryInv'
  <2>1. Noted' = Noted \ {lease.stem}
    BY <1>1 DEF Noted
  <2>2. HalfGone' = HalfGone
    BY <1>1, <1>3, <2>1 DEF HalfGone, At
  <2>3. InOrder' = InOrder
    BY <1>1, <2>1 DEF InOrder, KInv, LeaseInv
  <2> QED BY <1>1, <1>3, <2>2, <2>3 DEF KInv, DirectoryInv, Completing
<1>7. GraceKeyKept'
  BY <1>1 DEF KInv, GraceKeyKept
<1> QED BY <1>4, <1>5, <1>6, <1>7 DEF KInv

\* Before the first operating key nothing is signed.
LEMMA CreateKeeps == ASSUME KInv, CreateSuccessor \/ CreateOperating PROVE KInv'
<1>1. /\ At("create") /\ lease.at # "none"
      /\ UNCHANGED <<staged, journal, retired, metadata, remnant, cached, signed, now>>
      /\ made' = made + 1 /\ made \in Nat
      /\ \/ successor' = made + 1 /\ operating' = operating /\ lease' = lease
         \/ successor # NoKey /\ successor' = successor /\ operating' = made + 1 /\ GoScan
  BY DEF CreateSuccessor, CreateOperating, At, KInv, KeysInv, FilesType
<1>2. operating = NoKey /\ journal = NoJournal /\ signed = {} /\ successor \in Nat
      /\ successor <= made
  BY <1>1 DEF KInv, KeysInv, LeaseInv, Founded, FilesType, Resolved, At
<1>3. /\ LeaseType' /\ lease'.at \in {"create", "scan"} /\ lease'.time <= now
      /\ lease'.goal = lease.goal
      /\ lease'.at = "create" => operating' = NoKey
      /\ operating' # NoKey => successor' # NoKey /\ successor' # operating'
      /\ operating' = NoKey => operating = NoKey
  <2>1. CASE lease' = lease /\ operating' = operating
    BY <1>1, <1>2, <2>1 DEF KInv, KeysInv, LeaseType, FilesType, At
  <2>2. CASE successor # NoKey /\ successor' = successor /\ operating' = made + 1 /\ GoScan
    BY <1>1, <1>2, <2>2, GoScanForm DEF NoKey
  <2> QED BY <1>1, <2>1, <2>2
<1>4. KeysInv'
  <2>1. FilesType' /\ SignedType'
    BY <1>1, <1>2, <1>3 DEF KInv, KeysInv, FilesType, SignedType, NoKey
  <2>2. Pending' /\ Settled' /\ Heads' /\ OneSuccessor'
    BY <1>1, <1>2, <1>3 DEF Pending, Settled, Heads, OneSuccessor
  <2>3. Founded'
    BY <1>1, <1>2, <1>3 DEF KInv, KeysInv, Founded
  <2> QED BY <1>3, <2>1, <2>2, <2>3 DEF KeysInv
<1>5. LeaseInv'
  BY <1>1, <1>2, <1>3 DEF LeaseInv, Resolved, Completing, At
<1>6. DirectoryInv'
  <2>1. Noted' = Noted /\ InOrder' = InOrder /\ HalfGone' = HalfGone
    BY <1>1, <1>3 DEF Noted, InOrder, HalfGone, At
  <2> QED BY <1>1, <1>3, <2>1 DEF KInv, DirectoryInv, Completing
<1>7. GraceKeyKept'
  BY <1>1, <1>2 DEF GraceKeyKept
<1> QED BY <1>4, <1>5, <1>6, <1>7 DEF KInv
-----------------------------------------------------------------------------
(***************************************************************************)
(* A rotation, from the staged successor to the end of the journal.        *)
(***************************************************************************)

\* The successor of the successor is a key that nothing has named before.
LEMMA StageSuccessorKeeps == ASSUME KInv, StageSuccessor PROVE KInv'
<1>1. /\ At("stage") /\ lease.at # "none" /\ GoTo("journal")
      /\ UNCHANGED <<operating, successor, journal, retired, metadata, remnant, cached,
                      signed, now>>
      /\ made' = made + 1 /\ staged' = made + 1 /\ made \in Nat
  BY DEF StageSuccessor, At, KInv, KeysInv, FilesType
<1>2. /\ LeaseType' /\ lease'.at = "journal" /\ lease'.time <= now /\ lease'.goal = "rotate"
      /\ operating = NoKey => lease'.goal \in {"none", "open"}
  BY <1>1, GoToForm DEF Steps, KInv, LeaseInv, At
<1>3. journal = NoJournal
  BY <1>1 DEF KInv, LeaseInv, Resolved, At
<1>4. KeysInv'
  <2>1. FilesType' /\ SignedType'
    BY <1>1, <1>2 DEF KInv, KeysInv, FilesType, SignedType
  <2>2. Pending' /\ Settled' /\ Heads' /\ OneSuccessor' /\ Founded'
    BY <1>1, <1>2, <1>3 DEF KInv, KeysInv, Pending, Settled, Heads, OneSuccessor, Founded
  <2> QED BY <1>2, <2>1, <2>2 DEF KeysInv
<1>5. LeaseInv'
  <2>1. staged' # NoKey /\ staged' # operating /\ staged' # successor
        /\ \A s \in signed : s.from # staged'
    BY <1>1 DEF KInv, KeysInv, FilesType, SignedType, NoKey
  <2> QED BY <1>1, <1>2, <1>3, <2>1 DEF LeaseInv, Resolved, Completing, At
<1>6. DirectoryInv'
  <2>1. Noted' = Noted /\ InOrder' = InOrder /\ HalfGone' = HalfGone
    BY <1>1, <1>2 DEF Noted, InOrder, HalfGone, At
  <2> QED BY <1>1, <1>2, <2>1 DEF KInv, DirectoryInv, Completing
<1>7. GraceKeyKept'
  BY <1>1 DEF KInv, GraceKeyKept
<1> QED BY <1>4, <1>5, <1>6, <1>7 DEF KInv

\* The one step that signs: the operating key has signed nothing yet.
LEMMA WriteJournalKeeps ==
    ASSUME KInv, NEW n, NEW t, WriteJournal(n, t) PROVE KInv'
<1> DEFINE x == [from |-> operating, to |-> successor, next |-> staged,
                 seq |-> n + 1, at |-> lease.time, terms |-> t]
<1>1. /\ At("journal") /\ lease.at # "none" /\ GoScan
      /\ journal' = x /\ signed' = signed \cup {x}
      /\ UNCHANGED <<operating, successor, staged, retired, metadata, remnant, cached,
                      made, now>>
  BY DEF WriteJournal, At
<1>2. x.from = operating /\ x.to = successor /\ x.next = staged /\ x.at = lease.time
  OBVIOUS
<1> HIDE DEF x
<1>3. /\ LeaseType' /\ lease'.at = "scan" /\ lease'.time <= now /\ lease'.goal = lease.goal
      /\ operating = NoKey => lease'.goal \in {"none", "open"}
  BY <1>1, GoScanForm
<1>4. journal = NoJournal /\ operating # NoKey
  BY <1>1, LeasedHasKey DEF KInv, LeaseInv, Resolved, At
<1>5. /\ successor # NoKey /\ successor # operating
      /\ staged # NoKey /\ staged # operating /\ staged # successor
      /\ \A s \in signed : s.from # operating /\ s.from # successor /\ s.from # staged
  BY <1>1, <1>4 DEF KInv, KeysInv, Settled, LeaseInv
<1>6. /\ operating \in Nat /\ successor \in Nat /\ staged \in Nat /\ made \in Nat
      /\ operating <= made /\ successor <= made /\ staged <= made
      /\ lease.time \in Nat /\ lease.time <= now
  BY DEF KInv, KeysInv, FilesType, LeaseType, Free
<1>7. x # NoJournal
  BY <1>2, <1>4 DEF NoJournal
<1>8. KeysInv'
  <2>1. FilesType'
    BY <1>1, <1>3 DEF KInv, KeysInv, FilesType
  <2>2. SignedType'
    BY <1>1, <1>2, <1>4, <1>5, <1>6 DEF KInv, KeysInv, SignedType, NoKey
  <2>3. Pending' /\ Settled'
    BY <1>1, <1>2, <1>5, <1>7 DEF Pending, Settled
  <2>4. Heads'
    <3>1. SUFFICES ASSUME NEW r \in signed', \A s \in signed' : s.from # r.to
                   PROVE  r = x
      BY <1>1, <1>7 DEF Heads
    <3>2. r \in signed => r.to = operating
      BY <1>1, <1>4, <3>1 DEF KInv, KeysInv, Heads
    <3> QED BY <1>1, <1>2, <3>1, <3>2
  <2>5. OneSuccessor'
    BY <1>1, <1>2, <1>5 DEF KInv, KeysInv, OneSuccessor
  <2>6. Founded'
    BY <1>1, <1>4 DEF Founded
  <2> QED BY <1>3, <2>1, <2>2, <2>3, <2>4, <2>5, <2>6 DEF KeysInv
<1>9. LeaseInv'
  BY <1>3 DEF LeaseInv, Resolved, Completing, At
<1>10. DirectoryInv'
  <2>1. Noted' = Noted /\ HalfGone' = HalfGone
    BY <1>1, <1>3 DEF Noted, HalfGone, At
  <2>2. InOrder => InOrder'
    BY <1>1, <1>4, <2>1 DEF InOrder, NoJournal, KInv, KeysInv, FilesType
  <2> QED BY <1>1, <1>3, <2>1, <2>2 DEF KInv, DirectoryInv, Completing
<1>11. GraceKeyKept'
  BY <1>1, <1>2 DEF KInv, GraceKeyKept
<1> QED BY <1>8, <1>9, <1>10, <1>11 DEF KInv

\* What the steps of complete_rotation_locked start from.
LEMMA PendingForm ==
    ASSUME KInv, lease.at \in Completing
    PROVE  /\ journal # NoJournal /\ journal \in signed
           /\ journal.from \in Nat \ {NoKey} /\ journal.to \in Nat \ {NoKey}
           /\ journal.next \in Nat \ {NoKey}
           /\ journal.to <= made /\ journal.next <= made
           /\ journal.to # journal.next
           /\ \A s \in signed : s.from # journal.to /\ s.from # journal.next
           /\ Noted \subseteq retired /\ InOrder
           /\ ~At("publish") => ~remnant
           /\ lease.at # "none" /\ lease.at # "unlink" /\ operating # NoKey
<1>1. journal # NoJournal /\ journal \in signed
  BY DEF KInv, LeaseInv, KeysInv, Pending
<1>2. /\ journal.from \in Nat \ {NoKey} /\ journal.to \in Nat \ {NoKey}
      /\ journal.next \in Nat \ {NoKey}
      /\ journal.to <= made /\ journal.next <= made /\ journal.to # journal.next
  BY <1>1 DEF KInv, KeysInv, SignedType, NoKey
<1>3. \A s \in signed : s.from # journal.to /\ s.from # journal.next
  BY <1>1 DEF KInv, KeysInv, Pending
<1>4. operating # NoKey
  BY <1>1 DEF KInv, KeysInv, Founded
<1> QED BY <1>1, <1>2, <1>3, <1>4 DEF KInv, DirectoryInv, Completing

LEMMA RetainKeeps == ASSUME KInv, Retain PROVE KInv'
<1>1. /\ At("retain") /\ lease.at # "none" /\ lease.at \in Completing /\ ~At("unlink")
      /\ UNCHANGED <<operating, successor, staged, journal, retired, metadata, cached,
                      made, signed, now>>
  BY DEF Retain, At, Completing
<1>2. CASE journal.from \in retired /\ GoTo("promote") /\ UNCHANGED remnant
  <2>1. /\ LeaseType' /\ lease'.at = "promote" /\ lease'.time <= now
        /\ operating = NoKey => lease'.goal \in {"none", "open"}
    BY <1>1, <1>2, GoToForm DEF Steps
  <2>2. LeaseInv'
    BY <1>1, <1>2, <2>1, PendingForm DEF LeaseInv, Resolved, Completing, At
  <2> QED BY <1>1, <1>2, <2>1, <2>2, PendingForm, HolderMoves DEF files, At
<1>3. CASE /\ journal.from \notin retired /\ operating = journal.from
           /\ remnant' = TRUE /\ GoTo("publish")
  <2>1. /\ LeaseType' /\ lease'.at = "publish" /\ lease'.time <= now
        /\ operating = NoKey => lease'.goal \in {"none", "open"}
    BY <1>1, <1>3, GoToForm DEF Steps
  <2>2. KeysInv'
    <3>1. FilesType' /\ SignedType'
      BY <1>1, <2>1 DEF KInv, KeysInv, FilesType, SignedType
    <3>2. Pending' /\ Settled' /\ Heads' /\ OneSuccessor' /\ Founded'
      BY <1>1, <2>1 DEF KInv, KeysInv, Pending, Settled, Heads, OneSuccessor, Founded
    <3> QED BY <2>1, <3>1, <3>2 DEF KeysInv
  <2>3. LeaseInv'
    BY <1>1, <1>3, <2>1, PendingForm DEF LeaseInv, Resolved, Completing, At
  <2>4. DirectoryInv'
    <3>1. Noted' = Noted /\ InOrder' = InOrder
      BY <1>1 DEF Noted, InOrder
    <3>2. Cardinality(retired) < MaxLive
      BY <1>1, <1>3 DEF KInv, DirectoryInv, At
    <3> QED BY <1>1, <1>3, <2>1, <3>1, <3>2, PendingForm DEF DirectoryInv, At
  <2>5. GraceKeyKept'
    BY <1>1 DEF KInv, GraceKeyKept
  <2> QED BY <2>2, <2>3, <2>4, <2>5 DEF KInv
<1> QED BY <1>2, <1>3 DEF Retain

LEMMA PublishRetiredKeeps == ASSUME KInv, PublishRetired PROVE KInv'
<1>1. /\ At("publish") /\ lease.at # "none" /\ lease.at \in Completing /\ GoTo("promote")
      /\ retired' = retired \cup {journal.from} /\ remnant' = FALSE
      /\ UNCHANGED <<operating, successor, staged, journal, metadata, cached, made, signed, now>>
  BY DEF PublishRetired, At, Completing
<1>2. /\ LeaseType' /\ lease'.at = "promote" /\ lease'.time <= now
      /\ operating = NoKey => lease'.goal \in {"none", "open"}
  BY <1>1, GoToForm DEF Steps
<1>3. /\ IsFiniteSet(retired') /\ Cardinality(retired') = Cardinality(retired) + 1
      /\ Cardinality(retired) \in Nat /\ Cardinality(retired) < MaxLive
  <2>1. journal.from \notin retired /\ IsFiniteSet(retired)
    BY <1>1 DEF KInv, KeysInv, LeaseInv, FilesType
  <2>2. Cardinality(retired) < MaxLive
    BY <1>1, <2>1 DEF KInv, DirectoryInv, At
  <2> QED BY <1>1, <2>1, <2>2, FS_AddElement, FS_CardinalityType
<1>4. KeysInv'
  <2>1. FilesType' /\ SignedType'
    BY <1>1, <1>2, <1>3, PendingForm DEF KInv, KeysInv, FilesType, SignedType
  <2>2. Pending' /\ Settled' /\ Heads' /\ OneSuccessor' /\ Founded'
    BY <1>1, <1>2 DEF KInv, KeysInv, Pending, Settled, Heads, OneSuccessor, Founded
  <2> QED BY <1>2, <2>1, <2>2 DEF KeysInv
<1>5. LeaseInv'
  BY <1>1, <1>2, PendingForm DEF LeaseInv, Resolved, Completing, At
<1>6. DirectoryInv'
  <2>1. Noted' = Noted
    BY <1>1 DEF Noted
  <2>2. InOrder' /\ Noted' \subseteq retired'
    BY <1>1, <1>3, <2>1, PendingForm, KeyStoreAssumption DEF InOrder
  <2> QED BY <1>1, <1>2, <2>2 DEF DirectoryInv
<1>7. GraceKeyKept'
  BY <1>1 DEF KInv, GraceKeyKept
<1> QED BY <1>4, <1>5, <1>6, <1>7 DEF KInv

\* The operating key is replaced once its copy is among the retired keys.
LEMMA PromoteKeeps == ASSUME KInv, Promote PROVE KInv'
<1>1. /\ At("promote") /\ lease.at # "none" /\ lease.at \in Completing /\ GoTo("succeed")
      /\ operating' = journal.to
      /\ operating # journal.to => successor = journal.to
      /\ UNCHANGED <<successor, staged, journal, retired, metadata, remnant, cached, made,
                      signed, now>>
  BY DEF Promote, At, Completing
<1>2. /\ LeaseType' /\ lease'.at = "succeed" /\ lease'.time <= now
  BY <1>1, GoToForm DEF Steps
<1>3. journal.from \in retired
  BY <1>1 DEF KInv, LeaseInv, At
<1>4. operating \in {journal.from, journal.to}
  BY <1>1, PendingForm DEF KInv, KeysInv, Pending
<1>5. KeysInv'
  <2>1. FilesType' /\ SignedType'
    BY <1>1, <1>2, PendingForm DEF KInv, KeysInv, FilesType, SignedType
  <2>2. Pending'
    BY <1>1, <1>3 DEF KInv, KeysInv, Pending
  <2>3. Settled' /\ Heads' /\ OneSuccessor'
    BY <1>1, PendingForm DEF KInv, KeysInv, Settled, Heads, OneSuccessor
  <2>4. Founded'
    BY <1>1, PendingForm DEF Founded
  <2> QED BY <1>2, <2>1, <2>2, <2>3, <2>4 DEF KeysInv
<1>6. LeaseInv'
  BY <1>1, <1>2, <1>3, PendingForm DEF LeaseInv, Resolved, Completing, At
<1>7. DirectoryInv'
  <2>1. Noted' = Noted /\ InOrder' = InOrder
    BY <1>1 DEF Noted, InOrder
  <2> QED BY <1>1, <1>2, <2>1, PendingForm DEF DirectoryInv, At
<1>8. GraceKeyKept'
  BY <1>1, <1>3, <1>4, PendingForm DEF KInv, GraceKeyKept
<1> QED BY <1>5, <1>6, <1>7, <1>8 DEF KInv

LEMMA SucceedKeeps == ASSUME KInv, Succeed PROVE KInv'
<1>1. /\ At("succeed") /\ lease.at # "none" /\ lease.at \in Completing /\ GoTo("note")
      /\ successor' = journal.next
      /\ UNCHANGED <<operating, staged, journal, retired, metadata, remnant, cached, made,
                      signed, now>>
  BY DEF Succeed, At, Completing
<1>2. /\ LeaseType' /\ lease'.at = "note" /\ lease'.time <= now
      /\ operating = NoKey => lease'.goal \in {"none", "open"}
  BY <1>1, GoToForm DEF Steps
<1>3. journal.from \in retired /\ operating = journal.to
  BY <1>1 DEF KInv, LeaseInv, At
<1>4. KeysInv'
  <2>1. FilesType' /\ SignedType'
    BY <1>1, <1>2, PendingForm DEF KInv, KeysInv, FilesType, SignedType
  <2>2. Pending'
    BY <1>1, <1>3 DEF KInv, KeysInv, Pending
  <2>3. Settled' /\ Heads' /\ OneSuccessor' /\ Founded'
    BY <1>1, <1>2, PendingForm DEF KInv, KeysInv, Settled, Heads, OneSuccessor, Founded
  <2> QED BY <1>2, <2>1, <2>2, <2>3 DEF KeysInv
<1>5. LeaseInv'
  BY <1>1, <1>2, <1>3, PendingForm DEF LeaseInv, Resolved, Completing, At
<1>6. DirectoryInv'
  <2>1. Noted' = Noted /\ InOrder' = InOrder
    BY <1>1 DEF Noted, InOrder
  <2> QED BY <1>1, <1>2, <2>1, PendingForm DEF DirectoryInv, At
<1>7. GraceKeyKept'
  BY <1>1 DEF KInv, GraceKeyKept
<1> QED BY <1>4, <1>5, <1>6, <1>7 DEF KInv

LEMMA NoteKeeps == ASSUME KInv, Note PROVE KInv'
<1>1. /\ At("note") /\ lease.at # "none" /\ lease.at \in Completing /\ GoTo("unstage")
      /\ metadata' = {m \in metadata : m.from # journal.from} \cup {journal}
      /\ UNCHANGED <<operating, successor, staged, journal, retired, remnant, cached, made,
                      signed, now>>
  BY DEF Note, At, Completing
<1>2. /\ LeaseType' /\ lease'.at = "unstage" /\ lease'.time <= now
      /\ operating = NoKey => lease'.goal \in {"none", "open"}
  BY <1>1, GoToForm DEF Steps
<1>3. journal.from \in retired /\ operating = journal.to /\ successor = journal.next
  BY <1>1 DEF KInv, LeaseInv, At
<1>4. KeysInv'
  <2>1. FilesType' /\ SignedType'
    BY <1>1, <1>2, PendingForm DEF KInv, KeysInv, FilesType, SignedType
  <2>2. Pending' /\ Settled' /\ Heads' /\ OneSuccessor' /\ Founded'
    BY <1>1, <1>2 DEF KInv, KeysInv, Pending, Settled, Heads, OneSuccessor, Founded
  <2> QED BY <1>2, <2>1, <2>2 DEF KeysInv
<1>5. LeaseInv'
  BY <1>1, <1>2, <1>3, PendingForm DEF LeaseInv, Resolved, Completing, At
<1>6. DirectoryInv'
  <2>1. Noted' = Noted \cup {journal.from}
    BY <1>1 DEF Noted
  <2>2. InOrder' /\ Noted' \subseteq retired'
    BY <1>1, <1>3, <2>1, PendingForm DEF InOrder
  <2> QED BY <1>1, <1>2, <2>2, PendingForm DEF DirectoryInv, At
<1>7. GraceKeyKept'
  BY <1>1 DEF KInv, GraceKeyKept
<1> QED BY <1>4, <1>5, <1>6, <1>7 DEF KInv

LEMMA UnstageKeeps == ASSUME KInv, Unstage PROVE KInv'
<1>1. /\ At("unstage") /\ lease.at # "none" /\ lease.at \in Completing /\ GoTo("unjournal")
      /\ staged' = NoKey
      /\ UNCHANGED <<operating, successor, journal, retired, metadata, remnant, cached, made,
                      signed, now>>
  BY DEF Unstage, At, Completing
<1>2. /\ LeaseType' /\ lease'.at = "unjournal" /\ lease'.time <= now
      /\ operating = NoKey => lease'.goal \in {"none", "open"}
  BY <1>1, GoToForm DEF Steps
<1>3. /\ journal.from \in retired /\ operating = journal.to /\ successor = journal.next
      /\ journal \in metadata
  BY <1>1 DEF KInv, LeaseInv, At
<1>4. KeysInv'
  <2>1. FilesType' /\ SignedType'
    BY <1>1, <1>2 DEF KInv, KeysInv, FilesType, SignedType, NoKey
  <2>2. Pending' /\ Settled' /\ Heads' /\ OneSuccessor' /\ Founded'
    BY <1>1, <1>2, <1>3 DEF KInv, KeysInv, Pending, Settled, Heads, OneSuccessor, Founded
  <2> QED BY <1>2, <2>1, <2>2 DEF KeysInv
<1>5. LeaseInv'
  BY <1>1, <1>2, <1>3, PendingForm DEF LeaseInv, Resolved, Completing, At
<1>6. DirectoryInv'
  <2>1. Noted' = Noted /\ InOrder' = InOrder
    BY <1>1 DEF Noted, InOrder
  <2> QED BY <1>1, <1>2, <2>1, PendingForm DEF DirectoryInv, At
<1>7. GraceKeyKept'
  BY <1>1 DEF KInv, GraceKeyKept
<1> QED BY <1>4, <1>5, <1>6, <1>7 DEF KInv

LEMMA UnjournalKeeps == ASSUME KInv, Unjournal PROVE KInv'
<1>1. /\ At("unjournal") /\ lease.at # "none" /\ lease.at \in Completing
      /\ GoTo("rotated") \/ GoTo("recover")
      /\ journal' = NoJournal
      /\ UNCHANGED <<operating, successor, staged, retired, metadata, remnant, cached, made,
                      signed, now>>
  BY DEF Unjournal, At, Completing
<1>2. /\ LeaseType' /\ lease'.at \in {"rotated", "recover"} /\ lease'.time <= now
      /\ operating = NoKey => lease'.goal \in {"none", "open"}
  BY <1>1, GoToForm DEF Steps
<1>3. /\ journal.from \in retired /\ operating = journal.to /\ successor = journal.next
      /\ journal \in metadata
  BY <1>1 DEF KInv, LeaseInv, At
<1>4. KeysInv'
  <2>1. FilesType' /\ SignedType'
    BY <1>1, <1>2 DEF KInv, KeysInv, FilesType, SignedType
  <2>2. Pending' /\ Settled' /\ OneSuccessor' /\ Founded'
    BY <1>1, <1>2, <1>3, PendingForm DEF KInv, KeysInv, Pending, Settled, OneSuccessor, Founded
  <2>3. Heads'
    BY <1>1, <1>3, PendingForm DEF KInv, KeysInv, Heads
  <2> QED BY <1>2, <2>1, <2>2, <2>3 DEF KeysInv
<1>5. LeaseInv'
  BY <1>1, <1>2 DEF LeaseInv, Resolved, Completing, At
<1>6. DirectoryInv'
  <2>1. Noted' = Noted /\ journal.from \in Noted
    BY <1>1, <1>3 DEF Noted
  <2>2. InOrder'
    BY <1>1, <2>1, PendingForm DEF InOrder
  <2> QED BY <1>2, <2>2 DEF DirectoryInv, Completing
<1>7. GraceKeyKept'
  BY <1>1 DEF KInv, GraceKeyKept
<1> QED BY <1>4, <1>5, <1>6, <1>7 DEF KInv
-----------------------------------------------------------------------------
(***************************************************************************)
(* The invariant along every step of the agent.                            *)
(***************************************************************************)

LEMMA KStutter == ASSUME KInv, UNCHANGED keyVars PROVE KInv'
<1>1. cached \in [Proc -> Nat]
  BY DEF KInv, KeysInv, FilesType
<1> QED BY <1>1, ProcessEnds DEF keyVars

LEMMA KeyStepKeeps == ASSUME KInv, KeyStep PROVE KInv'
<1>1. ScanRefused \/ AtGraceBound => Fail
  BY DEF ScanRefused, AtGraceBound
<1> QED BY <1>1, DropKeeps, ScanUnlinkKeyKeeps, ScanUnlinkMetadataKeeps, ScanDoneKeeps,
           RecoverKeeps, CreateKeeps, StageSuccessorKeeps, RetainKeeps, PublishRetiredKeeps,
           PromoteKeeps, SucceedKeeps, NoteKeeps, UnstageKeeps, UnjournalKeeps
        DEF KeyStep

\* The holder keeps what it listed in the database and goes on with its task.
LEMMA ReconcileKeeps == ASSUME KInv, NEW p \in Proc, Reconcile(p) PROVE KInv'
<1>1. /\ At("listed") /\ lease.at # "none" /\ GoTo("leased")
      /\ UNCHANGED <<files, cached, made, signed, now>>
  BY DEF Reconcile, At
<1>2. /\ LeaseType' /\ lease'.at = "leased" /\ lease'.time <= now /\ lease'.goal = "use"
      /\ operating = NoKey => lease'.goal \in {"none", "open"}
  BY <1>1, GoToForm DEF Steps, KInv, LeaseInv, At
<1>3. journal' = NoJournal
  BY <1>1 DEF KInv, LeaseInv, Resolved, At, files
<1>4. LeaseInv'
  BY <1>2, <1>3 DEF LeaseInv, Resolved, Completing, At
<1>5. ~At("unlink") /\ ~At("unlink")' /\ lease'.at \notin Completing
      /\ lease'.at \notin {"retain", "publish"}
  BY <1>1, <1>2 DEF At, Completing
<1> QED BY <1>1, <1>2, <1>4, <1>5, HolderMoves

\* A task that ends with an error drops the lock if it holds it.
LEMMA GiveUpKeeps ==
    ASSUME KInv, lease' \in {Free, lease},
           UNCHANGED <<files, cached, made, signed, now>>
    PROVE  KInv'
<1>1. cached \in [Proc -> Nat]
  BY DEF KInv, KeysInv, FilesType
<1>2. CASE lease' = Free
  BY <1>1, <1>2, LockDropped DEF files
<1>3. CASE lease' = lease
  BY <1>1, <1>3, ProcessEnds
<1> QED BY <1>2, <1>3

LEMMA TaskStepKeeps == ASSUME KInv, NEW p \in Proc, TaskStep(p) PROVE KInv'
<1>1. CASE UNCHANGED keyVars
  BY <1>1, KStutter
<1>2. CASE Reconcile(p)
  BY <1>2, ReconcileKeeps
<1>3. CASE AcquireLease(p)
  BY <1>3, TakeKeeps DEF AcquireLease
<1>4. CASE ReleaseLease(p)
  BY <1>4, DropKeeps DEF ReleaseLease, Release
<1>5. CASE List(p) \/ PromoteKeys(p)
  BY <1>5, ListRetiredKeeps DEF List, PromoteKeys
<1>6. CASE PrepareRefused(p) \/ Undeliverable(p) \/ SaveRefused(p) \/ ChooseRefused(p)
  BY <1>6, GiveUpKeeps DEF PrepareRefused, Undeliverable, SaveRefused, ChooseRefused, GiveUp
<1>7. CASE ReconcileRefused(p) \/ OpenRefused(p)
  BY <1>7, GiveUpKeeps DEF ReconcileRefused, OpenRefused
<1>8. CASE KeysRotated(p) \/ AgentOpened(p)
  BY <1>8, DropKeeps DEF KeysRotated, AgentOpened
<1>9. CASE JournalRotation(p)
  BY <1>9, WriteJournalKeeps DEF JournalRotation
<1>10. \/ UNCHANGED keyVars
       \/ Reconcile(p) \/ AcquireLease(p) \/ ReleaseLease(p) \/ List(p) \/ PromoteKeys(p)
       \/ PrepareRefused(p) \/ Undeliverable(p) \/ SaveRefused(p) \/ ChooseRefused(p)
       \/ ReconcileRefused(p) \/ OpenRefused(p) \/ KeysRotated(p) \/ AgentOpened(p)
       \/ JournalRotation(p)
  BY DEF TaskStep, Prune, ChangeTerms, Prepare, SyncTargets, StartAttempts, ChooseRotation,
         SaveSource, SaveOwn, SaveTargets, SaveTarget
<1> QED BY <1>1, <1>2, <1>3, <1>4, <1>5, <1>6, <1>7, <1>8, <1>9, <1>10

LEMMA KInit == Init => KInv
<1> SUFFICES ASSUME Init PROVE KInv
  OBVIOUS
<1>1. KeyInit
  BY DEF Init
<1>2. Noted = {} /\ IsFiniteSet(retired) /\ Cardinality(retired) = 0
  BY <1>1, FS_EmptySet DEF KeyInit, Noted
<1>3. lease.at = "none" /\ lease.goal = "none" /\ lease.time = 0
  BY <1>1 DEF KeyInit, Free
<1>4. KeysInv
  BY <1>1, <1>2, <1>3
     DEF KeyInit, KeysInv, LeaseType, FilesType, SignedType, Pending, Settled, Heads,
         Founded, OneSuccessor, NoKey
<1>5. LeaseInv
  BY <1>3 DEF LeaseInv, Resolved, Completing, At
<1>6. DirectoryInv
  BY <1>1, <1>2, <1>3, KeyStoreAssumption DEF KeyInit, DirectoryInv, InOrder, Completing
<1> QED BY <1>1, <1>4, <1>5, <1>6 DEF KInv, GraceKeyKept, KeyInit

LEMMA KNext == KInv /\ [Next]_vars => KInv'
<1> SUFFICES ASSUME KInv, [Next]_vars PROVE KInv'
  OBVIOUS
<1>1. CASE UNCHANGED keyVars
  BY <1>1, KStutter
<1>2. CASE UNCHANGED vars
  BY <1>1, <1>2 DEF vars
<1>3. CASE FileStep
  BY <1>3, KeyStepKeeps DEF FileStep
<1>4. CASE Clock
  BY <1>4, TickKeeps DEF Clock
<1>5. CASE HolderFails
  BY <1>5, DropKeeps DEF HolderFails
<1>6. ASSUME NEW p \in Proc,
             \/ OpenHome(p) \/ Quit(p) \/ Start(p)
             \/ TaskStep(p) \/ Placed(p) \/ AttemptFails(p) \/ Deadline(p)
             \/ ProcessDies(p)
      PROVE  KInv'
  <2>1. CASE TaskStep(p)
    BY <2>1, TaskStepKeeps
  <2>2. CASE OpenHome(p)
    BY <2>2, TakeKeeps DEF OpenHome
  <2>3. CASE Start(p)
    BY <1>1, <2>3, TakeKeeps DEF Start
  <2>4. CASE Quit(p)
    BY <2>4, EndKeeps DEF Quit
  <2>5. CASE ProcessDies(p)
    BY <2>5, EndKeeps DEF ProcessDies
  <2>6. CASE Placed(p) \/ AttemptFails(p) \/ Deadline(p)
    BY <1>1, <2>6 DEF Placed, RecordPlaced, RotationPlaced, AttemptFails, Deadline
  <2> QED BY <1>6, <2>1, <2>2, <2>3, <2>4, <2>5, <2>6
<1> QED BY <1>2, <1>3, <1>4, <1>5, <1>6 DEF Next

\* Every file a rotation leaves behind, at every step of every process, is one
\* the next process can go on from (KInv: complete_rotation_locked and
\* recover_pending_locked, for any number of processes, deaths and file errors).
THEOREM FilesInvariant == Spec => []KInv
<1>1. Init => KInv
  BY KInit
<1>2. KInv /\ [Next]_vars => KInv'
  BY KNext
<1> QED BY <1>1, <1>2, PTL DEF Spec

\* However often rotations are cut short and finished by others, at most one
\* transition away from a key is ever signed (prepare_rotation_locked).
THEOREM AtMostOneSuccessor == Spec => []OneSuccessor
<1>1. KInv => OneSuccessor
  BY DEF KInv, KeysInv
<1> QED BY <1>1, FilesInvariant, PTL

\* No key that is still needed leaves the disk: the journal can be completed,
\* the end of the signed chain is held, and an address in its grace interval
\* can be drained (complete_rotation_locked,
\* retired_identities_and_live_count_locked).
THEOREM KeysAreKept == Spec => []NoKeyLost
<1>1. ASSUME KInv PROVE JournalIsCompletable
  BY <1>1 DEF KInv, KeysInv, Pending, JournalIsCompletable
<1>2. ASSUME KInv PROVE ChainHeadHeld
  <2>1. SUFFICES ASSUME NEW r \in signed, \A s \in signed : s.from # r.to
                 PROVE  r.to \in {operating, successor} /\ r.next \in {successor, staged}
    BY DEF ChainHeadHeld
  <2>2. CASE journal = NoJournal
    BY <1>2, <2>1, <2>2 DEF KInv, KeysInv, Heads
  <2>3. CASE journal # NoJournal
    BY <1>2, <2>1, <2>3 DEF KInv, KeysInv, Heads, Pending
  <2> QED BY <2>2, <2>3
<1>3. KInv => NoKeyLost
  BY <1>1, <1>2 DEF NoKeyLost, KInv
<1> QED BY <1>3, FilesInvariant, PTL

\* A free home that refuses to open has a temporary file in retired/ or a pair
\* of which only the key was removed; whatever else happened to it, the
\* directory is in order and within its bounds
\* (retired_identities_and_live_count_locked).
THEOREM OnlyRemovalTears == Spec => []TornOnlyByRemoval
<1>1. ASSUME KInv, lease = Free, ~remnant, Noted \ retired = {}
      PROVE  Unpaired \subseteq Tolerated /\ ~TooManyEntries /\ LiveCount <= MaxLive
  <2>1. lease.at = "none"
    BY <1>1 DEF Free
  <2>2. InOrder
    BY <1>1, <2>1 DEF KInv, DirectoryInv, HalfGone, At
  <2>3. IsFiniteSet(retired) /\ Noted \subseteq retired
    BY <1>1 DEF KInv, KeysInv, FilesType
  <2>4. Unpaired \subseteq Tolerated
    BY <1>1, <2>2 DEF Unpaired, Tolerated, InOrder
  <2>5. /\ IsFiniteSet(Noted) /\ Cardinality(Noted) <= Cardinality(retired)
        /\ Cardinality(retired) \in Nat /\ Cardinality(Noted) \in Nat
    BY <2>3, FS_Subset, FS_CardinalityType
  <2>6. ~TooManyEntries
    BY <2>2, <2>5, KeyStoreAssumption DEF TooManyEntries, InOrder
  <2>7. LiveCount <= MaxLive
    <3> DEFINE live == (retired \cap Noted) \ Overdue(ScanTime)
    <3>1. live \subseteq retired
      OBVIOUS
    <3> HIDE DEF live
    <3>2. Cardinality(live) <= Cardinality(retired) /\ Cardinality(live) \in Nat
      BY <2>3, <3>1, FS_Subset, FS_CardinalityType
    <3>3. LiveCount = Cardinality(live)
      BY DEF LiveCount, live
    <3> QED BY <2>2, <2>5, <3>2, <3>3, KeyStoreAssumption DEF InOrder
  <2> QED BY <2>4, <2>6, <2>7
<1>2. KInv => TornOnlyByRemoval
  BY <1>1 DEF TornOnlyByRemoval
<1> QED BY <1>2, FilesInvariant, PTL

-----------------------------------------------------------------------------
(***************************************************************************)
(* The numbers of records and what the lofts hold.                         *)
(*                                                                         *)
(* A key is behind when no rotation can make it the operating key again:   *)
(* it is or was the operating key.  Records exist for such keys only, and  *)
(* a process has opened nothing else.                                      *)
(***************************************************************************)
Behind(k) ==
    k # NoKey =>
      /\ k <= made /\ k # successor /\ k # staged
      /\ journal # NoJournal => k # journal.to

\* No key is the target of two rotations, and only the pending one leads to a
\* key that is not behind yet.
ChainInv ==
    /\ made <= MaxKey
    /\ staged # NoKey => staged # operating
    /\ \A x, y \in signed : x.to = y.to => x = y
    /\ \A x \in signed : x # journal => Behind(x.to)

CachedInv == \A p \in Proc : Behind(cached[p])

\* The steps at which the holder knows that nothing is left to recover.
AtWork == journal = NoJournal /\ ~At("recover") /\ ~At("rotated")

\* Who uses the key has opened it; a list has seen every rotation; a rotation
\* that has ended is noted in retired/.
LeasedInv ==
    /\ AtWork /\ lease.goal \in {"use", "rotate"} => cached[lease.by] = operating
    /\ lease.at \in {"scan", "unlink", "opened", "listed"} =>
         \A x \in signed : x.at <= lease.time
    /\ lease.at \in {"opened", "listed"} => Noted \subseteq retired
    /\ At("opened") => lease.goal = "open"
    /\ At("rotated") => \E m \in metadata : m.to = operating

\* The database is behind the key files by one number at most, and only until
\* the first process opens the new key.
NumbersInv ==
    /\ recordSeq \in Nat
    /\ \A x \in signed : x.seq \in Nat /\ 2 <= x.seq /\ x.seq <= recordSeq + 1
    /\ \A m \in metadata : \/ m.seq <= recordSeq
                           \/ m.to = operating /\ \A p \in Proc : cached[p] # operating
    /\ journal # NoJournal => \A m \in metadata \ {journal} : m.seq <= recordSeq

AInv == ChainInv /\ CachedInv /\ LeasedInv /\ NumbersInv

RecordType == [key : Nat, succ : Nat, seq : Nat, terms : Nat]

Phase == {"lease", "prune", "list", "drain", "release", "records", "rotations", "prepare",
          "sync", "terms", "reconcile", "choose", "source", "keys", "own", "targets", "replan"}

AttemptPhases == {"records", "rotations"}

\* The phases that go on with a rotation that is signed.
FinishingPhases == {"own", "targets", "replan"}

JobType(S) ==
    [phases : Seq(Phase), rot : S \cup {NoJournal}, src : RecordType,
     running : BOOLEAN, rec : RecordType, left : SUBSET ((S \cup {NoJournal}) \X Loft)]

\* It finishes signed rotations only, and has a source record exactly from
\* "source" to "keys".
PhasesOK(j) ==
    /\ \A i \in 1 .. Len(j.phases) : j.phases[i] \in FinishingPhases => j.rot # NoJournal
    /\ j.src # NoRecord => j.phases \in {<<"records", "keys">>, <<"keys">>}
    /\ \A i \in 1 .. Len(j.phases) : j.phases[i] \in {"source", "keys"} =>
         j.src # NoRecord \/ j.phases \in {RotateCurrentTask, Tail(RotateCurrentTask)}

\* A task, the attempts it has left being those of its phase.
JobOK(j, S) ==
    /\ j \in JobType(S) /\ PhasesOK(j)
    /\ j.running => j.phases # <<>> /\ Head(j.phases) \in AttemptPhases
    /\ j.left # {} => j.running
    /\ \A a \in j.left : IF Head(j.phases) = "rotations" THEN a[1] # NoJournal
                         ELSE a[1] = NoJournal /\ j.rec # NoRecord

OwnOK(o, k, S) ==
    \/ o = NoOwn
    \/ /\ o \in [rot : S, todo : SUBSET Loft, done : SUBSET Loft]
       /\ o.rot.from = k

PlanType == [rec : RecordType, done : SUBSET Loft]

LoftType(S) == [rec : [Key -> RecordType], rot : [Key -> S \cup {NoJournal}]]

DataInv ==
    /\ terms \in Nat
    /\ \A x \in signed : x.terms \in Nat
    /\ plan \in PlanType
    /\ plan.rec = NoRecord => plan.done = {}
    /\ DOMAIN own = Key /\ \A k \in Key : OwnOK(own[k], k, signed)
    /\ loft \in [Loft -> LoftType(signed)]
    /\ DOMAIN job = Proc /\ \A p \in Proc : JobOK(job[p], signed)

\* The rotations whose bundle may be sent, and every record that exists.
LoftRecords == {loft[l].rec[k] : l \in Loft, k \in Key}

JobRecords == {job[p].rec : p \in Proc} \cup {job[p].src : p \in Proc}

OwnRotations == {own[k].rot : k \in Key}

JobRotations == {job[p].rot : p \in Proc} \cup UNION {{a[1] : a \in job[p].left} : p \in Proc}

Known == (OwnRotations \cup JobRotations) \ {NoJournal}

Records ==
    (LoftRecords \cup JobRecords \cup {plan.rec} \cup {SourceOf(x) : x \in signed}
     \cup {TargetOf(x) : x \in Known}) \ {NoRecord}

\* A record has a number that was drawn, alone among those of its key, and not
\* the one that a rotation in retired/ has set aside for its target record.
RecordsInv ==
    /\ \A r \in Records : /\ r.key \in Key /\ Behind(r.key)
                          /\ 0 < r.seq /\ r.seq <= recordSeq
    /\ \A r, q \in Records : r.key = q.key /\ r.seq = q.seq => r = q
    /\ \A m \in metadata : \A r \in Records :
         r.key = m.to /\ r.seq = m.seq => r = TargetOf(m)

\* The source record is that of the holder's key, and is planned unless another
\* process has planned the target record of an older rotation meanwhile.
SourceInv ==
    /\ \A p \in Proc : job[p].src # NoRecord =>
         /\ lease.by = p /\ (At("leased") \/ (lease.goal = "rotate" /\ ~At("recover")))
         /\ AtWork => job[p].src.key = operating /\ job[p].src.succ = successor
         /\ plan.rec = job[p].src \/ \E y \in signed : plan.rec = TargetOf(y)
    /\ lease.goal = "rotate" => job[lease.by].src # NoRecord

\* Some loft has taken the record, or the target record of a rotation.
Accepted(r) ==
    \E l \in Loft : \/ loft[l].rec[r.key].seq >= r.seq
                    \/ \E y \in signed : loft[l].rec[y.to].seq >= y.seq

AcceptedInv ==
    AtWork /\ lease.goal = "rotate" => Accepted(job[lease.by].src)

RInv == /\ AInv /\ DataInv /\ RecordsInv /\ SourceInv /\ AcceptedInv
        /\ CompletedIsStored /\ SourcePlacedFirst

-----------------------------------------------------------------------------
(***************************************************************************)
(* The numbers, along the steps that change a key file or the lock.        *)
(***************************************************************************)
KeysStay == UNCHANGED <<operating, successor, staged, journal, made, signed>>

\* What one step can do to the keys.
KeysMove ==
    \/ KeysStay
    \/ staged' = NoKey /\ UNCHANGED <<operating, successor, journal, made, signed>>
    \/ /\ made < MaxKey /\ made' = made + 1 /\ UNCHANGED <<journal, signed>>
       /\ \/ successor' = made + 1 /\ UNCHANGED <<operating, staged>>
          \/ operating' = made + 1 /\ UNCHANGED <<successor, staged>>
          \/ staged' = made + 1 /\ UNCHANGED <<operating, successor>>
    \/ /\ journal = NoJournal /\ successor # NoKey
       /\ journal'.to = successor /\ journal'.from = operating
       /\ signed' = signed \cup {journal'}
       /\ UNCHANGED <<operating, successor, staged, made>>
    \/ /\ journal # NoJournal /\ operating' = journal.to
       /\ UNCHANGED <<successor, staged, journal, made, signed>>
    \/ /\ journal # NoJournal /\ successor' = journal.next
       /\ journal.next \in {successor, staged}
       /\ UNCHANGED <<operating, staged, journal, made, signed>>
    \/ /\ journal # NoJournal /\ journal' = NoJournal
       /\ operating = journal.to /\ successor = journal.next
       /\ UNCHANGED <<operating, successor, staged, made, signed>>

\* A key that is behind stays behind.
LEMMA BehindStays ==
    ASSUME KInv, KeysMove, NEW k \in Nat, Behind(k)
    PROVE  Behind(k)'
BY DEF KInv, KeysInv, FilesType, KeysMove, KeysStay, Behind, NoKey

\* The operating key is behind as soon as it is in use.
LEMMA OperatingBehind ==
    ASSUME KInv, ChainInv, journal = NoJournal
    PROVE  Behind(operating)
BY DEF KInv, KeysInv, FilesType, Settled, ChainInv, Behind

LEMMA ChainKept ==
    ASSUME KInv, ChainInv, KeysMove
    PROVE  ChainInv'
<1>1. made' <= MaxKey
  BY KeyStoreAssumption DEF KeysMove, KeysStay, ChainInv, KInv, KeysInv, FilesType
<1>2. staged' # NoKey => staged' # operating'
  BY DEF KeysMove, KeysStay, ChainInv, KInv, KeysInv, FilesType, Pending, SignedType
<1>3. \A x \in signed : x.to \in Nat /\ x.to # NoKey /\ x.from \in Nat /\ x.from # NoKey
  BY DEF KInv, KeysInv, SignedType, NoKey
<1>4. \A x \in signed : x # journal => Behind(x.to)'
  BY <1>3, BehindStays DEF ChainInv
<1>5. CASE signed' = signed /\ journal' = journal
  BY <1>1, <1>2, <1>4, <1>5 DEF ChainInv
<1>6. CASE /\ journal = NoJournal /\ successor # NoKey
           /\ journal'.to = successor /\ journal'.from = operating
           /\ signed' = signed \cup {journal'}
           /\ UNCHANGED <<operating, successor, staged, made>>
  <2>1. \A x \in signed : x # NoJournal
    BY <1>3 DEF NoJournal, NoKey
  <2>2. \A x \in signed : x.to # journal'.to
    BY <1>3, <1>6, <2>1 DEF ChainInv, Behind
  <2>3. \A x, y \in signed' : x.to = y.to => x = y
    BY <1>6, <2>2 DEF ChainInv
  <2>4. \A x \in signed' : x # journal' => Behind(x.to)'
    BY <1>4, <1>6, <2>1
  <2> QED BY <1>1, <1>2, <2>3, <2>4 DEF ChainInv
<1>7. CASE /\ journal # NoJournal /\ journal' = NoJournal
           /\ operating = journal.to /\ successor = journal.next
           /\ UNCHANGED <<operating, successor, staged, made, signed>>
  <2>1. \A k \in Nat : k = journal.to => Behind(k)'
    BY <1>7 DEF Behind, KInv, KeysInv, FilesType, Pending, SignedType, ChainInv
  <2>2. \A x \in signed : Behind(x.to)'
    BY <1>3, <1>4, <2>1
  <2> QED BY <1>1, <1>2, <1>7, <2>2 DEF ChainInv
<1> QED BY <1>5, <1>6, <1>7 DEF KeysMove, KeysStay

\* What a step of KeyStep does to the files ...
FilesMove ==
    /\ KeysMove /\ UNCHANGED <<signed, cached, now>>
    /\ journal' \in {journal, NoJournal}
    /\ \/ UNCHANGED operating
       \/ journal # NoJournal /\ journal' = journal /\ operating' = journal.to
       \/ signed = {}
    /\ \/ metadata' \subseteq metadata
       \/ /\ journal # NoJournal /\ operating = journal.to
          /\ metadata' \subseteq metadata \cup {journal}
          /\ UNCHANGED <<operating, journal>>

\* ... and to the lock.
HolderMove ==
    /\ lease.by \in Proc /\ ~At("leased")
    /\ lease'.by = lease.by /\ lease'.goal = lease.goal
    /\ lease.goal = "rotate" => ~At("recover")'
    /\ AtWork' /\ lease.goal \in {"use", "rotate"} =>
         /\ UNCHANGED <<operating, successor>>
         /\ AtWork \/ (lease.goal = "use" /\ operating = cached[lease.by])
    /\ lease'.at \in {"scan", "unlink", "opened", "listed"} =>
         \/ lease'.time = now
         \/ lease'.time = lease.time /\ lease.at \in {"scan", "unlink"}
    /\ lease'.at \in {"opened", "listed"} => (Noted \subseteq retired)'
    /\ At("opened")' => lease.goal = "open"
    /\ At("rotated")' => \E m \in metadata' : m.to = operating'

LEMMA HolderForm ==
    ASSUME KInv, lease.at # "none"
    PROVE  lease \in [by : Proc, goal : {"open", "use", "rotate"}, at : Steps,
                      stem : Nat, time : Nat]
BY DEF KInv, KeysInv, LeaseType, Free

LEMMA ScanStepForm ==
    ASSUME KInv, ScanUnlinkKey \/ ScanUnlinkMetadata \/ ScanDone
    PROVE  FilesMove /\ HolderMove
<1>1. lease.at \in {"scan", "unlink"}
  BY DEF ScanUnlinkKey, ScanUnlinkMetadata, ScanDone, Listed, At
<1>2. lease \in [by : Proc, goal : {"open", "use", "rotate"}, at : Steps, stem : Nat, time : Nat]
  BY <1>1, HolderForm
<1>3. FilesMove
  BY DEF ScanUnlinkKey, ScanUnlinkMetadata, ScanDone, FilesMove, KeysMove, KeysStay, files
<1>4. CASE ScanUnlinkKey \/ ScanUnlinkMetadata
  <2>1. /\ lease'.by = lease.by /\ lease'.goal = lease.goal /\ lease'.time = lease.time
        /\ lease'.at \in {"scan", "unlink"}
    BY <1>2, <1>4 DEF ScanUnlinkKey, ScanUnlinkMetadata
  <2>2. AtWork' /\ lease.goal \in {"use", "rotate"} =>
         /\ UNCHANGED <<operating, successor>>
         /\ AtWork \/ (lease.goal = "use" /\ operating = cached[lease.by])
    BY <1>1, <1>4 DEF ScanUnlinkKey, ScanUnlinkMetadata, AtWork, At
  <2> QED BY <1>1, <1>2, <1>3, <2>1, <2>2 DEF HolderMove, At
<1>5. CASE ScanDone
  <2>1. /\ At("scan") /\ UNCHANGED <<files, cached, made, signed, now>>
        /\ GoTo(AfterScan) /\ Listed
    BY <1>5 DEF ScanDone, Listed
  <2>2. /\ AfterScan \in {"retain", "opened", "listed", "stage"}
        /\ AfterScan = "opened" => lease.goal = "open"
    <3>1. CASE journal # NoJournal
      BY <3>1 DEF AfterScan
    <3>2. CASE journal = NoJournal /\ lease.goal = "open"
      BY <3>2 DEF AfterScan
    <3>3. CASE journal = NoJournal /\ lease.goal = "use"
      BY <3>3 DEF AfterScan
    <3>4. CASE journal = NoJournal /\ lease.goal = "rotate"
      BY <3>4 DEF AfterScan
    <3> QED BY <1>2, <3>1, <3>2, <3>3, <3>4
  <2>3. /\ lease'.by = lease.by /\ lease'.goal = lease.goal /\ lease'.time = lease.time
        /\ lease'.at = AfterScan
    BY <1>2, <2>1 DEF GoTo
  <2>4. AtWork' /\ lease.goal \in {"use", "rotate"} =>
         /\ UNCHANGED <<operating, successor>>
         /\ AtWork \/ (lease.goal = "use" /\ operating = cached[lease.by])
    BY <2>1 DEF AtWork, At, files
  <2>5. (Noted \subseteq retired)'
    BY <2>1, ListedForm DEF Noted, files
  <2> QED BY <1>1, <1>2, <1>3, <2>2, <2>3, <2>4, <2>5 DEF HolderMove, At
<1> QED BY <1>4, <1>5

LEMMA RecoverForm ==
    ASSUME KInv, Recover \/ CreateSuccessor \/ CreateOperating \/ StageSuccessor
    PROVE  FilesMove /\ HolderMove
<1>1. lease.at \in {"recover", "create", "stage"}
  BY DEF Recover, CreateSuccessor, CreateOperating, StageSuccessor, At
<1>2. lease \in [by : Proc, goal : {"open", "use", "rotate"}, at : Steps, stem : Nat, time : Nat]
  BY <1>1, HolderForm
<1>3. CASE Recover
  <2>1. FilesMove
    BY <1>3 DEF Recover, FilesMove, KeysMove, KeysStay
  <2>2. /\ lease'.by = lease.by /\ lease'.goal = lease.goal
        /\ \/ lease'.at = "scan" /\ lease'.time = now /\ (journal' # NoJournal \/ lease.goal = "open")
           \/ lease'.at = "create" /\ lease.goal = "open"
           \/ lease'.at = "leased" /\ lease.goal = "use" /\ operating = cached[lease.by]
    BY <1>2, <1>3 DEF Recover, GoTo, GoScan
  <2>3. AtWork' /\ lease.goal \in {"use", "rotate"} =>
         /\ UNCHANGED <<operating, successor>>
         /\ AtWork \/ (lease.goal = "use" /\ operating = cached[lease.by])
    BY <1>3, <2>2 DEF AtWork, At, Recover
  <2> QED BY <1>1, <1>2, <2>1, <2>2, <2>3 DEF HolderMove, At
<1>4. CASE CreateSuccessor \/ CreateOperating
  <2>1. At("create") /\ signed = {} /\ lease.goal = "open"
    BY <1>2, <1>4 DEF CreateSuccessor, CreateOperating, KInv, KeysInv, LeaseInv, Founded
  <2>2. FilesMove
    BY <1>4, <2>1 DEF CreateSuccessor, CreateOperating, FilesMove, KeysMove
  <2>3. /\ lease'.by = lease.by /\ lease'.goal = lease.goal
        /\ \/ lease'.at = "scan" /\ lease'.time = now
           \/ lease'.at = "create"
    BY <1>2, <1>4, <2>1 DEF CreateSuccessor, CreateOperating, GoScan, At
  <2> QED BY <1>1, <1>2, <2>1, <2>2, <2>3 DEF HolderMove, At
<1>5. CASE StageSuccessor
  <2>1. FilesMove
    BY <1>5 DEF StageSuccessor, FilesMove, KeysMove
  <2>2. /\ lease'.by = lease.by /\ lease'.goal = lease.goal /\ lease'.at = "journal"
    BY <1>2, <1>5 DEF StageSuccessor, GoTo
  <2>3. AtWork' /\ lease.goal \in {"use", "rotate"} =>
         /\ UNCHANGED <<operating, successor>>
         /\ AtWork \/ (lease.goal = "use" /\ operating = cached[lease.by])
    BY <1>5 DEF StageSuccessor, AtWork, At
  <2> QED BY <1>1, <1>2, <2>1, <2>2, <2>3 DEF HolderMove, At
<1> QED BY <1>3, <1>4, <1>5

LEMMA CompleteForm ==
    ASSUME KInv, \/ Retain \/ PublishRetired \/ Promote \/ Succeed
                 \/ Note \/ Unstage \/ Unjournal
    PROVE  FilesMove /\ HolderMove
<1>1. lease.at \in Completing /\ journal # NoJournal /\ lease.at # "none" /\ ~At("leased")
  BY DEF Retain, PublishRetired, Promote, Succeed, Note, Unstage, Unjournal, At, Completing,
         KInv, LeaseInv
<1>2. lease \in [by : Proc, goal : {"open", "use", "rotate"}, at : Steps, stem : Nat, time : Nat]
  BY <1>1, HolderForm
<1>3. lease'.by = lease.by /\ lease'.goal = lease.goal
  BY <1>2 DEF Retain, PublishRetired, Promote, Succeed, Note, Unstage, Unjournal, GoTo
<1>4. CASE Retain \/ PublishRetired \/ Promote \/ Succeed \/ Note \/ Unstage
  <2>1. journal' = journal /\ ~AtWork'
    BY <1>1, <1>4 DEF Retain, PublishRetired, Promote, Succeed, Note, Unstage, AtWork
  <2>2. lease'.at \in Completing
    BY <1>2, <1>4 DEF Retain, PublishRetired, Promote, Succeed, Note, Unstage, GoTo, Completing
  <2>3. At("note") => operating = journal.to
    BY DEF KInv, LeaseInv, At
  <2>4. FilesMove
    BY <1>1, <1>4, <2>3 DEF Retain, PublishRetired, Promote, Succeed, Note, Unstage, FilesMove,
                       KeysMove, KeysStay
  <2> QED BY <1>1, <1>2, <1>3, <2>1, <2>2, <2>4 DEF HolderMove, At, Completing
<1>5. CASE Unjournal
  <2>1. /\ operating = journal.to /\ successor = journal.next /\ journal \in metadata
        /\ journal' = NoJournal
        /\ UNCHANGED <<operating, successor, staged, retired, metadata, remnant, cached,
                        made, signed, now>>
    BY <1>5 DEF Unjournal, KInv, LeaseInv, At
  <2>2. lease'.at = IF lease.goal = "rotate" THEN "rotated" ELSE "recover"
    BY <1>2, <1>5 DEF Unjournal, GoTo
  <2>3. FilesMove
    BY <1>1, <2>1 DEF FilesMove, KeysMove
  <2>4. ~AtWork'
    BY <2>2 DEF AtWork, At
  <2> QED BY <1>1, <1>2, <1>3, <2>1, <2>2, <2>3, <2>4 DEF HolderMove, At
<1> QED BY <1>4, <1>5

LEMMA KeyStepForm ==
    ASSUME KInv, KeyStep
    PROVE  FilesMove /\ (lease' = Free \/ HolderMove)
<1>1. CASE ScanRefused \/ AtGraceBound \/ IdentityChanged
  BY <1>1 DEF ScanRefused, AtGraceBound, IdentityChanged, Fail, FilesMove, KeysMove, KeysStay, files
<1> QED BY <1>1, ScanStepForm, RecoverForm, CompleteForm DEF KeyStep

LEMMA CachedKept ==
    ASSUME KInv, ChainInv, CachedInv, KeysMove,
           \A p \in Proc : \/ cached'[p] \in {cached[p], NoKey}
                           \/ cached'[p] = operating /\ journal = NoJournal
    PROVE  CachedInv'
<1> SUFFICES ASSUME NEW p \in Proc PROVE Behind(cached[p])'
  BY DEF CachedInv
<1>1. PICK k \in Nat : k = cached'[p] /\ Behind(k)
  <2>1. Behind(cached[p]) /\ cached[p] \in Nat
    BY DEF CachedInv, KInv, KeysInv, FilesType
  <2>2. Behind(NoKey) /\ NoKey \in Nat
    BY DEF Behind, NoKey
  <2>3. journal = NoJournal => Behind(operating) /\ operating \in Nat
    BY OperatingBehind DEF KInv, KeysInv, FilesType
  <2> QED BY <2>1, <2>2, <2>3
<1>2. Behind(k)'
  BY <1>1, BehindStays
<1> QED BY <1>1, <1>2 DEF Behind

\* The numbers that rotations have taken, while nothing is signed or opened.
LEMMA NumbersKept ==
    ASSUME KInv, AInv, FilesMove \/ (/\ KeysStay /\ metadata' = metadata
                                     /\ \A p \in Proc : cached'[p] \in {cached[p], NoKey}),
           recordSeq' \in Nat, recordSeq' >= recordSeq
    PROVE  NumbersInv'
<1>1. /\ signed' = signed /\ journal' \in {journal, NoJournal}
      /\ \A p \in Proc : cached'[p] \in {cached[p], NoKey}
      /\ \/ UNCHANGED operating
         \/ journal # NoJournal /\ journal' = journal /\ operating' = journal.to
         \/ signed = {}
      /\ \/ metadata' \subseteq metadata
         \/ /\ journal # NoJournal /\ operating = journal.to
            /\ metadata' \subseteq metadata \cup {journal}
            /\ UNCHANGED <<operating, journal>>
  BY DEF FilesMove, KeysStay
<1>2. \A x \in signed : x.seq \in Nat /\ 2 <= x.seq /\ x.seq <= recordSeq + 1
  BY DEF AInv, NumbersInv
<1>3. recordSeq \in Nat /\ metadata \subseteq signed /\ metadata' \subseteq signed
  BY <1>1 DEF AInv, NumbersInv, KInv, KeysInv, FilesType, Pending
<1>4. \A x \in signed : x.to # NoKey /\ x # NoJournal
  BY DEF KInv, KeysInv, SignedType, NoKey, NoJournal
<1>5. \A m \in metadata \ {journal} : journal # NoJournal => m.seq <= recordSeq'
  BY <1>2, <1>3 DEF AInv, NumbersInv
<1>6. journal # NoJournal => \A p \in Proc : cached'[p] # journal.to
  <2>1. \A p \in Proc : journal # NoJournal /\ cached[p] # NoKey => cached[p] # journal.to
    BY DEF AInv, CachedInv, Behind
  <2>2. journal # NoJournal => journal.to # NoKey
    BY <1>4 DEF KInv, KeysInv, Pending
  <2> QED BY <1>1, <2>1, <2>2
<1>7. ASSUME NEW m \in metadata'
      PROVE  \/ m.seq <= recordSeq'
             \/ m.to = operating' /\ \A p \in Proc : cached'[p] # operating'
  <2>1. CASE m = journal /\ operating' = journal.to
    BY <1>3, <1>4, <1>6, <2>1
  <2>2. CASE m \in metadata /\ journal # NoJournal /\ m # journal
    BY <1>5, <2>2
  <2>3. CASE m \in metadata /\ UNCHANGED operating
    BY <1>1, <1>2, <1>3, <1>4, <2>3 DEF AInv, NumbersInv
  <2> QED BY <1>1, <1>3, <1>4, <2>1, <2>2, <2>3
<1>8. journal' # NoJournal => \A m \in metadata' \ {journal'} : m.seq <= recordSeq'
  BY <1>1, <1>5
<1>9. \A x \in signed' : x.seq \in Nat /\ 2 <= x.seq /\ x.seq <= recordSeq' + 1
  BY <1>1, <1>2, <1>3
<1> QED BY <1>7, <1>8, <1>9 DEF NumbersInv

\* The holder goes on.
LEMMA LeasedKept ==
    ASSUME KInv, AInv, FilesMove, HolderMove
    PROVE  LeasedInv'
<1>1. (AtWork /\ lease.goal \in {"use", "rotate"} => cached[lease.by] = operating)'
  BY DEF FilesMove, HolderMove, AInv, LeasedInv
<1>2. (lease.at \in {"scan", "unlink", "opened", "listed"} =>
         \A x \in signed : x.at <= lease.time)'
  <2>1. \A x \in signed : x.at <= now
    BY DEF KInv, KeysInv, SignedType
  <2> QED BY <2>1 DEF FilesMove, HolderMove, AInv, LeasedInv
<1> QED BY <1>1, <1>2 DEF HolderMove, LeasedInv

LEMMA FileStepNumbers ==
    ASSUME KInv, AInv, KeyStep, UNCHANGED recordSeq
    PROVE  AInv'
<1>1. FilesMove /\ (lease' = Free \/ HolderMove) /\ KeysMove /\ cached' = cached
  BY KeyStepForm DEF FilesMove
<1>2. recordSeq' \in Nat /\ recordSeq' >= recordSeq
  BY DEF AInv, NumbersInv
<1>3. ChainInv' /\ CachedInv' /\ NumbersInv'
  BY <1>1, <1>2, ChainKept, CachedKept, NumbersKept DEF AInv
<1>4. LeasedInv'
  BY <1>1, LeasedKept DEF LeasedInv, AtWork, At, Free
<1> QED BY <1>3, <1>4 DEF AInv

\* The lock is taken or dropped, or a process without it ends.
LEMMA LockNumbers ==
    ASSUME KInv, AInv, KeysStay, metadata' = metadata,
           recordSeq' \in Nat, recordSeq' >= recordSeq,
           \A p \in Proc : cached'[p] \in {cached[p], NoKey},
           \/ lease' = Free
           \/ lease'.at = "recover"
           \/ lease' = lease /\ retired' = retired /\ cached'[lease.by] = cached[lease.by]
    PROVE  AInv'
<1>1. KeysMove
  BY DEF KeysMove
<1>2. ChainInv' /\ CachedInv' /\ NumbersInv'
  BY <1>1, ChainKept, CachedKept, NumbersKept DEF AInv
<1>3. LeasedInv'
  <2>1. CASE lease' = Free
    BY <2>1 DEF LeasedInv, AtWork, At, Free
  <2>2. CASE lease'.at = "recover"
    BY <2>2 DEF LeasedInv, AtWork, At
  <2>3. CASE lease' = lease /\ retired' = retired /\ cached'[lease.by] = cached[lease.by]
    <3>1. Noted' = Noted /\ AtWork' = AtWork
      BY <2>3 DEF Noted, AtWork, At, KeysStay
    <3> QED BY <2>3, <3>1 DEF AInv, LeasedInv, KeysStay, At
  <2> QED BY <2>1, <2>2, <2>3
<1> QED BY <1>2, <1>3 DEF AInv

\* The number after ensure_record_seq_at_least.
LEMMA RaisedForm ==
    ASSUME NumbersInv, NEW X \in SUBSET signed
    PROVE  /\ Raised(X) \in Nat /\ recordSeq <= Raised(X)
           /\ \A x \in X : x.seq <= Raised(X)
<1>1. recordSeq \in Nat /\ \A x \in X : x.seq \in Nat /\ x.seq <= recordSeq + 1
  BY DEF NumbersInv
<1> DEFINE S == {recordSeq} \cup {x.seq : x \in X}
           P(n) == \A x \in X : n >= recordSeq /\ n >= x.seq
<1>2. \E n \in S : P(n)
  <2>1. CASE \E x \in X : x.seq = recordSeq + 1
    BY <1>1, <2>1
  <2>2. CASE ~ \E x \in X : x.seq = recordSeq + 1
    <3>1. \A x \in X : x.seq <= recordSeq
      BY <1>1, <2>2
    <3> QED BY <1>1, <3>1
  <2> QED BY <2>1, <2>2
<1>3. Raised(X) = CHOOSE n \in S : P(n)
  BY DEF Raised
<1>4. Raised(X) \in S /\ P(Raised(X))
  <2> HIDE DEF S, P
  <2> QED BY <1>2, <1>3
<1>5. X = {} => Raised(X) = recordSeq
  BY <1>4
<1> QED BY <1>1, <1>4, <1>5

\* A process opens the operating key, and with it the database catches up.
LEMMA OpenNumbers ==
    ASSUME KInv, AInv, KeysStay, metadata' = metadata, journal = NoJournal, lease' = Free,
           recordSeq' \in Nat, recordSeq' >= recordSeq,
           \A m \in metadata : m.to = operating => m.seq <= recordSeq',
           \A p \in Proc : cached'[p] \in {cached[p], operating}
    PROVE  AInv'
<1>1. KeysMove
  BY DEF KeysMove
<1>2. ChainInv' /\ CachedInv'
  BY <1>1, ChainKept, CachedKept DEF AInv
<1>3. LeasedInv'
  BY DEF LeasedInv, AtWork, At, Free
<1>4. metadata \subseteq signed /\ signed' = signed /\ journal' = NoJournal
      /\ \A x \in signed : x.seq \in Nat
  BY DEF KInv, KeysInv, FilesType, KeysStay, AInv, NumbersInv
<1>5. \A m \in metadata' : m.seq <= recordSeq'
  BY <1>4 DEF AInv, NumbersInv
<1>6. NumbersInv'
  BY <1>4, <1>5 DEF AInv, NumbersInv
<1> QED BY <1>2, <1>3, <1>6 DEF AInv

\* The holder lists retired/ or goes on after it.
LEMMA ListNumbers ==
    ASSUME KInv, AInv, KeysStay, UNCHANGED <<metadata, retired, cached>>,
           recordSeq' \in Nat, recordSeq' >= recordSeq,
           lease'.by = lease.by, lease.at \in {"leased", "listed"},
           lease'.at = "leased" \/ (lease'.at = "scan" /\ lease'.time = now)
    PROVE  AInv'
<1>1. KeysMove
  BY DEF KeysMove
<1>2. ChainInv' /\ CachedInv' /\ NumbersInv'
  BY <1>1, ChainKept, CachedKept, NumbersKept DEF AInv
<1>3. AtWork /\ lease.goal = "use" /\ signed' = signed /\ operating' = operating
  BY DEF KInv, LeaseInv, AtWork, At, Resolved, KeysStay
<1>4. \A x \in signed : x.at <= now
  BY DEF KInv, KeysInv, SignedType
<1>5. LeasedInv'
  BY <1>3, <1>4 DEF AInv, LeasedInv, At
<1> QED BY <1>2, <1>5 DEF AInv

\* The rotation takes the number after that of the source record.
LEMMA JournalNumbers ==
    ASSUME KInv, AInv, UNCHANGED recordSeq, NEW s \in Nat, 0 < s, s <= recordSeq, NEW t,
           WriteJournal(s, t)
    PROVE  AInv' /\ KeysMove
<1>1. /\ At("journal") /\ journal'.from = operating /\ journal'.to = successor
      /\ journal'.seq = s + 1 /\ journal' # NoJournal
      /\ signed' = signed \cup {journal'} /\ GoScan
      /\ UNCHANGED <<operating, successor, staged, retired, metadata, cached, made, now>>
  BY DEF WriteJournal, NoJournal
<1>2. /\ lease.goal = "rotate" /\ journal = NoJournal /\ AtWork
      /\ lease.at # "none"
  BY <1>1 DEF KInv, LeaseInv, AtWork, At, Resolved
<1>3. successor # NoKey
  BY <1>2, LeasedHasKey DEF KInv, KeysInv, Settled
<1>4. KeysMove
  BY <1>1, <1>2, <1>3 DEF KeysMove
<1>5. ChainInv' /\ CachedInv'
  BY <1>1, <1>4, ChainKept, CachedKept DEF AInv
<1>6. cached[lease.by] = operating /\ lease.by \in Proc
  BY <1>2, HolderForm DEF AInv, LeasedInv
<1>7. \A m \in metadata : m.seq <= recordSeq
  BY <1>6 DEF AInv, NumbersInv
<1>8. NumbersInv'
  BY <1>1, <1>7 DEF AInv, NumbersInv
<1>9. lease'.at = "scan" /\ lease'.time = now
  BY <1>1, <1>2, HolderForm DEF GoScan
<1>10. \A x \in signed' : x.at <= now
  <2>1. lease.time <= now /\ \A x \in signed : x.at <= now
    BY DEF KInv, KeysInv, FilesType, SignedType
  <2>2. journal'.at = lease.time
    BY DEF WriteJournal
  <2> QED BY <1>1, <2>1, <2>2
<1>11. LeasedInv'
  BY <1>1, <1>9, <1>10 DEF LeasedInv, AtWork, At
<1> QED BY <1>4, <1>5, <1>8, <1>11 DEF AInv
-----------------------------------------------------------------------------
(***************************************************************************)
(* The lofts: what they have taken they keep, or replace by a newer one.   *)
(***************************************************************************)
\* M is L after puts, the records it may have gained being those of R.
Grown(L, M, R) ==
    \A k \in Key : /\ L.rec[k].seq <= M.rec[k].seq
                   /\ M.rec[k] = L.rec[k] \/ M.rec[k] \in R
                   /\ L.rot[k] # NoJournal => M.rot[k] = L.rot[k]

LEMMA PutRecord ==
    ASSUME NEW S, NEW L \in LoftType(S), NEW r \in RecordType, r.key \in Key,
           TakesRecord(L, r)
    PROVE  /\ WithRecord(L, r) \in LoftType(S)
           /\ Grown(L, WithRecord(L, r), {r})
           /\ WithRecord(L, r).rec[r.key] = r
<1>1. L.rec \in [Key -> RecordType] /\ L.rot \in [Key -> S \cup {NoJournal}]
  BY DEF LoftType
<1>2. WithRecord(L, r) = [rec |-> [L.rec EXCEPT ![r.key] = r], rot |-> L.rot]
  BY DEF WithRecord, LoftType
<1>3. L.rec[r.key].seq \in Nat /\ r.seq \in Nat /\ \A k \in Key : L.rec[k].seq \in Nat
  BY <1>1 DEF RecordType
<1>4. L.rec[r.key].seq <= r.seq
  BY <1>3 DEF TakesRecord, NoRecord
<1>5. /\ WithRecord(L, r).rec = [L.rec EXCEPT ![r.key] = r]
      /\ WithRecord(L, r).rot = L.rot
  BY <1>2
<1>6. WithRecord(L, r) \in LoftType(S)
  BY <1>1, <1>2 DEF LoftType
<1>7. \A k \in Key : WithRecord(L, r).rec[k] = IF k = r.key THEN r ELSE L.rec[k]
  BY <1>1, <1>5
<1> QED BY <1>3, <1>4, <1>5, <1>6, <1>7 DEF Grown

LEMMA PutRotation ==
    ASSUME NEW S, NEW L \in LoftType(S), NEW x \in S, x.from \in Key, TakesRotation(L, x)
    PROVE  /\ WithRotation(L, x) \in LoftType(S)
           /\ Grown(L, WithRotation(L, x), {})
           /\ WithRotation(L, x).rot[x.from] = x
           /\ WithRotation(L, x).rec = L.rec
<1>1. L.rec \in [Key -> RecordType] /\ L.rot \in [Key -> S \cup {NoJournal}]
  BY DEF LoftType
<1>2. WithRotation(L, x) = [rec |-> L.rec, rot |-> [L.rot EXCEPT ![x.from] = x]]
  BY DEF WithRotation, LoftType
<1>3. \A k \in Key : L.rec[k].seq \in Nat
  BY <1>1 DEF RecordType
<1>4. L.rot[x.from] \in {x, NoJournal}
  BY DEF TakesRotation
<1>5. WithRotation(L, x).rec = L.rec /\ WithRotation(L, x).rot = [L.rot EXCEPT ![x.from] = x]
  BY <1>2
<1>6. WithRotation(L, x) \in LoftType(S)
  BY <1>1, <1>2 DEF LoftType
<1> QED BY <1>1, <1>3, <1>4, <1>5, <1>6 DEF Grown

LEMMA GrownTwice ==
    ASSUME NEW S, NEW L \in LoftType(S), NEW M \in LoftType(S), NEW N \in LoftType(S),
           NEW Q, NEW R, Grown(L, M, Q), Grown(M, N, R)
    PROVE  Grown(L, N, Q \cup R)
<1>1. \A k \in Key : L.rec[k].seq \in Nat /\ M.rec[k].seq \in Nat /\ N.rec[k].seq \in Nat
  BY DEF LoftType, RecordType
<1> QED BY <1>1 DEF Grown

LEMMA GrownNot ==
    ASSUME NEW S, NEW L \in LoftType(S), NEW R
    PROVE  Grown(L, L, R)
BY DEF Grown, LoftType, RecordType

LEMMA GrownMore ==
    ASSUME NEW L, NEW M, NEW Q, NEW R, Grown(L, M, Q), Q \subseteq R
    PROVE  Grown(L, M, R)
BY DEF Grown

\* Wherever the puts of a bundle stop, and when they do not.
LEMMA BundleForm ==
    ASSUME NEW S, NEW L \in LoftType(S), NEW x \in S, x.from \in Key, x.to \in Key,
           SourceOf(x) \in RecordType, TargetOf(x) \in RecordType,
           NEW M \in Bundle(L, x).partial \cup Bundle(L, x).complete
    PROVE  /\ M \in LoftType(S)
           /\ Grown(L, M, {SourceOf(x), TargetOf(x)})
           /\ M \in Bundle(L, x).complete =>
                M.rot[x.from] = x /\ M.rec[x.to] = TargetOf(x)
<1> DEFINE r1 == SourceOf(x)
           r2 == TargetOf(x)
           L1 == WithRecord(L, r1)
           L2 == WithRecord(L1, r2)
           L3 == WithRotation(L2, x)
           ok1 == TakesRecord(L, r1)
           ok2 == ok1 /\ TakesRecord(L1, r2)
           ok3 == ok2 /\ TakesRotation(L2, x)
<1>1. r1.key = x.from /\ r2.key = x.to
  BY DEF SourceOf, TargetOf
<1>2. /\ Bundle(L, x).complete = IF ok3 THEN {L3} ELSE {}
      /\ Bundle(L, x).partial = {L} \cup (IF ok1 THEN {L1} ELSE {}) \cup
                     (IF ok2 THEN {L2} ELSE {}) \cup (IF ok3 THEN {L3} ELSE {})
  BY DEF Bundle
<1> HIDE DEF r1, r2
<1>3. r1 \in RecordType /\ r2 \in RecordType
  BY DEF r1, r2
<1>4. ok1 => L1 \in LoftType(S) /\ Grown(L, L1, {r1})
  BY <1>1, <1>3, PutRecord
<1>5. ok2 => L2 \in LoftType(S) /\ Grown(L1, L2, {r2}) /\ L2.rec[x.to] = r2
  BY <1>1, <1>3, <1>4, PutRecord
<1>6. ok3 => /\ L3 \in LoftType(S) /\ Grown(L2, L3, {}) /\ L3.rot[x.from] = x
             /\ L3.rec = L2.rec
  BY <1>5, PutRotation
<1>7. ok2 => Grown(L, L2, {r1} \cup {r2})
  BY <1>4, <1>5, GrownTwice
<1>8. ok3 => Grown(L, L3, ({r1} \cup {r2}) \cup {})
  BY <1>5, <1>6, <1>7, GrownTwice
<1>9. M \in {L} \/ (ok1 /\ M = L1) \/ (ok2 /\ M = L2) \/ (ok3 /\ M = L3)
  BY <1>2
<1>10. M \in Bundle(L, x).complete => ok3 /\ M = L3
  BY <1>2
<1> HIDE DEF L1, L2, L3, ok1, ok2, ok3
<1>11. M \in LoftType(S) /\ Grown(L, M, {r1, r2})
  <2>1. CASE M = L
    BY <2>1, GrownNot
  <2>2. CASE ok1 /\ M = L1
    BY <1>4, <2>2, GrownMore
  <2>3. CASE ok2 /\ M = L2
    BY <1>5, <1>7, <2>3, GrownMore DEF ok2
  <2>4. CASE ok3 /\ M = L3
    BY <1>6, <1>8, <2>4, GrownMore
  <2> QED BY <1>9, <2>1, <2>2, <2>3, <2>4
<1>12. ok3 => ok2
  BY DEF ok3
<1> QED BY <1>5, <1>6, <1>10, <1>11, <1>12 DEF r1, r2
-----------------------------------------------------------------------------
(***************************************************************************)
(* The tasks.                                                              *)
(***************************************************************************)
LEMMA JobForm ==
    ASSUME NEW S, NEW j, j \in JobType(S)
    PROVE  j = [phases |-> j.phases, rot |-> j.rot, src |-> j.src, running |-> j.running,
                rec |-> j.rec, left |-> j.left]
BY DEF JobType

LEMMA NoRecordType == NoRecord \in RecordType
BY DEF NoRecord, RecordType, NoKey

LEMMA JobWith ==
    ASSUME NEW S, NEW j \in JobType(S), NEW t, NEW x
    PROVE  /\ [j EXCEPT !.phases = t, !.rot = x]
                = [phases |-> t, rot |-> x, src |-> j.src, running |-> j.running,
                   rec |-> j.rec, left |-> j.left]
           /\ [j EXCEPT !.phases = t]
                = [phases |-> t, rot |-> j.rot, src |-> j.src, running |-> j.running,
                   rec |-> j.rec, left |-> j.left]
<1> DEFINE i2 == [j EXCEPT !.phases = t]
<1>1. i2 = [phases |-> t, rot |-> j.rot, src |-> j.src, running |-> j.running,
            rec |-> j.rec, left |-> j.left]
  BY DEF JobType
<1>2. [j EXCEPT !.phases = t, !.rot = x] = [i2 EXCEPT !.rot = x]
  OBVIOUS
<1> HIDE DEF i2
<1>3. [i2 EXCEPT !.rot = x]
        = [phases |-> t, rot |-> x, src |-> j.src, running |-> j.running,
           rec |-> j.rec, left |-> j.left]
  BY <1>1
<1> QED BY <1>1, <1>2, <1>3 DEF i2

LEMMA IdleForm ==
    ASSUME NEW S
    PROVE  /\ Idle \in JobType(S)
           /\ Idle.phases = <<>> /\ Idle.rot = NoJournal /\ Idle.src = NoRecord
           /\ Idle.running = FALSE /\ Idle.rec = NoRecord /\ Idle.left = {}
<1>1. <<>> \in Seq(Phase)
  OBVIOUS
<1> QED BY <1>1, NoRecordType DEF Idle, JobType

\* A task that has just begun.
LEMMA TaskOK ==
    ASSUME NEW S, NEW t \in Seq(Phase), NEW x \in S \cup {NoJournal},
           \A i \in 1 .. Len(t) : t[i] \in FinishingPhases => x # NoJournal,
           \A i \in 1 .. Len(t) : t[i] \in {"source", "keys"} => t = RotateCurrentTask
    PROVE  /\ JobOK([Idle EXCEPT !.phases = t, !.rot = x], S)
           /\ x = NoJournal => JobOK([Idle EXCEPT !.phases = t], S)
<1> DEFINE j == [phases |-> t, rot |-> x, src |-> NoRecord, running |-> FALSE,
                 rec |-> NoRecord, left |-> {}]
<1>1. /\ [Idle EXCEPT !.phases = t, !.rot = x] = j
      /\ x = NoJournal => [Idle EXCEPT !.phases = t] = j
  <2> HIDE DEF j
  <2>1. /\ [Idle EXCEPT !.phases = t, !.rot = x]
                = [phases |-> t, rot |-> x, src |-> Idle.src, running |-> Idle.running,
                   rec |-> Idle.rec, left |-> Idle.left]
           /\ [Idle EXCEPT !.phases = t]
                = [phases |-> t, rot |-> Idle.rot, src |-> Idle.src, running |-> Idle.running,
                   rec |-> Idle.rec, left |-> Idle.left]
    BY IdleForm, JobWith
  <2>2. /\ Idle.rot = NoJournal /\ Idle.src = NoRecord
        /\ Idle.running = FALSE /\ Idle.rec = NoRecord /\ Idle.left = {}
    BY IdleForm
  <2> QED BY <2>1, <2>2 DEF j
<1>2. j \in JobType(S)
  BY NoRecordType DEF JobType
<1>3. /\ j.phases = t /\ j.rot = x /\ j.src = NoRecord /\ j.running = FALSE
      /\ j.left = {}
  OBVIOUS
<1> HIDE DEF j
<1>4. JobOK(j, S)
  BY <1>2, <1>3 DEF JobOK, PhasesOK
<1> QED BY <1>1, <1>4

LEMMA IdleOK == ASSUME NEW S PROVE JobOK(Idle, S)
<1>1. \A i \in 1 .. Len(<<>>) : FALSE
  OBVIOUS
<1>2. /\ Idle \in JobType(S)
      /\ Idle.phases = <<>> /\ Idle.src = NoRecord /\ Idle.running = FALSE /\ Idle.left = {}
  BY IdleForm
<1> QED BY <1>1, <1>2 DEF JobOK, PhasesOK

LEMMA SimpleTaskOK ==
    ASSUME NEW S, NEW t \in {DrainTask, MaintainTask, PublishTask, RotateTask}
    PROVE  JobOK([Idle EXCEPT !.phases = Tail(t)], S)
<1>1. Tail(t) \in Seq(Phase)
  <2>1. /\ DrainTask \in Seq(Phase) /\ MaintainTask \in Seq(Phase)
        /\ PublishTask \in Seq(Phase) /\ RotateTask \in Seq(Phase)
    BY DEF DrainTask, MaintainTask, PublishTask, RotateTask, Phase
  <2>2. DrainTask # <<>> /\ MaintainTask # <<>> /\ PublishTask # <<>> /\ RotateTask # <<>>
    BY DEF DrainTask, MaintainTask, PublishTask, RotateTask
  <2> QED BY <2>1, <2>2
<1>2. \A i \in 1 .. Len(Tail(t)) : Tail(t)[i] \notin FinishingPhases \cup {"source", "keys"}
  BY DEF DrainTask, MaintainTask, PublishTask, RotateTask, FinishingPhases
<1> HIDE DEF DrainTask, MaintainTask, PublishTask, RotateTask
<1>3. NoJournal \in S \cup {NoJournal}
  OBVIOUS
<1> QED BY <1>1, <1>2, <1>3, TaskOK

LEMMA RotateTaskOK ==
    ASSUME NEW S
    PROVE  JobOK([Idle EXCEPT !.phases = RotateCurrentTask], S)
<1>1. /\ RotateCurrentTask \in Seq(Phase)
      /\ \A i \in 1 .. Len(RotateCurrentTask) : RotateCurrentTask[i] \notin FinishingPhases
  BY DEF RotateCurrentTask, FinishingPhases, Phase
<1>2. NoJournal \in S \cup {NoJournal}
  OBVIOUS
<1> QED BY <1>1, <1>2, TaskOK

LEMMA FinishTaskOK ==
    ASSUME NEW S, NEW t \in ResumeTasks \cup {AfterKeysTask}, NEW x \in S, x # NoJournal
    PROVE  JobOK([Idle EXCEPT !.phases = t, !.rot = x], S)
<1>1. t \in Seq(Phase)
  <2>1. /\ <<"rotations", "records">> \in Seq(Phase)
        /\ <<"own", "targets", "replan", "rotations", "records">> \in Seq(Phase)
        /\ <<"rotations", "records", "replan", "sync", "rotations", "records">> \in Seq(Phase)
    BY DEF Phase
  <2> QED BY <2>1 DEF ResumeTasks, AfterKeysTask
<1>2. \A i \in 1 .. Len(t) : t[i] \notin {"source", "keys"}
  BY DEF ResumeTasks, AfterKeysTask
<1> QED BY <1>1, <1>2, TaskOK

\* A phase that is not an attempt is over.
LEMMA RestOK ==
    ASSUME NEW S, NEW j, JobOK(j, S), j.phases # <<>>,
           Head(j.phases) \notin AttemptPhases \cup {"source", "keys"}
    PROVE  /\ JobOK([j EXCEPT !.phases = Tail(@)], S)
           /\ [j EXCEPT !.phases = Tail(@)].src = NoRecord /\ j.src = NoRecord
<1> DEFINE t == Tail(j.phases)
           i2 == [phases |-> t, rot |-> j.rot, src |-> j.src, running |-> j.running,
                  rec |-> j.rec, left |-> j.left]
<1>1. j \in JobType(S) /\ j.phases \in Seq(Phase)
  BY DEF JobType, JobOK
<1>2. /\ t \in Seq(Phase) /\ Len(t) = Len(j.phases) - 1 /\ Len(t) \in Nat
      /\ \A i \in 1 .. Len(t) : t[i] = j.phases[i + 1] /\ i + 1 \in 1 .. Len(j.phases)
  BY <1>1
<1>3. i2 = [j EXCEPT !.phases = Tail(@)]
  BY <1>1, JobForm DEF JobType
<1>4. j.running = FALSE /\ j.left = {}
  BY <1>1 DEF JobOK, JobType
<1>5. j.src = NoRecord
  <2>1. Head(<<"records", "keys">>) = "records" /\ Head(<<"keys">>) = "keys"
    OBVIOUS
  <2> QED BY <2>1 DEF JobOK, PhasesOK, AttemptPhases
<1>6. \A i \in 1 .. Len(t) : t[i] \in {"source", "keys"} => t = Tail(RotateCurrentTask)
  <2>1. \A i \in 1 .. Len(j.phases) : j.phases[i] \in {"source", "keys"} =>
         j.phases \in {RotateCurrentTask, Tail(RotateCurrentTask)}
    BY <1>5 DEF JobOK, PhasesOK
  <2>2. Head(Tail(RotateCurrentTask)) = "source"
    BY DEF RotateCurrentTask
  <2> QED BY <1>2, <2>1, <2>2
<1>7. \A i \in 1 .. Len(t) : t[i] \in FinishingPhases => j.rot # NoJournal
  BY <1>2 DEF JobOK, PhasesOK
<1> HIDE DEF t
<1>8. i2 \in JobType(S)
  BY <1>1, <1>2 DEF JobType
<1>9. /\ i2.phases = t /\ i2.rot = j.rot /\ i2.src = NoRecord /\ i2.running = FALSE
      /\ i2.left = {}
  BY <1>4, <1>5
<1> HIDE DEF i2
<1>10. JobOK(i2, S)
  BY <1>6, <1>7, <1>8, <1>9 DEF JobOK, PhasesOK
<1> QED BY <1>3, <1>5, <1>9, <1>10

\* The source record is chosen.
LEMMA SourceOK ==
    ASSUME NEW S, NEW j, JobOK(j, S), j.phases # <<>>, Head(j.phases) = "source",
           NEW r \in RecordType, r # NoRecord
    PROVE  JobOK([[j EXCEPT !.phases = Tail(@)] EXCEPT !.src = r], S)
<1> DEFINE i2 == [phases |-> <<"records", "keys">>, rot |-> j.rot, src |-> r,
                  running |-> j.running, rec |-> j.rec, left |-> j.left]
<1>1. j \in JobType(S) /\ j.phases \in Seq(Phase)
  BY DEF JobType, JobOK
<1>2. j.src = NoRecord
  <2>1. Head(<<"records", "keys">>) = "records" /\ Head(<<"keys">>) = "keys"
    OBVIOUS
  <2> QED BY <2>1 DEF JobOK, PhasesOK
<1>3. j.phases[1] = "source" /\ 1 \in 1 .. Len(j.phases)
  BY <1>1
<1>4. j.phases = Tail(RotateCurrentTask)
  <2>1. Head(RotateCurrentTask) # "source"
    BY DEF RotateCurrentTask
  <2> QED BY <1>2, <1>3, <2>1 DEF JobOK, PhasesOK
<1>5. Tail(j.phases) = <<"records", "keys">>
  BY <1>4 DEF RotateCurrentTask
<1>6. i2 = [[j EXCEPT !.phases = Tail(@)] EXCEPT !.src = r]
  <2>1. [j EXCEPT !.phases = Tail(@)]
           = [phases |-> <<"records", "keys">>, rot |-> j.rot, src |-> j.src,
              running |-> j.running, rec |-> j.rec, left |-> j.left]
    BY <1>1, <1>5, JobWith
  <2> DEFINE i3 == [phases |-> <<"records", "keys">>, rot |-> j.rot, src |-> j.src,
                    running |-> j.running, rec |-> j.rec, left |-> j.left]
  <2>2. [i3 EXCEPT !.src = r] = i2
    <3> DEFINE ph == <<"records", "keys">>
    <3> HIDE DEF ph
    <3>1. [[phases |-> ph, rot |-> j.rot, src |-> j.src, running |-> j.running,
            rec |-> j.rec, left |-> j.left] EXCEPT !.src = r]
           = [phases |-> ph, rot |-> j.rot, src |-> r, running |-> j.running,
              rec |-> j.rec, left |-> j.left]
      OBVIOUS
    <3> QED BY <3>1 DEF ph
  <2> QED BY <2>1, <2>2
<1>7. j.running = FALSE /\ j.left = {}
  BY <1>1 DEF JobOK, JobType, AttemptPhases
<1>8. <<"records", "keys">> \in Seq(Phase)
  BY DEF Phase
<1>9. i2 \in JobType(S)
  BY <1>1, <1>8 DEF JobType
<1>10. /\ i2.phases = <<"records", "keys">> /\ i2.src = r /\ i2.running = FALSE
       /\ i2.left = {}
  BY <1>7
<1>11. \A i \in 1 .. Len(<<"records", "keys">>) : <<"records", "keys">>[i] \notin FinishingPhases
  BY DEF FinishingPhases
<1> HIDE DEF i2
<1>12. JobOK(i2, S)
  BY <1>9, <1>10, <1>11 DEF JobOK, PhasesOK
<1> QED BY <1>6, <1>12

\* What is left of a task after a step of it.
Less(i, j) ==
    /\ i.rot \in {j.rot, NoJournal} /\ i.rec \in {j.rec, NoRecord}
    /\ i.src = j.src /\ i.left \subseteq j.left

LEMMA FinishedForm ==
    ASSUME NEW S, NEW j \in JobType(S)
    PROVE  Finished(j) = [phases |-> Tail(j.phases), rot |-> j.rot, src |-> j.src,
                          running |-> FALSE, rec |-> NoRecord, left |-> {}]
<1> DEFINE no == FALSE
           t == Tail(j.phases)
           j1 == [j EXCEPT !.phases = t]
           j2 == [j1 EXCEPT !.running = no]
           j3 == [j2 EXCEPT !.rec = NoRecord]
           j4 == [j3 EXCEPT !.left = {}]
<1>1. Finished(j) = j4
  BY DEF Finished
<1> HIDE DEF t, no
<1>2. j1 = [phases |-> t, rot |-> j.rot, src |-> j.src, running |-> j.running,
            rec |-> j.rec, left |-> j.left]
  BY DEF JobType
<1> HIDE DEF j1
<1>3. j2 = [phases |-> t, rot |-> j.rot, src |-> j.src, running |-> no,
            rec |-> j.rec, left |-> j.left]
  BY <1>2
<1> HIDE DEF j2
<1>4. j3 = [phases |-> t, rot |-> j.rot, src |-> j.src, running |-> no,
            rec |-> NoRecord, left |-> j.left]
  BY <1>3
<1> HIDE DEF j3
<1>5. j4 = [phases |-> t, rot |-> j.rot, src |-> j.src, running |-> no,
            rec |-> NoRecord, left |-> {}]
  BY <1>4
<1> QED BY <1>1, <1>5 DEF t, no

\* What the rest of the phases is when an attempt phase is over.
LEMMA AttemptOver ==
    ASSUME NEW S, NEW j \in JobType(S), PhasesOK(j), j.phases # <<>>,
           Head(j.phases) \in AttemptPhases
    PROVE  /\ Tail(j.phases) \in Seq(Phase)
           /\ \A i \in 1 .. Len(Tail(j.phases)) :
                /\ Tail(j.phases)[i] \in FinishingPhases => j.rot # NoJournal
                /\ Tail(j.phases)[i] \in {"source", "keys"} => j.src # NoRecord
           /\ j.src # NoRecord => Tail(j.phases) = <<"keys">>
<1> DEFINE t == Tail(j.phases)
<1>1. j.phases \in Seq(Phase)
  BY DEF JobType
<1>2. /\ t \in Seq(Phase) /\ Len(t) = Len(j.phases) - 1 /\ Len(t) \in Nat
      /\ \A i \in 1 .. Len(t) : t[i] = j.phases[i + 1] /\ i + 1 \in 1 .. Len(j.phases)
  BY <1>1
<1>3. /\ Head(RotateCurrentTask) = "lease" /\ Head(Tail(RotateCurrentTask)) = "source"
      /\ Head(<<"keys">>) = "keys" /\ Tail(<<"records", "keys">>) = <<"keys">>
  BY DEF RotateCurrentTask
<1>4. \A i \in 1 .. Len(j.phases) : j.phases[i] \in {"source", "keys"} => j.src # NoRecord
  BY <1>3 DEF PhasesOK, AttemptPhases
<1>5. j.src # NoRecord => t = <<"keys">>
  BY <1>3 DEF PhasesOK, AttemptPhases
<1>6. \A i \in 1 .. Len(t) : /\ t[i] \in FinishingPhases => j.rot # NoJournal
                             /\ t[i] \in {"source", "keys"} => j.src # NoRecord
  BY <1>2, <1>4 DEF PhasesOK
<1> QED BY <1>2, <1>5, <1>6

LEMMA FinishedOK ==
    ASSUME NEW S, NEW j \in JobType(S), PhasesOK(j), j.phases # <<>>,
           Head(j.phases) \in AttemptPhases
    PROVE  JobOK(Finished(j), S) /\ Less(Finished(j), j)
<1> DEFINE t == Tail(j.phases)
           f == Finished(j)
<1>1. /\ t \in Seq(Phase)
      /\ \A i \in 1 .. Len(t) : /\ t[i] \in FinishingPhases => j.rot # NoJournal
                                /\ t[i] \in {"source", "keys"} => j.src # NoRecord
      /\ j.src # NoRecord => t = <<"keys">>
  BY AttemptOver
<1> HIDE DEF t
<1>2. f = [phases |-> t, rot |-> j.rot, src |-> j.src, running |-> FALSE, rec |-> NoRecord,
           left |-> {}]
  BY FinishedForm DEF t
<1>3. f \in JobType(S)
  BY <1>1, <1>2, NoRecordType DEF JobType
<1>4. /\ f.phases = t /\ f.rot = j.rot /\ f.src = j.src /\ f.running = FALSE
      /\ f.rec = NoRecord /\ f.left = {}
  BY <1>2
<1> HIDE DEF f
<1>5. PhasesOK(f)
  BY <1>1, <1>4 DEF PhasesOK
<1> QED BY <1>3, <1>4, <1>5 DEF JobOK, Less, f

LEMMA LeftForm ==
    ASSUME NEW S, NEW j \in JobType(S), NEW left
    PROVE  [j EXCEPT !.left = left]
             = [phases |-> j.phases, rot |-> j.rot, src |-> j.src, running |-> j.running,
                rec |-> j.rec, left |-> left]
BY DEF JobType

\* An attempt has ended.
LEMMA TriedOK ==
    ASSUME NEW S, NEW j, JobOK(j, S), j.running, NEW left \in SUBSET j.left
    PROVE  JobOK(With(j, left), S) /\ Less(With(j, left), j)
<1>1. j \in JobType(S) /\ PhasesOK(j) /\ j.phases # <<>> /\ Head(j.phases) \in AttemptPhases
  BY DEF JobOK
<1>2. CASE left = {}
  BY <1>1, <1>2, FinishedOK DEF With
<1>3. CASE left # {}
  <2> DEFINE i2 == [j EXCEPT !.left = left]
  <2>1. i2 = [phases |-> j.phases, rot |-> j.rot, src |-> j.src, running |-> j.running,
              rec |-> j.rec, left |-> left]
    BY <1>1, LeftForm
  <2>2. i2 \in JobType(S)
    BY <1>1, <2>1 DEF JobType
  <2>3. /\ i2.phases = j.phases /\ i2.rot = j.rot /\ i2.src = j.src /\ i2.running = j.running
        /\ i2.rec = j.rec /\ i2.left = left
    BY <2>1
  <2>4. With(j, left) = i2
    BY <1>3 DEF With
  <2> HIDE DEF i2
  <2>5. JobOK(i2, S)
    BY <2>2, <2>3 DEF JobOK, PhasesOK
  <2> QED BY <2>3, <2>4, <2>5 DEF Less
<1> QED BY <1>2, <1>3

\* The attempts of a phase begin.
\* The phase begins.
Begun(j, r, left) == With([j EXCEPT !.running = TRUE, !.rec = r], left)

LEMMA BegunOK ==
    ASSUME NEW S, NEW j, JobOK(j, S), j.phases # <<>>, Head(j.phases) \in AttemptPhases,
           NEW r \in RecordType, NEW left \in SUBSET ((S \cup {NoJournal}) \X Loft),
           \A a \in left : IF Head(j.phases) = "rotations" THEN a[1] # NoJournal
                           ELSE a[1] = NoJournal /\ r # NoRecord
    PROVE  /\ JobOK(Begun(j, r, left), S)
           /\ Begun(j, r, left).rot = j.rot /\ Begun(j, r, left).src = j.src
           /\ Begun(j, r, left).rec \in {r, NoRecord} /\ Begun(j, r, left).left \subseteq left
<1> SUFFICES LET i == With([j EXCEPT !.running = TRUE, !.rec = r], left)
             IN  /\ JobOK(i, S)
                 /\ i.rot = j.rot /\ i.src = j.src /\ i.rec \in {r, NoRecord}
                 /\ i.left \subseteq left
  BY Zenon DEF Begun
<1> DEFINE yes == TRUE
           i2 == [j EXCEPT !.running = yes, !.rec = r]
           i3 == [i2 EXCEPT !.left = left]
<1>1. j \in JobType(S) /\ PhasesOK(j)
  BY DEF JobOK
<1>2. i2 = [phases |-> j.phases, rot |-> j.rot, src |-> j.src, running |-> yes,
            rec |-> r, left |-> j.left]
  <2> HIDE DEF yes
  <2> DEFINE i1 == [j EXCEPT !.running = yes]
  <2>1. i1 = [phases |-> j.phases, rot |-> j.rot, src |-> j.src, running |-> yes,
              rec |-> j.rec, left |-> j.left]
    BY <1>1 DEF JobType
  <2>2. i2 = [i1 EXCEPT !.rec = r]
    OBVIOUS
  <2> HIDE DEF i1
  <2> QED BY <2>1, <2>2
<1>3. i2 \in JobType(S)
  BY <1>1, <1>2 DEF JobType
<1>4. i2.phases = j.phases /\ i2.rot = j.rot /\ i2.src = j.src /\ i2.running = TRUE /\ i2.rec = r
  BY <1>2
<1> HIDE DEF i2
<1>5. PhasesOK(i2)
  BY <1>1, <1>4 DEF PhasesOK
<1>6. CASE left = {}
  <2>1. JobOK(Finished(i2), S) /\ Less(Finished(i2), i2)
    BY <1>3, <1>4, <1>5, FinishedOK
  <2>2. Finished(i2).left = {} /\ Finished(i2).rot = i2.rot /\ Finished(i2).rec = NoRecord
    BY <1>3, FinishedForm
  <2> QED BY <1>4, <1>6, <2>1, <2>2 DEF With, Less, i2
<1>7. CASE left # {}
  <2>1. i3 = [phases |-> i2.phases, rot |-> i2.rot, src |-> i2.src, running |-> i2.running,
              rec |-> i2.rec, left |-> left]
    BY <1>3, LeftForm
  <2>2. i3 \in JobType(S)
    BY <1>3, <2>1 DEF JobType
  <2>3. /\ i3.phases = j.phases /\ i3.rot = j.rot /\ i3.src = j.src /\ i3.running = TRUE
        /\ i3.rec = r /\ i3.left = left
    BY <1>4, <2>1
  <2>4. With(i2, left) = i3
    BY <1>7 DEF With
  <2> HIDE DEF i3
  <2>5. JobOK(i3, S)
    BY <1>1, <2>2, <2>3 DEF JobOK, PhasesOK
  <2> QED BY <2>3, <2>4, <2>5 DEF i2
<1> QED BY <1>6, <1>7

\* The wake-up budget is spent.
LEMMA DeadlineOK ==
    ASSUME NEW S, NEW j, JobOK(j, S), j.running
    PROVE  LET i == [Finished(j) EXCEPT !.phases =
                       IF Contains(@, "keys") THEN <<"keys">>
                       ELSE IF Contains(@, "release") THEN <<"release">> ELSE <<>>]
           IN  JobOK(i, S) /\ Less(i, j)
<1> DEFINE no == FALSE
           t == Tail(j.phases)
           f == Finished(j)
           u == IF Contains(t, "keys") THEN <<"keys">>
                ELSE IF Contains(t, "release") THEN <<"release">> ELSE <<>>
           i2 == [phases |-> u, rot |-> j.rot, src |-> j.src, running |-> no,
                  rec |-> NoRecord, left |-> {}]
<1>1. j \in JobType(S) /\ PhasesOK(j) /\ j.phases # <<>> /\ Head(j.phases) \in AttemptPhases
  BY DEF JobOK
<1>2. /\ t \in Seq(Phase)
      /\ \A i \in 1 .. Len(t) : t[i] \in {"source", "keys"} => j.src # NoRecord
      /\ j.src # NoRecord => t = <<"keys">>
  BY <1>1, AttemptOver
<1> HIDE DEF t
<1>3. f = [phases |-> t, rot |-> j.rot, src |-> j.src, running |-> no, rec |-> NoRecord,
           left |-> {}]
  BY <1>1, FinishedForm DEF t
<1>4. f.phases = t
  BY <1>3
<1>5. Contains(t, "keys") <=> j.src # NoRecord
  <2>1. Len(<<"keys">>) = 1 /\ <<"keys">>[1] = "keys" /\ 1 \in 1 .. 1
    OBVIOUS
  <2> QED BY <1>2, <2>1 DEF Contains
<1>6. /\ u \in Seq(Phase)
      /\ j.src # NoRecord => u = <<"keys">>
      /\ j.src = NoRecord => \A i \in 1 .. Len(u) : u[i] \notin {"source", "keys"}
      /\ \A i \in 1 .. Len(u) : u[i] \notin FinishingPhases
  <2>1. /\ <<"keys">> \in Seq(Phase) /\ <<"release">> \in Seq(Phase) /\ <<>> \in Seq(Phase)
        /\ \A i \in 1 .. Len(<<"keys">>) : <<"keys">>[i] = "keys"
        /\ \A i \in 1 .. Len(<<"release">>) : <<"release">>[i] = "release"
        /\ \A i \in 1 .. Len(<<>>) : FALSE
    BY DEF Phase
  <2> QED BY <1>5, <2>1 DEF FinishingPhases
<1> HIDE DEF u, f, no
<1>7. [f EXCEPT !.phases = u] = i2
  BY <1>3
<1>8. i2 \in JobType(S)
  <2>1. no \in BOOLEAN
    BY DEF no
  <2>2. j.rot \in S \cup {NoJournal} /\ j.src \in RecordType
    BY <1>1 DEF JobType
  <2> QED BY <1>6, <2>1, <2>2, NoRecordType DEF JobType
<1>9. /\ i2.phases = u /\ i2.rot = j.rot /\ i2.src = j.src /\ i2.running = FALSE
      /\ i2.rec = NoRecord /\ i2.left = {}
  BY DEF no
<1> HIDE DEF i2
<1>10. JobOK(i2, S) /\ Less(i2, j)
  BY <1>6, <1>8, <1>9 DEF JobOK, PhasesOK, Less
<1>11. [Finished(j) EXCEPT !.phases =
                       IF Contains(@, "keys") THEN <<"keys">>
                       ELSE IF Contains(@, "release") THEN <<"release">> ELSE <<>>] = i2
  BY <1>4, <1>7 DEF f, u
<1> QED BY <1>10, <1>11
-----------------------------------------------------------------------------
(***************************************************************************)
(* What one step does to the tables, the lofts and the tasks.              *)
(***************************************************************************)
\* The rows of own_rotations: kept, dropped, or new and from X.
OwnMove(X) ==
    /\ DOMAIN own' = Key
    /\ \A k \in Key :
         /\ OwnOK(own'[k], k, signed)
         /\ \/ own'[k] = NoOwn
            \/ own'[k].rot = own[k].rot /\ own'[k].done = own[k].done /\ own[k] # NoOwn
            \/ own'[k].rot \in X /\ own'[k].done = {}

LEMMA OwnForm ==
    ASSUME DataInv, NEW k \in Key, own[k] # NoOwn
    PROVE  /\ own[k] \in [rot : signed, todo : SUBSET Loft, done : SUBSET Loft]
           /\ own[k].rot \in signed /\ own[k].rot.from = k
           /\ own[k].todo \subseteq Loft /\ own[k].done \subseteq Loft
BY DEF DataInv, OwnOK

LEMMA SignedForm ==
    ASSUME KInv, AInv, DataInv, NEW x \in signed
    PROVE  /\ x # NoJournal /\ x.from \in Key /\ x.to \in Key /\ x.from # x.to
           /\ x.at \in Nat /\ x.seq \in Nat /\ 2 <= x.seq
           /\ SourceOf(x) \in RecordType /\ TargetOf(x) \in RecordType
           /\ SourceOf(x) # NoRecord /\ TargetOf(x) # NoRecord
<1>1. /\ x.from \in Nat /\ x.to \in Nat /\ x.next \in Nat /\ x.at \in Nat
      /\ 0 < x.from /\ 0 < x.to /\ x.from <= made /\ x.to <= made /\ x.from # x.to
  BY DEF KInv, KeysInv, SignedType, NoKey
<1>2. made \in Nat /\ made <= MaxKey /\ MaxKey \in Nat
  BY KeyStoreAssumption DEF KInv, KeysInv, FilesType, AInv, ChainInv
<1>3. x.seq \in Nat /\ 2 <= x.seq /\ x.seq - 1 \in Nat /\ x.terms \in Nat
  BY DEF AInv, NumbersInv, DataInv
<1>4. x.from \in Key /\ x.to \in Key
  BY <1>1, <1>2 DEF Key
<1>5. x # NoJournal
  BY <1>1 DEF NoJournal, NoKey
<1>6. SourceOf(x) \in RecordType /\ TargetOf(x) \in RecordType
  BY <1>1, <1>3 DEF SourceOf, TargetOf, RecordType
<1>7. SourceOf(x).key = x.from /\ TargetOf(x).key = x.to /\ NoRecord.key = 0
  BY DEF SourceOf, TargetOf, NoRecord, NoKey
<1> QED BY <1>1, <1>3, <1>4, <1>5, <1>6, <1>7

LEMMA OwnStays == ASSUME DataInv, own' = own PROVE OwnMove({})
BY DEF OwnMove, DataInv, OwnOK, NoOwn

LEMMA PruneMove == ASSUME DataInv, own' = Pruned PROVE OwnMove({})
<1>1. DOMAIN own' = Key /\ \A k \in Key : own'[k] \in {NoOwn, own[k]}
  BY DEF Pruned
<1>2. \A k \in Key : OwnOK(own[k], k, signed) /\ OwnOK(NoOwn, k, signed)
  BY DEF DataInv, OwnOK
<1> QED BY <1>1, <1>2 DEF OwnMove

\* The targets of a row that is kept are computed anew.
LEMMA TargetsOK ==
    ASSUME DataInv, NEW k \in Key, own[k] # NoOwn, NEW T \in SUBSET Loft
    PROVE  /\ OwnOK([own[k] EXCEPT !.todo = T], k, signed)
           /\ [own[k] EXCEPT !.todo = T].rot = own[k].rot
           /\ [own[k] EXCEPT !.todo = T].done = own[k].done
<1> DEFINE o == own[k]
           i2 == [o EXCEPT !.todo = T]
<1>1. /\ o \in [rot : signed, todo : SUBSET Loft, done : SUBSET Loft]
      /\ o.rot \in signed /\ o.rot.from = k /\ o.done \subseteq Loft
  BY OwnForm
<1> HIDE DEF o
<1>2. i2 = [rot |-> o.rot, todo |-> T, done |-> o.done]
  BY <1>1
<1>3. i2 \in [rot : signed, todo : SUBSET Loft, done : SUBSET Loft]
  BY <1>1, <1>2
<1>4. i2.rot = o.rot /\ i2.done = o.done
  BY <1>2
<1> HIDE DEF i2
<1>5. OwnOK(i2, k, signed)
  BY <1>1, <1>3, <1>4 DEF OwnOK
<1> QED BY <1>4, <1>5 DEF i2, o

LEMMA SyncMove == ASSUME DataInv, own' = WithTargets(Pruned) PROVE OwnMove({})
<1>1. DOMAIN own' = Key /\ \A k \in Key :
         \/ own'[k] = NoOwn
         \/ own[k] # NoOwn /\ own'[k] = [own[k] EXCEPT !.todo = Loft \ own[k].done]
  BY DEF WithTargets, Pruned
<1>2. \A k \in Key : OwnOK(NoOwn, k, signed)
  BY DEF OwnOK
<1>3. ASSUME NEW k \in Key, own[k] # NoOwn, own'[k] = [own[k] EXCEPT !.todo = Loft \ own[k].done]
      PROVE  /\ OwnOK(own'[k], k, signed)
             /\ own'[k].rot = own[k].rot /\ own'[k].done = own[k].done
  <2>1. Loft \ own[k].done \in SUBSET Loft
    OBVIOUS
  <2> QED BY <1>3, <2>1, TargetsOK
<1> QED BY <1>1, <1>2, <1>3 DEF OwnMove

LEMMA TargetsMove ==
    ASSUME DataInv, NEW k \in Key, own[k] # NoOwn,
           own' = [own EXCEPT ![k] = [@ EXCEPT !.todo = Loft \ own[k].done]]
    PROVE  OwnMove({})
<1>1. DOMAIN own' = Key /\ own'[k] = [own[k] EXCEPT !.todo = Loft \ own[k].done]
      /\ \A i \in Key \ {k} : own'[i] = own[i]
  BY DEF DataInv
<1>2. /\ OwnOK(own'[k], k, signed)
      /\ own'[k].rot = own[k].rot /\ own'[k].done = own[k].done
  <2>1. Loft \ own[k].done \in SUBSET Loft
    OBVIOUS
  <2> QED BY <1>1, <2>1, TargetsOK
<1>3. \A i \in Key : OwnOK(own[i], i, signed)
  BY DEF DataInv
<1> QED BY <1>1, <1>2, <1>3 DEF OwnMove

LEMMA WithOwnMove ==
    ASSUME DataInv, NEW X \in SUBSET signed, own' = WithOwn(X)
    PROVE  OwnMove(X)
<1>1. DOMAIN own' = Key
  BY DEF WithOwn
<1>2. ASSUME NEW k \in Key
      PROVE  /\ OwnOK(own'[k], k, signed)
             /\ \/ own'[k] = own[k]
                \/ own'[k].rot \in X /\ own'[k].done = {}
  <2>1. CASE own[k] = NoOwn /\ \E x \in X : x.from = k
    <3> DEFINE c == CHOOSE x \in X : x.from = k
    <3>1. c \in X /\ c.from = k
      BY <2>1
    <3>2. own'[k] = [NoOwn EXCEPT !.rot = c]
      BY <2>1 DEF WithOwn
    <3> HIDE DEF c
    <3>3. own'[k] = [rot |-> c, todo |-> {}, done |-> {}]
      BY <3>2 DEF NoOwn
    <3> QED BY <3>1, <3>3 DEF OwnOK
  <2>2. CASE ~(own[k] = NoOwn /\ \E x \in X : x.from = k)
    BY <2>2 DEF WithOwn, DataInv
  <2> QED BY <2>1, <2>2
<1> QED BY <1>1, <1>2 DEF OwnMove

LEMMA OwnRotationsMove ==
    ASSUME NEW X, OwnMove(X)
    PROVE  OwnRotations' \subseteq OwnRotations \cup X \cup {NoJournal}
<1> SUFFICES ASSUME NEW k \in Key PROVE own'[k].rot \in OwnRotations \cup X \cup {NoJournal}
  BY DEF OwnRotations
<1>1. NoOwn.rot = NoJournal
  BY DEF NoOwn
<1> QED BY <1>1 DEF OwnMove, OwnRotations

\* The task of one process has changed.
JobMove(p, j) ==
    /\ DOMAIN job' = Proc
    /\ \A q \in Proc \ {p} : job'[q] = job[q]
    /\ JobOK(job'[p], signed') /\ Less(job'[p], j)

LEMMA BecomeForm ==
    ASSUME DataInv, NEW p \in Proc, NEW j, JobOK(j, signed'), Become(p, j)
    PROVE  JobMove(p, j)
<1>1. DOMAIN job = Proc
  BY DEF DataInv
<1>2. DOMAIN job' = Proc /\ job'[p] = (IF j.phases = <<>> THEN Idle ELSE j)
      /\ \A q \in Proc \ {p} : job'[q] = job[q]
  BY <1>1 DEF Become
<1>3. CASE j.phases = <<>>
  <2>1. <<>> # <<"records", "keys">> /\ <<>> # <<"keys">>
    OBVIOUS
  <2>2. j.src = NoRecord
    BY <1>3, <2>1 DEF JobOK, PhasesOK
  <2>3. /\ Idle.rot = NoJournal /\ Idle.src = NoRecord /\ Idle.rec = NoRecord /\ Idle.left = {}
    BY IdleForm
  <2> QED BY <1>2, <1>3, <2>2, <2>3, IdleOK DEF Less, JobMove
<1>4. CASE j.phases # <<>>
  BY <1>2, <1>4 DEF Less, JobMove
<1> QED BY <1>3, <1>4

LEMMA LessTwice ==
    ASSUME NEW i, NEW j, NEW h, Less(i, j), Less(j, h)
    PROVE  Less(i, h)
BY DEF Less

LEMMA JobRecordsMove ==
    ASSUME NEW p \in Proc, NEW j, JobMove(p, j)
    PROVE  /\ JobRecords' \subseteq JobRecords \cup {j.rec, j.src, NoRecord}
           /\ JobRotations' \subseteq JobRotations \cup {j.rot, NoJournal} \cup {a[1] : a \in j.left}
BY DEF JobMove, Less, JobRecords, JobRotations

\* All records come from somewhere.
LEMMA RecordsFrom ==
    ASSUME NEW R, NEW X,
           LoftRecords' \subseteq Records \cup R \cup {NoRecord},
           JobRecords' \subseteq Records \cup R \cup {NoRecord},
           plan'.rec \in Records \cup R \cup {NoRecord},
           {SourceOf(x) : x \in signed'} \subseteq Records \cup R \cup {NoRecord},
           OwnRotations' \subseteq OwnRotations \cup JobRotations \cup X \cup {NoJournal},
           JobRotations' \subseteq OwnRotations \cup JobRotations \cup X \cup {NoJournal}
    PROVE  Records' \subseteq Records \cup R \cup {TargetOf(x) : x \in X}
<1>1. Known' \subseteq Known \cup X
  BY DEF Known
<1>2. \A x \in Known : TargetOf(x) \in Records \cup {NoRecord}
  BY DEF Records
<1>3. \A r \in Records' : \/ r \in LoftRecords' \cup JobRecords' \cup {plan'.rec}
                          \/ r \in {SourceOf(x) : x \in signed'}
                          \/ r \in {TargetOf(x) : x \in Known'}
  BY DEF Records
<1>4. \A r \in Records' : r # NoRecord
  BY DEF Records
<1> QED BY <1>1, <1>2, <1>3, <1>4

\* What the parts of Records are.
LEMMA RecordsAre ==
    /\ LoftRecords \subseteq Records \cup {NoRecord}
    /\ JobRecords \subseteq Records \cup {NoRecord}
    /\ plan.rec \in Records \cup {NoRecord}
    /\ {SourceOf(x) : x \in signed} \subseteq Records \cup {NoRecord}
    /\ \A x \in Known : TargetOf(x) \in Records \cup {NoRecord}
BY DEF Records

\* No record is new.
LEMMA RecordsStay ==
    ASSUME KInv, RecordsInv, KeysMove, Records' \subseteq Records,
           recordSeq \in Nat, recordSeq' \in Nat, recordSeq' >= recordSeq,
           \A r \in Records : r.seq \in Nat,
           \/ metadata' \subseteq metadata
           \/ metadata' \subseteq metadata \cup {journal} /\ journal # NoJournal
    PROVE  RecordsInv'
<1>1. ASSUME NEW r \in Records' PROVE r.key \in Key /\ Behind(r.key)' /\ 0 < r.seq /\ r.seq <= recordSeq'
  <2>1. r \in Records /\ r.key \in Key /\ Behind(r.key) /\ r.key \in Nat
    BY <1>1 DEF RecordsInv, Key
  <2>2. Behind(r.key)'
    BY <2>1, BehindStays
  <2> QED BY <2>1, <2>2 DEF RecordsInv
<1>2. \A r, q \in Records' : r.key = q.key /\ r.seq = q.seq => r = q
  BY DEF RecordsInv
<1>3. journal # NoJournal => \A r \in Records : r.key # journal.to
  <2>1. journal # NoJournal => \A r \in Records : r.key # NoKey /\ Behind(r.key)
    BY DEF RecordsInv, Key, NoKey
  <2> QED BY <2>1 DEF Behind
<1>4. \A m \in metadata' : \A r \in Records' : r.key = m.to /\ r.seq = m.seq => r = TargetOf(m)
  BY <1>3 DEF RecordsInv
<1> QED BY <1>1, <1>2, <1>4 DEF RecordsInv

\* A record is drawn, by a process that has opened the operating key.
LEMMA RecordDrawn ==
    ASSUME KInv, AInv, RecordsInv, KeysStay, metadata' = metadata,
           journal = NoJournal, operating # NoKey,
           NEW p \in Proc, cached[p] = operating,
           Records' \subseteq Records \cup {NewRecord},
           \A r \in Records : r.seq \in Nat,
           recordSeq' = recordSeq + 1
    PROVE  RecordsInv'
<1>1. recordSeq \in Nat /\ recordSeq' \in Nat /\ KeysMove
  BY DEF AInv, NumbersInv, KeysMove
<1>2. NewRecord.key = operating /\ NewRecord.seq = recordSeq + 1
  BY DEF NewRecord
<1>3. operating \in Key /\ operating \in Nat
  BY KeyStoreAssumption DEF KInv, KeysInv, FilesType, AInv, ChainInv, Key, NoKey
<1>4. \A k \in Nat : Behind(k) => Behind(k)'
  BY <1>1, BehindStays
<1>5. Behind(operating)
  BY OperatingBehind DEF AInv
<1>6. \A k \in Nat : k = operating => Behind(k)'
  BY <1>4, <1>5
<1>7. \A r \in Records : r.key \in Key /\ r.key \in Nat /\ Behind(r.key) /\ 0 < r.seq
                         /\ r.seq <= recordSeq
  BY DEF RecordsInv, Key
<1>8. \A r \in Records' : r.key \in Key /\ Behind(r.key)' /\ 0 < r.seq /\ r.seq <= recordSeq'
  BY <1>1, <1>2, <1>3, <1>4, <1>6, <1>7
<1>9. \A r, q \in Records' : r.key = q.key /\ r.seq = q.seq => r = q
  <2>1. \A r \in Records : r.seq # NewRecord.seq
    BY <1>1, <1>2, <1>7
  <2> QED BY <2>1 DEF RecordsInv
<1>10. \A m \in metadata : m.seq <= recordSeq /\ m.seq \in Nat
  BY DEF AInv, NumbersInv, KInv, KeysInv, FilesType
<1>11. \A m \in metadata' : \A r \in Records' : r.key = m.to /\ r.seq = m.seq => r = TargetOf(m)
  <2>1. \A m \in metadata : m.seq # NewRecord.seq
    BY <1>1, <1>2, <1>10
  <2> QED BY <2>1 DEF RecordsInv
<1> QED BY <1>8, <1>9, <1>11 DEF RecordsInv

\* Target records come to light that retired/ has set aside.
LEMMA RecordsTaken ==
    ASSUME KInv, AInv, DataInv, RecordsInv, KeysStay, metadata' = metadata,
           journal = NoJournal, NEW X \in SUBSET metadata,
           Records' \subseteq Records \cup {TargetOf(x) : x \in X},
           \A r \in Records : r.seq \in Nat,
           recordSeq' \in Nat, recordSeq' >= recordSeq, \A x \in X : x.seq <= recordSeq'
    PROVE  RecordsInv'
<1>1. recordSeq \in Nat /\ KeysMove /\ metadata \subseteq signed
  BY DEF AInv, NumbersInv, KeysMove, KInv, KeysInv, FilesType
<1>2. \A x \in X : /\ x.to \in Key /\ x.to \in Nat /\ x.seq \in Nat /\ 0 < x.seq
                   /\ TargetOf(x).key = x.to /\ TargetOf(x).seq = x.seq
  <2>1. \A x \in X : x.to \in Key /\ x.seq \in Nat /\ 2 <= x.seq
    BY <1>1, SignedForm
  <2>2. \A x \in X : TargetOf(x).key = x.to /\ TargetOf(x).seq = x.seq
    BY DEF TargetOf
  <2> QED BY <2>1, <2>2 DEF Key
<1>3. \A x \in X : Behind(x.to)
  <2>1. \A x \in X : x # NoJournal /\ x \in signed
    BY <1>1, SignedForm
  <2> QED BY <2>1 DEF AInv, ChainInv
<1>4. \A k \in Nat : Behind(k) => Behind(k)'
  BY <1>1, BehindStays
<1>5. \A r \in Records : r.key \in Key /\ r.key \in Nat /\ Behind(r.key) /\ 0 < r.seq
                         /\ r.seq <= recordSeq
  BY DEF RecordsInv, Key
<1>6. \A r \in Records' : r.key \in Key /\ Behind(r.key)' /\ 0 < r.seq /\ r.seq <= recordSeq'
  <2> SUFFICES ASSUME NEW r \in Records'
               PROVE  r.key \in Key /\ Behind(r.key)' /\ 0 < r.seq /\ r.seq <= recordSeq'
    OBVIOUS
  <2>1. CASE r \in Records
    BY <1>1, <1>4, <1>5, <2>1
  <2>2. CASE \E x \in X : r = TargetOf(x)
    <3>1. PICK x \in X : r = TargetOf(x)
      BY <2>2
    <3>2. r.key = x.to /\ r.seq = x.seq
      BY <1>2, <3>1
    <3>3. Behind(x.to)'
      BY <1>2, <1>3, <1>4
    <3> QED BY <1>2, <3>2, <3>3
  <2> QED BY <2>1, <2>2
<1>7. \A x, y \in metadata : x.to = y.to => x = y
  BY <1>1 DEF AInv, ChainInv
<1>8. \A x \in X : \A r \in Records : r.key = x.to /\ r.seq = x.seq => r = TargetOf(x)
  BY DEF RecordsInv
<1>9. \A r, q \in Records' : r.key = q.key /\ r.seq = q.seq => r = q
  <2> SUFFICES ASSUME NEW r \in Records', NEW q \in Records', r.key = q.key, r.seq = q.seq
               PROVE  r = q
    OBVIOUS
  <2>1. CASE r \in Records /\ q \in Records
    BY <2>1 DEF RecordsInv
  <2>2. CASE r \in Records /\ \E x \in X : q = TargetOf(x)
    BY <1>2, <1>8, <2>2
  <2>3. CASE q \in Records /\ \E x \in X : r = TargetOf(x)
    BY <1>2, <1>8, <2>3
  <2>4. CASE (\E x \in X : r = TargetOf(x)) /\ (\E y \in X : q = TargetOf(y))
    BY <1>2, <1>7, <2>4
  <2> QED BY <2>1, <2>2, <2>3, <2>4
<1>10. \A m \in metadata' : \A r \in Records' : r.key = m.to /\ r.seq = m.seq => r = TargetOf(m)
  <2> SUFFICES ASSUME NEW m \in metadata, NEW r \in Records', r.key = m.to, r.seq = m.seq
               PROVE  r = TargetOf(m)
    OBVIOUS
  <2>1. CASE r \in Records
    BY <2>1 DEF RecordsInv
  <2>2. CASE \E x \in X : r = TargetOf(x)
    BY <1>2, <1>7, <2>2
  <2> QED BY <2>1, <2>2
<1> QED BY <1>6, <1>9, <1>10 DEF RecordsInv

LoftsGrow(R) ==
    /\ loft' \in [Loft -> LoftType(signed')]
    /\ \A l \in Loft : Grown(loft[l], loft'[l], R)

LEMMA LoftTypeGrows ==
    ASSUME NEW S, NEW T, S \subseteq T, NEW L \in LoftType(S)
    PROVE  L \in LoftType(T)
BY DEF LoftType

LEMMA LoftsStay == ASSUME DataInv, loft' = loft, signed \subseteq signed' PROVE LoftsGrow({})
<1>1. loft \in [Loft -> LoftType(signed)]
  BY DEF DataInv
<1>2. \A l \in Loft : loft[l] \in LoftType(signed') /\ Grown(loft[l], loft[l], {})
  BY <1>1, LoftTypeGrows, GrownNot
<1>3. loft = [l \in Loft |-> loft[l]]
  BY <1>1
<1> QED BY <1>2, <1>3 DEF LoftsGrow

LEMMA LoftMove ==
    ASSUME DataInv, signed' = signed, NEW l \in Loft, NEW M \in LoftType(signed), NEW R,
           Grown(loft[l], M, R), loft' = [loft EXCEPT ![l] = M]
    PROVE  LoftsGrow(R)
<1>1. loft \in [Loft -> LoftType(signed)]
  BY DEF DataInv
<1>2. loft' \in [Loft -> LoftType(signed)] /\ loft'[l] = M
      /\ \A m \in Loft \ {l} : loft'[m] = loft[m]
  BY <1>1
<1>3. \A m \in Loft : Grown(loft[m], loft[m], R)
  BY <1>1, GrownNot
<1> QED BY <1>2, <1>3 DEF LoftsGrow

LEMMA LoftRecordsMove ==
    ASSUME NEW R, LoftsGrow(R)
    PROVE  LoftRecords' \subseteq LoftRecords \cup R
BY DEF LoftsGrow, Grown, LoftRecords

\* Numbers at the lofts.
LEMMA LoftNumbers ==
    ASSUME DataInv, NEW R, LoftsGrow(R)
    PROVE  \A l \in Loft, k \in Key :
             /\ loft[l].rec[k].seq \in Nat /\ loft'[l].rec[k].seq \in Nat
             /\ loft[l].rec[k].seq <= loft'[l].rec[k].seq
             /\ loft[l].rot[k] # NoJournal => loft'[l].rot[k] = loft[l].rot[k]
<1>1. \A l \in Loft : loft[l] \in LoftType(signed) /\ loft'[l] \in LoftType(signed')
  BY DEF DataInv, LoftsGrow
<1>2. \A l \in Loft, k \in Key : loft[l].rec[k].seq \in Nat /\ loft'[l].rec[k].seq \in Nat
  BY <1>1 DEF LoftType, RecordType
<1> QED BY <1>2 DEF LoftsGrow, Grown

LEMMA AcceptedStays ==
    ASSUME KInv, AInv, DataInv, NEW R, LoftsGrow(R), signed \subseteq signed',
           NEW r, r.key \in Key, r.seq \in Nat, Accepted(r)
    PROVE  Accepted(r)'
<1>1. \A y \in signed : y.to \in Key /\ y.seq \in Nat
  BY SignedForm
<1>2. PICK l \in Loft : \/ loft[l].rec[r.key].seq >= r.seq
                        \/ \E y \in signed : loft[l].rec[y.to].seq >= y.seq
  BY DEF Accepted
<1>3. \A k \in Key : /\ loft[l].rec[k].seq \in Nat /\ loft'[l].rec[k].seq \in Nat
                     /\ loft[l].rec[k].seq <= loft'[l].rec[k].seq
  BY LoftNumbers
<1>4. \/ loft'[l].rec[r.key].seq >= r.seq
      \/ \E y \in signed' : loft'[l].rec[y.to].seq >= y.seq
  BY <1>1, <1>2, <1>3
<1> QED BY <1>4 DEF Accepted

LEMMA PlacedStays ==
    ASSUME KInv, AInv, DataInv, NEW R, LoftsGrow(R), SourcePlacedFirst
    PROVE  \A x \in signed : \E l \in Loft :
             \/ loft'[l].rec[x.from].seq >= x.seq - 1
             \/ \E y \in signed \ {x} : loft'[l].rec[y.to].seq >= y.seq
<1> TAKE x \in signed
<1>1. \A y \in signed : y.to \in Key /\ y.seq \in Nat /\ y.from \in Key
  BY SignedForm
<1>2. PICK l \in Loft : \/ loft[l].rec[x.from].seq >= x.seq - 1
                        \/ \E y \in signed \ {x} : loft[l].rec[y.to].seq >= y.seq
  BY DEF SourcePlacedFirst
<1>3. \A k \in Key : /\ loft[l].rec[k].seq \in Nat /\ loft'[l].rec[k].seq \in Nat
                     /\ loft[l].rec[k].seq <= loft'[l].rec[k].seq
  BY LoftNumbers
<1>4. \/ loft'[l].rec[x.from].seq >= x.seq - 1
      \/ \E y \in signed \ {x} : loft'[l].rec[y.to].seq >= y.seq
  BY <1>1, <1>2, <1>3
<1> QED BY <1>4

\* The planned record and the targets that have it.
PlanKept ==
    /\ plan' \in PlanType
    /\ plan'.rec = NoRecord => plan'.done = {}
    /\ \A l \in plan'.done : loft'[l].rec[plan'.rec.key].seq >= plan'.rec.seq

LEMMA PlanNumbers ==
    ASSUME DataInv, RecordsInv, CompletedIsStored, NEW R, LoftsGrow(R)
    PROVE  \A l \in plan.done : l \in Loft /\ loft'[l].rec[plan.rec.key].seq >= plan.rec.seq
<1> SUFFICES ASSUME NEW l \in plan.done
             PROVE  l \in Loft /\ loft'[l].rec[plan.rec.key].seq >= plan.rec.seq
  OBVIOUS
<1>1. l \in Loft /\ plan.rec # NoRecord /\ plan.rec.seq \in Nat
  BY DEF DataInv, PlanType, RecordType
<1>2. plan.rec.key \in Key
  BY <1>1, RecordsAre DEF RecordsInv
<1>3. loft[l].rec[plan.rec.key].seq >= plan.rec.seq
  BY DEF CompletedIsStored
<1> QED BY <1>1, <1>2, <1>3, LoftNumbers

LEMMA PlanStays ==
    ASSUME DataInv, RecordsInv, CompletedIsStored, NEW R, LoftsGrow(R), plan' = plan
    PROVE  PlanKept
BY PlanNumbers DEF PlanKept, DataInv

LEMMA SavePlanKept ==
    ASSUME DataInv, RecordsInv, CompletedIsStored, NEW R, LoftsGrow(R),
           NEW r \in RecordType, r # NoRecord, SavePlan(r)
    PROVE  PlanKept /\ plan'.rec = r
<1> DEFINE d == IF plan.rec = r THEN plan.done ELSE {}
<1>1. d \subseteq Loft /\ \A l \in d : l \in plan.done /\ plan.rec = r
  BY DEF DataInv, PlanType
<1>2. plan' = [rec |-> r, done |-> d]
  BY DEF SavePlan
<1> HIDE DEF d
<1>3. plan' \in PlanType /\ plan'.rec = r /\ plan'.done = d
  BY <1>1, <1>2 DEF PlanType
<1>4. \A l \in d : loft'[l].rec[r.key].seq >= r.seq
  BY <1>1, PlanNumbers
<1> QED BY <1>3, <1>4 DEF PlanKept

LEMMA PlanDoneKept ==
    ASSUME DataInv, RecordsInv, CompletedIsStored, NEW R, LoftsGrow(R),
           NEW r \in RecordType, r # NoRecord, NEW l \in Loft, PlanDone(r, l),
           loft'[l].rec[r.key] = r
    PROVE  PlanKept /\ plan'.rec = plan.rec
<1>1. CASE plan.rec # r
  BY <1>1, PlanStays DEF PlanDone
<1>2. CASE plan.rec = r
  <2>1. plan \in PlanType /\ plan.done \subseteq Loft
    BY DEF DataInv, PlanType
  <2>2. plan' = [plan EXCEPT !.done = @ \cup {l}]
    BY <1>2 DEF PlanDone
  <2>3. plan' = [rec |-> plan.rec, done |-> plan.done \cup {l}]
    BY <2>1, <2>2 DEF PlanType
  <2>4. plan' \in PlanType /\ plan'.rec = r /\ plan'.done = plan.done \cup {l}
    BY <1>2, <2>1, <2>3 DEF PlanType
  <2>5. r.seq \in Nat
    BY DEF RecordType
  <2>6. \A m \in plan.done \cup {l} : loft'[m].rec[r.key].seq >= r.seq
    BY <1>2, <2>5, PlanNumbers
  <2> QED BY <1>2, <2>4, <2>6 DEF PlanKept
<1> QED BY <1>1, <1>2

\* The rows of own_rotations and the targets that have their bundle.
OwnKept ==
    /\ DOMAIN own' = Key
    /\ \A k \in Key :
         /\ OwnOK(own'[k], k, signed)
         /\ own'[k] # NoOwn => \A l \in own'[k].done : loft'[l].rot[k] = own'[k].rot

LEMMA OwnNumbers ==
    ASSUME KInv, AInv, DataInv, CompletedIsStored, NEW R, LoftsGrow(R), NEW k \in Key,
           own[k] # NoOwn
    PROVE  \A l \in own[k].done : loft'[l].rot[k] = own[k].rot
<1>1. own[k].rot \in signed /\ own[k].done \subseteq Loft
  BY OwnForm
<1>2. own[k].rot # NoJournal
  BY <1>1, SignedForm
<1>3. \A l \in own[k].done : loft[l].rot[k] = own[k].rot
  BY DEF CompletedIsStored, OwnRows
<1> QED BY <1>1, <1>2, <1>3, LoftNumbers

LEMMA OwnMoveKept ==
    ASSUME KInv, AInv, DataInv, CompletedIsStored, NEW R, LoftsGrow(R), NEW X, OwnMove(X)
    PROVE  OwnKept
<1>1. \A k \in Key : own[k] # NoOwn => \A l \in own[k].done : loft'[l].rot[k] = own[k].rot
  BY OwnNumbers
<1>2. ASSUME NEW k \in Key, own'[k] # NoOwn
      PROVE  \A l \in own'[k].done : loft'[l].rot[k] = own'[k].rot
  <2>1. \/ own'[k].rot = own[k].rot /\ own'[k].done = own[k].done /\ own[k] # NoOwn
        \/ own'[k].done = {}
    BY <1>2 DEF OwnMove
  <2> QED BY <1>1, <2>1
<1> QED BY <1>2 DEF OwnMove, OwnKept

LEMMA JobOKGrows ==
    ASSUME NEW S, NEW T, S \subseteq T, NEW j, JobOK(j, S)
    PROVE  JobOK(j, T)
<1>1. j \in JobType(T)
  BY DEF JobOK, JobType
<1> QED BY <1>1 DEF JobOK

LEMMA JobStays ==
    ASSUME DataInv, job' = job, signed \subseteq signed', NEW p \in Proc
    PROVE  JobMove(p, job[p])
<1>1. DOMAIN job = Proc /\ JobOK(job[p], signed)
  BY DEF DataInv
<1> QED BY <1>1, JobOKGrows DEF JobMove, Less

\* The tables, the lofts and the tasks are in order after a step.
LEMMA DataKept ==
    ASSUME DataInv, signed \subseteq signed', terms' \in Nat, \A x \in signed' : x.terms \in Nat,
           PlanKept, OwnKept, NEW R, LoftsGrow(R), NEW p \in Proc, NEW j, JobMove(p, j)
    PROVE  DataInv' /\ CompletedIsStored'
<1>1. \A k \in Key : OwnOK(own'[k], k, signed')
  <2> SUFFICES ASSUME NEW k \in Key, OwnOK(own'[k], k, signed)
               PROVE  OwnOK(own'[k], k, signed')
    BY DEF OwnKept
  <2>1. CASE own'[k] = NoOwn
    BY <2>1 DEF OwnOK
  <2>2. CASE own'[k] # NoOwn
    <3>1. own'[k] \in [rot : signed, todo : SUBSET Loft, done : SUBSET Loft] /\ own'[k].rot.from = k
      BY <2>2 DEF OwnOK
    <3>2. own'[k] \in [rot : signed', todo : SUBSET Loft, done : SUBSET Loft]
      BY <3>1
    <3> QED BY <3>1, <3>2 DEF OwnOK
  <2> QED BY <2>1, <2>2
<1>2. \A q \in Proc : JobOK(job'[q], signed')
  <2>1. \A q \in Proc : JobOK(job[q], signed')
    BY JobOKGrows DEF DataInv
  <2> QED BY <2>1 DEF JobMove
<1>3. DataInv'
  BY <1>1, <1>2 DEF DataInv, PlanKept, OwnKept, LoftsGrow, JobMove
<1>4. CompletedIsStored'
  BY DEF CompletedIsStored, PlanKept, OwnKept, OwnRows
<1> QED BY <1>3, <1>4
-----------------------------------------------------------------------------
(***************************************************************************)
(* What every step has to show.                                            *)
(***************************************************************************)

\* Everything that a task mentions existed before.
JobKnown(j) ==
    /\ j.rec \in Records \cup {NoRecord} /\ j.src \in Records \cup {NoRecord}
    /\ j.rot \in OwnRotations \cup JobRotations \cup {NoJournal}
    /\ \A a \in j.left : a[1] \in OwnRotations \cup JobRotations \cup {NoJournal}

LEMMA JobIsKnown == ASSUME NEW p \in Proc PROVE JobKnown(job[p])
<1>1. job[p].rec \in JobRecords /\ job[p].src \in JobRecords
  BY DEF JobRecords
<1>2. job[p].rot \in JobRotations /\ \A a \in job[p].left : a[1] \in JobRotations
  BY DEF JobRotations
<1> QED BY <1>1, <1>2, RecordsAre DEF JobKnown

\* A task that is about nothing yet.
Fresh(j) == j.rot = NoJournal /\ j.src = NoRecord /\ j.rec = NoRecord /\ j.left = {}

LEMMA FreshIsKnown == ASSUME NEW j, Fresh(j) PROVE JobKnown(j)
BY DEF Fresh, JobKnown

LEMMA KnownIsSigned ==
    ASSUME DataInv
    PROVE  OwnRotations \cup JobRotations \subseteq signed \cup {NoJournal}
<1>1. \A k \in Key : own[k].rot \in signed \cup {NoJournal}
  <2> SUFFICES ASSUME NEW k \in Key PROVE own[k].rot \in signed \cup {NoJournal}
    OBVIOUS
  <2>1. NoOwn.rot = NoJournal
    BY DEF NoOwn
  <2> QED BY <2>1, OwnForm
<1>2. \A p \in Proc : /\ job[p].rot \in signed \cup {NoJournal}
                      /\ job[p].left \subseteq (signed \cup {NoJournal}) \X Loft
  <2> SUFFICES ASSUME NEW p \in Proc
               PROVE  /\ job[p].rot \in signed \cup {NoJournal}
                      /\ job[p].left \subseteq (signed \cup {NoJournal}) \X Loft
    OBVIOUS
  <2>1. job[p] \in JobType(signed)
    BY DEF DataInv, JobOK
  <2> QED BY <2>1 DEF JobType
<1>3. \A p \in Proc : \A a \in job[p].left : a[1] \in signed \cup {NoJournal}
  BY <1>2
<1> QED BY <1>1, <1>2, <1>3 DEF OwnRotations, JobRotations

LEMMA RecordForm ==
    ASSUME KInv, AInv, DataInv
    PROVE  \A r \in Records : r \in RecordType /\ r.seq \in Nat
<1>1. LoftRecords \subseteq RecordType
  BY DEF DataInv, LoftRecords, LoftType
<1>2. JobRecords \subseteq RecordType
  <2>1. \A p \in Proc : job[p] \in JobType(signed)
    BY DEF DataInv, JobOK
  <2>2. \A p \in Proc : job[p].rec \in RecordType /\ job[p].src \in RecordType
    BY <2>1 DEF JobType
  <2> QED BY <2>2 DEF JobRecords
<1>3. plan.rec \in RecordType
  BY DEF DataInv, PlanType
<1>4. \A x \in signed : SourceOf(x) \in RecordType /\ TargetOf(x) \in RecordType
  BY SignedForm
<1>5. \A x \in Known : TargetOf(x) \in RecordType
  BY <1>4, KnownIsSigned DEF Known
<1>6. Records \subseteq RecordType
  BY <1>1, <1>2, <1>3, <1>4, <1>5 DEF Records
<1> QED BY <1>6 DEF RecordType

\* The records after a step, and the new ones among them.
LEMMA RecordsGrow ==
    ASSUME DataInv, signed' = signed, NEW Q, NEW X,
           NEW R, LoftsGrow(R), R \subseteq Records \cup Q,
           plan'.rec \in Records \cup Q \cup {NoRecord},
           OwnRotations' \subseteq OwnRotations \cup JobRotations \cup X \cup {NoJournal},
           NEW p \in Proc, NEW j, JobMove(p, j),
           j.rec \in Records \cup Q \cup {NoRecord}, j.src \in Records \cup Q \cup {NoRecord},
           j.rot \in OwnRotations \cup JobRotations \cup X \cup {NoJournal},
           \A a \in j.left : a[1] \in OwnRotations \cup JobRotations \cup X \cup {NoJournal}
    PROVE  Records' \subseteq Records \cup Q \cup {TargetOf(x) : x \in X}
<1>1. LoftRecords' \subseteq Records \cup Q \cup {NoRecord}
  BY LoftRecordsMove, RecordsAre
<1>2. JobRecords' \subseteq Records \cup Q \cup {NoRecord}
  BY JobRecordsMove, RecordsAre
<1>3. JobRotations' \subseteq OwnRotations \cup JobRotations \cup X \cup {NoJournal}
  BY JobRecordsMove
<1>4. {SourceOf(x) : x \in signed'} \subseteq Records \cup Q \cup {NoRecord}
  BY RecordsAre
<1> QED BY <1>1, <1>2, <1>3, <1>4, RecordsFrom

\* A step that signs nothing.
LEMMA StepKept ==
    ASSUME KInv, RInv, signed' = signed, terms' \in Nat,
           AInv', RecordsInv', SourceInv', AcceptedInv', PlanKept, OwnKept,
           NEW R, LoftsGrow(R), NEW p \in Proc, NEW j, JobMove(p, j)
    PROVE  RInv'
<1>1. DataInv' /\ CompletedIsStored'
  <2>1. DataInv /\ \A x \in signed' : x.terms \in Nat
    BY DEF RInv, DataInv
  <2> QED BY <2>1, DataKept
<1>2. SourcePlacedFirst'
  BY PlacedStays DEF RInv, SourcePlacedFirst
<1> QED BY <1>1, <1>2 DEF RInv

\* Nobody is left with a source record.
LEMMA NoSource ==
    ASSUME lease'.goal # "rotate", \A q \in Proc : job'[q].src = NoRecord
    PROVE  SourceInv' /\ AcceptedInv'
BY DEF SourceInv, AcceptedInv

\* Only the holder has one.
LEMMA SourceHolder ==
    ASSUME KInv, SourceInv, NEW q \in Proc, job[q].src # NoRecord
    PROVE  /\ lease.by = q /\ lease # Free /\ lease.goal # "open"
           /\ At("leased") \/ lease.goal = "rotate"
<1>1. lease.by = q /\ (At("leased") \/ lease.goal = "rotate")
  BY DEF SourceInv
<1>2. lease # Free
  BY <1>1, KeyStoreAssumption DEF Free
<1>3. At("leased") => lease.goal = "use"
  BY DEF KInv, LeaseInv, At
<1> QED BY <1>1, <1>2, <1>3

\* The holder keeps its source record; the plan may move on to the target
\* record of a rotation.
LEMMA SourceKept ==
    ASSUME KInv, RInv, signed' = signed,
           lease'.by = lease.by, lease'.goal = lease.goal,
           \A q \in Proc : job'[q].src \in {job[q].src, NoRecord},
           lease.goal = "rotate" => job'[lease.by].src = job[lease.by].src,
           At("leased") => At("leased")',
           lease.goal = "rotate" => ~At("recover")',
           (At("leased") \/ lease.goal = "rotate") /\ AtWork' =>
              AtWork /\ UNCHANGED <<operating, successor>>,
           plan'.rec = plan.rec \/ \E y \in signed : plan'.rec = TargetOf(y),
           NEW R, LoftsGrow(R)
    PROVE  SourceInv' /\ AcceptedInv'
<1>1. SourceInv /\ AcceptedInv /\ AInv /\ DataInv /\ RecordsInv
  BY DEF RInv
<1>2. ASSUME NEW q \in Proc, job'[q].src # NoRecord
      PROVE  /\ lease'.by = q /\ (At("leased")' \/ (lease'.goal = "rotate" /\ ~At("recover")'))
             /\ AtWork' => job'[q].src.key = operating' /\ job'[q].src.succ = successor'
             /\ plan'.rec = job'[q].src \/ \E y \in signed' : plan'.rec = TargetOf(y)
  <2>1. job'[q].src = job[q].src /\ job[q].src # NoRecord
    BY <1>2
  <2>2. /\ lease.by = q /\ (At("leased") \/ (lease.goal = "rotate" /\ ~At("recover")))
        /\ AtWork => job[q].src.key = operating /\ job[q].src.succ = successor
        /\ plan.rec = job[q].src \/ \E y \in signed : plan.rec = TargetOf(y)
    BY <1>1, <2>1 DEF SourceInv
  <2> QED BY <2>1, <2>2
<1>3. lease'.goal = "rotate" => job'[lease'.by].src # NoRecord
  BY <1>1 DEF SourceInv
<1>4. SourceInv'
  BY <1>2, <1>3 DEF SourceInv
<1>5. ASSUME AtWork', lease'.goal = "rotate"
      PROVE  Accepted(job[lease.by].src)' 
  <2>1. AtWork /\ lease.goal = "rotate"
    BY <1>5
  <2> DEFINE r == job[lease.by].src
  <2>2. r # NoRecord /\ Accepted(r)
    BY <1>1, <2>1 DEF SourceInv, AcceptedInv
  <2>3. lease.by \in Proc
    BY <2>1 DEF KInv, KeysInv, LeaseType, Free
  <2>4. r \in Records
    BY <2>2, <2>3, RecordsAre DEF JobRecords
  <2>5. r.key \in Key /\ r.seq \in Nat
    BY <1>1, <2>4, RecordForm DEF RecordsInv
  <2>6. job'[lease'.by].src = r
    BY <2>1
  <2> HIDE DEF r
  <2>7. \A s : s = r => Accepted(s)'
    BY <1>1, <2>2, <2>5, AcceptedStays
  <2> QED BY <2>6, <2>7 DEF Accepted
<1>6. AcceptedInv'
  BY <1>5 DEF AcceptedInv
<1> QED BY <1>4, <1>6
-----------------------------------------------------------------------------
(***************************************************************************)
(* Steps that neither draw a number nor bring a record to light.           *)
(***************************************************************************)

\* The key files or the lock change, the database and the lofts do not.
LEMMA FilesKept ==
    ASSUME KInv, RInv, AInv', KeysMove, signed' = signed, UNCHANGED <<db, loft>>,
           \/ metadata' \subseteq metadata
           \/ metadata' \subseteq metadata \cup {journal} /\ journal # NoJournal,
           NEW p \in Proc, NEW j, JobMove(p, j), JobKnown(j), SourceInv', AcceptedInv'
    PROVE  RInv'
<1>1. AInv /\ DataInv /\ RecordsInv /\ CompletedIsStored
  BY DEF RInv
<1>2. /\ recordSeq' = recordSeq /\ terms' = terms /\ plan' = plan /\ own' = own /\ loft' = loft
      /\ recordSeq \in Nat /\ terms \in Nat
  BY <1>1 DEF db, AInv, NumbersInv, DataInv
<1>3. LoftsGrow({})
  BY <1>1, <1>2, LoftsStay
<1>4. PlanKept /\ OwnKept
  BY <1>1, <1>2, <1>3, PlanStays, OwnStays, OwnMoveKept
<1>5. Records' \subseteq Records
  <2>1. OwnRotations' = OwnRotations
    BY <1>2 DEF OwnRotations
  <2>2. plan'.rec \in Records \cup {NoRecord}
    BY <1>2, RecordsAre
  <2>3. Records' \subseteq Records \cup {} \cup {TargetOf(x) : x \in {}}
    BY <1>1, <1>3, <2>1, <2>2, RecordsGrow DEF JobKnown
  <2> QED BY <2>3
<1>6. RecordsInv'
  BY <1>1, <1>2, <1>5, RecordForm, RecordsStay
<1> QED BY <1>2, <1>3, <1>4, <1>6, StepKept

\* A task changes the tables or the lofts.
LEMMA QuietKept ==
    ASSUME KInv, RInv, UNCHANGED <<keyVars, recordSeq>>, terms' \in Nat,
           PlanKept, plan'.rec \in Records \cup {NoRecord},
           plan'.rec = plan.rec \/ \E y \in signed : plan'.rec = TargetOf(y),
           OwnKept, OwnRotations' \subseteq OwnRotations \cup JobRotations \cup {NoJournal},
           NEW R, R \subseteq Records, LoftsGrow(R),
           NEW p \in Proc, NEW j, JobMove(p, j), JobKnown(j), j.src = job[p].src
    PROVE  RInv'
<1>1. AInv /\ DataInv /\ RecordsInv /\ CompletedIsStored
  BY DEF RInv
<1>2. /\ KeysStay /\ KeysMove /\ UNCHANGED <<metadata, retired, lease, cached, signed, journal>>
      /\ UNCHANGED <<operating, successor>>
      /\ recordSeq' = recordSeq /\ recordSeq \in Nat
  BY <1>1 DEF keyVars, files, KeysStay, KeysMove, AInv, NumbersInv
<1>3. AInv'
  BY <1>1, <1>2, LockNumbers
<1>4. Records' \subseteq Records
  <2>1. Records' \subseteq Records \cup {} \cup {TargetOf(x) : x \in {}}
    BY <1>1, <1>2, RecordsGrow DEF JobKnown
  <2> QED BY <2>1
<1>5. RecordsInv'
  BY <1>1, <1>2, <1>4, RecordForm, RecordsStay
<1>6. \A q \in Proc : job'[q].src = job[q].src
  BY DEF JobMove, Less
<1>7. lease.goal = "rotate" => lease.by \in Proc
  BY DEF KInv, KeysInv, LeaseType, Free
<1>8. At("leased")' = At("leased") /\ At("recover")' = At("recover") /\ AtWork' = AtWork
  BY <1>2 DEF At, AtWork
<1>9. lease.goal = "rotate" => ~At("recover")
  BY <1>7, SourceHolder DEF RInv, SourceInv, At, KInv, LeaseInv
<1>10. SourceInv' /\ AcceptedInv'
  BY <1>2, <1>6, <1>7, <1>8, <1>9, SourceKept
<1> QED BY <1>2, <1>3, <1>5, <1>10, StepKept

\* The holder's files.
LEMMA FileStepRecords == ASSUME KInv, RInv, FileStep PROVE RInv'
<1>1. AInv /\ DataInv /\ SourceInv
  BY DEF RInv
<1>2. /\ KeyStep /\ UNCHANGED <<db, loft>> /\ recordSeq' = recordSeq
      /\ job' = IF lease' = Free THEN [job EXCEPT ![lease.by] = Idle] ELSE job
  BY DEF FileStep, db
<1>3. FilesMove /\ (lease' = Free \/ HolderMove)
  BY <1>2, KeyStepForm
<1>4. AInv'
  BY <1>1, <1>2, FileStepNumbers
<1>5. /\ KeysMove /\ signed' = signed
      /\ \/ metadata' \subseteq metadata
         \/ metadata' \subseteq metadata \cup {journal} /\ journal # NoJournal
  BY <1>3 DEF FilesMove
<1>6. lease.by \in Proc
  <2>1. lease.at # "none"
    BY <1>2 DEF KeyStep, At, Listed, ScanRefused, ScanUnlinkKey, ScanUnlinkMetadata, ScanDone,
                AtGraceBound, Recover, IdentityChanged, CreateSuccessor, CreateOperating,
                StageSuccessor, Retain, PublishRetired, Promote, Succeed, Note, Unstage, Unjournal
  <2> QED BY <2>1, HolderForm
<1>7. CASE lease' = Free
  <2>1. JobMove(lease.by, Idle)
    <3>1. DOMAIN job = Proc
      BY <1>1 DEF DataInv
    <3> QED BY <1>2, <1>6, <1>7, <3>1, IdleOK DEF JobMove, Less
  <2>2. Idle.src = NoRecord /\ Fresh(Idle)
    BY IdleForm DEF Fresh
  <2>3. \A q \in Proc : job'[q].src = NoRecord
    <3>1. \A q \in Proc : q # lease.by => job'[q] = job[q]
      BY <2>1 DEF JobMove
    <3>2. job'[lease.by].src = NoRecord
      BY <2>1, <2>2 DEF JobMove, Less
    <3> QED BY <1>1, <3>1, <3>2, SourceHolder
  <2>4. SourceInv' /\ AcceptedInv'
    BY <1>7, <2>3, NoSource DEF Free
  <2> QED BY <1>2, <1>4, <1>5, <1>6, <2>1, <2>2, <2>4, FreshIsKnown, FilesKept
<1>8. CASE lease' # Free
  <2>1. job' = job /\ HolderMove
    BY <1>2, <1>3, <1>8
  <2>2. JobMove(lease.by, job[lease.by]) /\ JobKnown(job[lease.by])
    BY <1>1, <1>5, <1>6, <2>1, JobStays, JobIsKnown
  <2>3. LoftsGrow({}) /\ plan' = plan
    BY <1>1, <1>2, <1>5, LoftsStay DEF db
  <2>4. /\ lease'.by = lease.by /\ lease'.goal = lease.goal /\ ~At("leased")
        /\ lease.goal = "rotate" => ~At("recover")'
        /\ AtWork' /\ lease.goal = "rotate" => AtWork /\ UNCHANGED <<operating, successor>>
    BY <2>1 DEF HolderMove
  <2>5. SourceInv' /\ AcceptedInv'
    BY <1>5, <2>1, <2>3, <2>4, SourceKept
  <2> QED BY <1>2, <1>4, <1>5, <1>6, <2>2, <2>5, FilesKept
<1> QED BY <1>7, <1>8

\* The lock is dropped, with the task of its holder.
LEMMA LockEnds ==
    ASSUME KInv, RInv, NEW p \in Proc, Become(p, Idle),
           \/ lease.by = p /\ lease' = Free
           \/ lease.by # p /\ lease' = lease /\ retired' = retired
              /\ cached'[lease.by] = cached[lease.by],
           KeysStay, metadata' = metadata, \A q \in Proc : cached'[q] \in {cached[q], NoKey},
           UNCHANGED <<db, loft>>
    PROVE  RInv'
<1>1. AInv /\ DataInv /\ SourceInv /\ RecordsInv
  BY DEF RInv
<1>2. /\ KeysMove /\ signed' = signed /\ recordSeq' = recordSeq /\ recordSeq \in Nat
      /\ UNCHANGED <<operating, successor, journal>> /\ plan' = plan
  BY <1>1 DEF KeysMove, KeysStay, db, AInv, NumbersInv
<1>3. AInv'
  BY <1>1, <1>2, LockNumbers
<1>4. JobMove(p, Idle) /\ Fresh(Idle) /\ Idle.src = NoRecord
  BY <1>1, <1>2, IdleOK, IdleForm, BecomeForm DEF Fresh
<1>5. (\A q \in Proc : q # p => job'[q] = job[q]) /\ job'[p].src = NoRecord
  BY <1>4 DEF JobMove, Less
<1>6. CASE lease.by = p /\ lease' = Free
  <2>1. \A q \in Proc : job'[q].src = NoRecord
    BY <1>1, <1>5, <1>6, SourceHolder
  <2>2. SourceInv' /\ AcceptedInv'
    BY <1>6, <2>1, NoSource DEF Free
  <2> QED BY <1>2, <1>3, <1>4, <2>2, FreshIsKnown, FilesKept
<1>7. CASE lease.by # p /\ lease' = lease
  <2>1. LoftsGrow({})
    BY <1>1, <1>2, LoftsStay
  <2>2. lease.goal = "rotate" => lease.by \in Proc
    BY DEF KInv, KeysInv, LeaseType, Free
  <2>3. At("leased")' = At("leased") /\ At("recover")' = At("recover") /\ AtWork' = AtWork
    BY <1>2, <1>7 DEF At, AtWork
  <2>4. lease.goal = "rotate" => ~At("recover")
    BY <1>1, <2>2, SourceHolder DEF SourceInv, At, KInv, LeaseInv
  <2>5. SourceInv' /\ AcceptedInv'
    BY <1>2, <1>5, <1>7, <2>1, <2>2, <2>3, <2>4, SourceKept
  <2> QED BY <1>2, <1>3, <1>4, <2>5, FreshIsKnown, FilesKept
<1> QED BY <1>6, <1>7

LEMMA GiveUpRecords == ASSUME KInv, RInv, NEW p \in Proc, GiveUp(p) PROVE RInv'
<1>1. /\ Become(p, Idle) /\ KeysStay /\ UNCHANGED <<metadata, retired, cached>> /\ UNCHANGED <<db, loft>>
      /\ lease' = IF lease.by = p THEN Free ELSE lease
  BY DEF GiveUp, files, KeysStay
<1> QED BY <1>1, LockEnds

LEMMA EndRecords ==
    ASSUME KInv, RInv, NEW p \in Proc, HolderFails \/ ProcessDies(p)
    PROVE  RInv'
<1>1. CASE HolderFails
  <2>1. /\ Become(lease.by, Idle) /\ lease' = Free /\ lease # Free /\ KeysStay
        /\ UNCHANGED <<metadata, cached>> /\ UNCHANGED <<db, loft>>
    BY <1>1 DEF HolderFails, FileError, KeysStay
  <2>2. lease.by \in Proc
    BY <2>1 DEF KInv, KeysInv, LeaseType
  <2> QED BY <2>1, <2>2, LockEnds
<1>2. CASE ProcessDies(p)
  <2>1. /\ Become(p, Idle) /\ lease' = (IF lease.by = p THEN Free ELSE lease) /\ KeysStay
        /\ UNCHANGED <<metadata, retired>> /\ UNCHANGED <<db, loft>>
        /\ cached' = [cached EXCEPT ![p] = NoKey]
    BY <1>2 DEF ProcessDies, Die, files, KeysStay
  <2>2. cached \in [Proc -> Nat]
    BY DEF KInv, KeysInv, FilesType
  <2>3. \A q \in Proc : cached'[q] \in {cached[q], NoKey}
    BY <2>1, <2>2
  <2>4. lease.by # p => cached'[lease.by] = cached[lease.by]
    BY <2>1, <2>2
  <2> QED BY <2>1, <2>3, <2>4, LockEnds
<1> QED BY <1>1, <1>2

\* The first phase of a task that is none of the long ones is done.
LEMMA AdvanceForm ==
    ASSUME DataInv, signed' = signed, NEW p \in Proc, job[p].phases # <<>>,
           Head(job[p].phases) \notin AttemptPhases \cup {"source", "keys"}, Advance(p)
    PROVE  JobMove(p, job[p]) /\ job[p].src = NoRecord /\ JobKnown(job[p])
<1>1. JobOK(job[p], signed) /\ job[p] \in JobType(signed)
  BY DEF DataInv, JobOK
<1> DEFINE i == [job[p] EXCEPT !.phases = Tail(@)]
<1>2. JobOK(i, signed') /\ job[p].src = NoRecord
  BY <1>1, RestOK
<1>3. Less(i, job[p])
  <2>1. i = [phases |-> Tail(job[p].phases), rot |-> job[p].rot, src |-> job[p].src,
             running |-> job[p].running, rec |-> job[p].rec, left |-> job[p].left]
    BY <1>1, JobWith
  <2> HIDE DEF i
  <2> QED BY <2>1 DEF Less
<1>4. Become(p, i)
  BY DEF Advance, Rest
<1> HIDE DEF i
<1>5. JobMove(p, i)
  BY <1>2, <1>4, BecomeForm
<1>6. JobMove(p, job[p])
  BY <1>3, <1>5, LessTwice DEF JobMove
<1> QED BY <1>2, <1>6, JobIsKnown

\* A task begins.
LEMMA FreshForm ==
    ASSUME DataInv, signed' = signed, NEW p \in Proc, NEW t, JobOK([Idle EXCEPT !.phases = t], signed),
           Become(p, [Idle EXCEPT !.phases = t])
    PROVE  \E j : JobMove(p, j) /\ Fresh(j) /\ j = [Idle EXCEPT !.phases = t]
<1> DEFINE j == [Idle EXCEPT !.phases = t]
<1>1. Fresh(j)
  BY DEF Fresh, Idle
<1>2. JobOK(j, signed') /\ Become(p, j)
  OBVIOUS
<1>3. JobMove(p, j)
  <2> HIDE DEF j
  <2> QED BY <1>2, BecomeForm
<1> QED BY <1>1, <1>3

\* Somebody takes the free lock.
LEMMA LockTaken ==
    ASSUME KInv, RInv, lease = Free, lease'.at = "recover", lease'.goal # "rotate", KeysStay,
           metadata' = metadata, cached' = cached, UNCHANGED <<db, loft>>,
           NEW p \in Proc, NEW j, JobMove(p, j), JobKnown(j), j.src = NoRecord
    PROVE  RInv'
<1>1. AInv /\ SourceInv
  BY DEF RInv
<1>2. KeysMove /\ signed' = signed /\ recordSeq' = recordSeq /\ recordSeq \in Nat
  BY <1>1 DEF KeysMove, KeysStay, db, AInv, NumbersInv
<1>3. AInv'
  BY <1>1, <1>2, LockNumbers
<1>4. \A q \in Proc : job'[q].src = NoRecord
  BY <1>1, SourceHolder DEF JobMove, Less
<1>5. SourceInv' /\ AcceptedInv'
  BY <1>4, NoSource
<1> QED BY <1>2, <1>3, <1>5, FilesKept

LEMMA OpenRecords == ASSUME KInv, RInv, NEW p \in Proc, OpenHome(p) PROVE RInv'
<1>1. /\ lease = Free /\ KeysStay /\ UNCHANGED <<metadata, cached>> /\ UNCHANGED <<db, loft>>
      /\ signed' = signed /\ job' = job
      /\ lease' = [Free EXCEPT !.by = p, !.goal = "open", !.at = "recover"]
  BY DEF OpenHome, Open, files, KeysStay
<1>2. lease'.at = "recover" /\ lease'.goal = "open"
  BY <1>1 DEF Free
<1>3. JobMove(p, job[p]) /\ JobKnown(job[p])
  BY <1>1, JobStays, JobIsKnown DEF RInv
<1>4. job[p].src = NoRecord
  BY <1>1, SourceHolder DEF RInv
<1> QED BY <1>1, <1>2, <1>3, <1>4, LockTaken

LEMMA AcquireForm ==
    ASSUME NEW p, Acquire(p)
    PROVE  /\ lease = Free /\ lease'.at = "recover" /\ lease'.goal # "rotate" /\ KeysStay
           /\ metadata' = metadata /\ cached' = cached /\ signed' = signed
<1>1. lease' = [Free EXCEPT !.by = p, !.goal = "use", !.at = "recover"]
  BY DEF Acquire
<1>2. lease'.at = "recover" /\ lease'.goal = "use"
  BY <1>1 DEF Free
<1> QED BY <1>2 DEF Acquire, KeysStay, files

LEMMA AcquireRecords == ASSUME KInv, RInv, NEW p \in Proc, AcquireLease(p) PROVE RInv'
<1>1. /\ Acquire(p) /\ Advance(p) /\ UNCHANGED <<db, loft>>
      /\ job[p].phases # <<>> /\ Head(job[p].phases) = "lease"
  BY DEF AcquireLease, Doing
<1>2. JobMove(p, job[p]) /\ job[p].src = NoRecord /\ JobKnown(job[p])
  BY <1>1, AcquireForm, AdvanceForm DEF RInv, AttemptPhases
<1> QED BY <1>1, <1>2, AcquireForm, LockTaken

\* A process ends its work.
LEMMA QuitRecords == ASSUME KInv, RInv, NEW p \in Proc, Quit(p) PROVE RInv'
<1>1. AInv /\ DataInv /\ SourceInv /\ RecordsInv
  BY DEF RInv
<1>2. /\ KeysStay /\ UNCHANGED <<metadata, retired, lease>> /\ UNCHANGED <<db, loft>> /\ job' = job
      /\ signed' = signed /\ plan' = plan /\ recordSeq' = recordSeq
      /\ UNCHANGED <<operating, successor, journal>>
  BY DEF Quit, Close, files, KeysStay, db
<1>3. cached \in [Proc -> Nat]
  BY DEF KInv, KeysInv, FilesType
<1>4. /\ \A q \in Proc : cached'[q] \in {cached[q], NoKey}
      /\ cached'[lease.by] = cached[lease.by]
  <2>1. lease.by # p /\ cached' = [cached EXCEPT ![p] = NoKey]
    BY DEF Quit, Close
  <2> QED BY <1>3, <2>1
<1>5. KeysMove /\ recordSeq \in Nat
  BY <1>1, <1>2 DEF KeysMove, AInv, NumbersInv
<1>6. AInv'
  BY <1>1, <1>2, <1>4, <1>5, LockNumbers
<1>7. JobMove(p, job[p]) /\ JobKnown(job[p])
  BY <1>1, <1>2, JobStays, JobIsKnown
<1>8. LoftsGrow({})
  BY <1>1, <1>2, LoftsStay
<1>9. lease.goal = "rotate" => lease.by \in Proc
  BY DEF KInv, KeysInv, LeaseType, Free
<1>10. At("leased")' = At("leased") /\ At("recover")' = At("recover") /\ AtWork' = AtWork
  BY <1>2 DEF At, AtWork
<1>11. lease.goal = "rotate" => ~At("recover")
  BY <1>1, <1>9, SourceHolder DEF SourceInv, At, KInv, LeaseInv
<1>12. SourceInv' /\ AcceptedInv'
  BY <1>2, <1>8, <1>10, <1>11, SourceKept
<1> QED BY <1>2, <1>5, <1>6, <1>7, <1>12, FilesKept

\* The holder in a phase without a source record.
LEMMA NobodyElse ==
    ASSUME KInv, RInv, NEW p \in Proc, lease.by = p \/ lease = Free \/ lease.goal = "open",
           NEW j, JobMove(p, j), job[p].src = NoRecord, j.src = NoRecord
    PROVE  \A q \in Proc : job'[q].src = NoRecord
BY SourceHolder DEF RInv, JobMove, Less

LEMMA ReleaseRecords == ASSUME KInv, RInv, NEW p \in Proc, ReleaseLease(p) PROVE RInv'
<1>1. /\ lease.by = p /\ lease' = Free /\ KeysStay /\ metadata' = metadata /\ cached' = cached
      /\ signed' = signed /\ Advance(p) /\ UNCHANGED <<db, loft>>
      /\ job[p].phases # <<>> /\ Head(job[p].phases) = "release"
  BY DEF ReleaseLease, Release, Fail, Doing, files, KeysStay
<1>2. AInv /\ DataInv
  BY DEF RInv
<1>3. JobMove(p, job[p]) /\ job[p].src = NoRecord /\ JobKnown(job[p])
  BY <1>1, <1>2, AdvanceForm DEF AttemptPhases
<1>4. KeysMove /\ recordSeq \in Nat /\ recordSeq' = recordSeq
  BY <1>1, <1>2 DEF KeysMove, AInv, NumbersInv, db
<1>5. AInv'
  BY <1>1, <1>2, <1>4, LockNumbers
<1>6. SourceInv' /\ AcceptedInv'
  BY <1>1, <1>3, NobodyElse, NoSource DEF Free
<1> QED BY <1>1, <1>3, <1>4, <1>5, <1>6, FilesKept

LEMMA ListRecords == ASSUME KInv, RInv, NEW p \in Proc, List(p) PROVE RInv'
<1>1. /\ lease.by = p /\ At("leased") /\ GoScan /\ KeysStay
      /\ UNCHANGED <<metadata, retired, cached>> /\ signed' = signed
      /\ Advance(p) /\ UNCHANGED <<db, loft>>
      /\ job[p].phases # <<>> /\ Head(job[p].phases) = "list"
  BY DEF List, Holds, ListRetired, Doing, files, KeysStay
<1>2. AInv /\ DataInv
  BY DEF RInv
<1>3. JobMove(p, job[p]) /\ job[p].src = NoRecord /\ JobKnown(job[p])
  BY <1>1, <1>2, AdvanceForm DEF AttemptPhases
<1>4. KeysMove /\ recordSeq \in Nat /\ recordSeq' = recordSeq
  BY <1>1, <1>2 DEF KeysMove, AInv, NumbersInv, db
<1>5. lease.at = "leased" /\ lease.goal = "use"
  BY <1>1 DEF At, KInv, LeaseInv
<1>6. lease'.by = lease.by /\ lease'.goal = lease.goal /\ lease'.at = "scan" /\ lease'.time = now
  BY <1>1, <1>5, HolderForm DEF GoScan
<1>7. AInv'
  BY <1>1, <1>2, <1>4, <1>5, <1>6, ListNumbers
<1>8. SourceInv' /\ AcceptedInv'
  BY <1>1, <1>3, <1>5, <1>6, NobodyElse, NoSource
<1> QED BY <1>1, <1>3, <1>4, <1>7, <1>8, FilesKept

\* A task changes nothing but the tables.
LEMMA TablesKept ==
    ASSUME KInv, RInv, UNCHANGED <<keyVars, recordSeq, plan, loft>>, terms' \in Nat,
           NEW X, OwnMove(X), X \subseteq JobRotations,
           NEW p \in Proc, NEW j, JobMove(p, j), JobKnown(j), j.src = job[p].src
    PROVE  RInv'
<1>1. AInv /\ DataInv /\ RecordsInv /\ CompletedIsStored
  BY DEF RInv
<1>2. signed' = signed /\ plan' = plan /\ loft' = loft
  BY DEF keyVars
<1>3. LoftsGrow({})
  BY <1>1, <1>2, LoftsStay
<1>4. PlanKept /\ OwnKept
  BY <1>1, <1>2, <1>3, PlanStays, OwnMoveKept
<1>5. OwnRotations' \subseteq OwnRotations \cup JobRotations \cup {NoJournal}
  BY OwnRotationsMove
<1>6. plan'.rec \in Records \cup {NoRecord}
  BY <1>2, RecordsAre
<1> QED BY <1>2, <1>3, <1>4, <1>5, <1>6, QuietKept

LEMMA StartRecords == ASSUME KInv, RInv, NEW p \in Proc, Start(p) PROVE RInv'
<1>1. DataInv /\ job[p] = Idle /\ Idle.src = NoRecord
  BY IdleForm DEF RInv, Start
<1>2. CASE Acquire(p) /\ (\E t \in {DrainTask, MaintainTask, PublishTask} :
               Become(p, [Idle EXCEPT !.phases = Tail(t)])) /\ UNCHANGED <<db, loft>>
  <2>1. PICK t \in {DrainTask, MaintainTask, PublishTask} : Become(p, [Idle EXCEPT !.phases = Tail(t)])
    BY <1>2
  <2>2. JobOK([Idle EXCEPT !.phases = Tail(t)], signed)
    BY SimpleTaskOK
  <2>3. PICK j : JobMove(p, j) /\ Fresh(j)
    BY <1>1, <1>2, <2>1, <2>2, AcquireForm, FreshForm
  <2> QED BY <1>2, <2>3, AcquireForm, FreshIsKnown, LockTaken DEF Fresh
<1>3. CASE own' = Pruned /\ Become(p, [Idle EXCEPT !.phases = Tail(RotateTask)])
           /\ UNCHANGED <<keyVars, recordSeq, terms, plan, loft>>
  <2>1. JobOK([Idle EXCEPT !.phases = Tail(RotateTask)], signed)
    BY SimpleTaskOK
  <2>2. signed' = signed /\ terms' \in Nat
    BY <1>1, <1>3 DEF keyVars, DataInv
  <2>3. PICK j : JobMove(p, j) /\ Fresh(j)
    BY <1>1, <1>3, <2>1, <2>2, FreshForm
  <2>4. OwnMove({})
    BY <1>1, <1>3, PruneMove
  <2> QED BY <1>1, <1>3, <2>2, <2>3, <2>4, FreshIsKnown, TablesKept DEF Fresh
<1> QED BY <1>2, <1>3 DEF Start, db

\* Settings and rows of own_rotations.
LEMMA RowRecords ==
    ASSUME KInv, RInv, NEW p \in Proc, Prune(p) \/ ChangeTerms(p) \/ SyncTargets(p)
    PROVE  RInv'
<1>1. DataInv /\ terms \in Nat
  BY DEF RInv, DataInv
<1>2. /\ UNCHANGED <<keyVars, recordSeq, plan, loft>> /\ signed' = signed /\ Advance(p)
      /\ job[p].phases # <<>> /\ Head(job[p].phases) \in {"prune", "terms", "sync"}
  BY DEF Prune, ChangeTerms, SyncTargets, Doing, keyVars
<1>3. terms' \in Nat
  BY <1>1, KeyStoreAssumption DEF Prune, ChangeTerms, SyncTargets
<1>4. OwnMove({})
  BY <1>1, OwnStays, PruneMove, SyncMove DEF Prune, ChangeTerms, SyncTargets
<1>5. JobMove(p, job[p]) /\ JobKnown(job[p])
  BY <1>1, <1>2, AdvanceForm DEF AttemptPhases
<1> QED BY <1>2, <1>3, <1>4, <1>5, TablesKept

\* The rotation that a task goes on with.
LEMMA FinishingForm ==
    ASSUME DataInv, NEW p \in Proc, job[p].phases # <<>>,
           Head(job[p].phases) \in FinishingPhases
    PROVE  job[p].rot \in signed /\ job[p].rot \in JobRotations /\ job[p].rot # NoJournal
<1>1. job[p] \in JobType(signed) /\ PhasesOK(job[p])
  BY DEF DataInv, JobOK
<1>2. job[p].phases \in Seq(Phase) /\ job[p].rot \in signed \cup {NoJournal}
  BY <1>1 DEF JobType
<1>3. 1 \in 1 .. Len(job[p].phases) /\ Head(job[p].phases) = job[p].phases[1]
  BY <1>2
<1>4. job[p].rot # NoJournal
  BY <1>1, <1>3 DEF PhasesOK
<1> QED BY <1>2, <1>4 DEF JobRotations

LEMMA SaveOwnRecords ==
    ASSUME KInv, RInv, NEW p \in Proc, SaveOwn(p) \/ SaveTargets(p)
    PROVE  RInv'
<1>1. AInv /\ DataInv /\ terms \in Nat
  BY DEF RInv, DataInv
<1>2. /\ UNCHANGED <<keyVars, recordSeq, plan, loft>> /\ signed' = signed /\ Advance(p)
      /\ terms' = terms
      /\ job[p].phases # <<>> /\ Head(job[p].phases) \in {"own", "targets"}
  BY DEF SaveOwn, SaveTargets, Doing, keyVars
<1>3. job[p].rot \in signed /\ job[p].rot \in JobRotations
  BY <1>1, <1>2, FinishingForm DEF FinishingPhases
<1>4. JobMove(p, job[p]) /\ JobKnown(job[p])
  BY <1>1, <1>2, AdvanceForm DEF AttemptPhases
<1>5. CASE SaveOwn(p)
  <2>1. OwnMove({job[p].rot})
    BY <1>1, <1>3, <1>5, WithOwnMove DEF SaveOwn
  <2> QED BY <1>1, <1>2, <1>3, <1>4, <2>1, TablesKept
<1>6. CASE SaveTargets(p)
  <2>1. job[p].rot.from \in Key
    BY <1>1, <1>3, SignedForm
  <2>2. OwnMove({})
    BY <1>1, <1>6, <2>1, TargetsMove DEF SaveTargets
  <2> QED BY <1>1, <1>2, <1>4, <2>2, TablesKept
<1> QED BY <1>5, <1>6

LEMMA SaveTargetRecords == ASSUME KInv, RInv, NEW p \in Proc, SaveTarget(p) PROVE RInv'
<1>1. AInv /\ DataInv /\ RecordsInv /\ CompletedIsStored /\ terms \in Nat
  BY DEF RInv, DataInv
<1> DEFINE x == job[p].rot
<1>2. /\ UNCHANGED <<keyVars, recordSeq>> /\ signed' = signed /\ Advance(p)
      /\ terms' = terms /\ own' = own /\ loft' = loft /\ SavePlan(TargetOf(x))
      /\ job[p].phases # <<>> /\ Head(job[p].phases) = "replan"
  BY DEF SaveTarget, Doing, keyVars
<1>3. x \in signed /\ x \in JobRotations /\ x # NoJournal
  BY <1>1, <1>2, FinishingForm DEF FinishingPhases
<1>4. JobMove(p, job[p]) /\ JobKnown(job[p])
  BY <1>1, <1>2, AdvanceForm DEF AttemptPhases
<1> HIDE DEF x
<1>5. LoftsGrow({})
  BY <1>1, <1>2, LoftsStay
<1>6. TargetOf(x) \in RecordType /\ TargetOf(x) # NoRecord
  BY <1>1, <1>3, SignedForm
<1>7. PlanKept /\ plan'.rec = TargetOf(x)
  BY <1>1, <1>2, <1>5, <1>6, SavePlanKept
<1>8. plan'.rec \in Records \cup {NoRecord}
  BY <1>3, <1>7, RecordsAre DEF Known
<1>9. OwnKept /\ OwnRotations' \subseteq OwnRotations \cup JobRotations \cup {NoJournal}
  BY <1>1, <1>2, <1>5, OwnStays, OwnMoveKept DEF OwnRotations
<1> QED BY <1>1, <1>2, <1>3, <1>4, <1>5, <1>7, <1>8, <1>9, QuietKept

\* A task goes on, and nothing else happens.
LEMMA WorkKept ==
    ASSUME KInv, RInv, UNCHANGED <<keyVars, db, loft>>,
           NEW p \in Proc, NEW j, JobMove(p, j), JobKnown(j), j.src = job[p].src
    PROVE  RInv'
<1>1. DataInv /\ UNCHANGED <<keyVars, recordSeq, plan, loft>> /\ terms' \in Nat /\ own' = own
  BY DEF RInv, DataInv, db
<1>2. OwnMove({})
  BY <1>1, OwnStays
<1> QED BY <1>1, <1>2, TablesKept

LEMMA StartAttemptsRecords == ASSUME KInv, RInv, NEW p \in Proc, StartAttempts(p) PROVE RInv'
<1>1. AInv /\ DataInv /\ JobOK(job[p], signed)
  BY DEF RInv, DataInv
<1> DEFINE left == IF Doing(p, "records")
                     THEN {<<NoJournal, l>> : l \in {m \in Loft \ plan.done : plan # NoPlan}}
                     ELSE UNION {{own[k].rot} \X own[k].todo : k \in Key}
           j == With([job[p] EXCEPT !.running = TRUE, !.rec = plan.rec], left)
<1>2. /\ UNCHANGED <<keyVars, db, loft>> /\ signed' = signed /\ Become(p, j)
      /\ job[p].phases # <<>>
      /\ Head(job[p].phases) \in AttemptPhases
      /\ Doing(p, "records") <=> Head(job[p].phases) = "records"
  BY DEF StartAttempts, Doing, keyVars, AttemptPhases
<1>3. plan.rec \in RecordType /\ (plan # NoPlan => plan.rec # NoRecord)
  <2>1. plan \in PlanType /\ (plan.rec = NoRecord => plan.done = {})
    BY <1>1 DEF DataInv
  <2>2. plan = [rec |-> plan.rec, done |-> plan.done]
    BY <2>1 DEF PlanType
  <2> QED BY <2>1, <2>2 DEF PlanType, NoPlan
<1>4. \A k \in Key : own[k].todo # {} => /\ own[k].rot \in signed /\ own[k].rot # NoJournal
                                         /\ own[k].todo \subseteq Loft
  <2> SUFFICES ASSUME NEW k \in Key, own[k].todo # {}
               PROVE  own[k].rot \in signed /\ own[k].rot # NoJournal /\ own[k].todo \subseteq Loft
    OBVIOUS
  <2>1. own[k] # NoOwn
    BY DEF NoOwn
  <2> QED BY <1>1, <2>1, OwnForm, SignedForm
<1>5. \A a \in left : /\ a \in (signed \cup {NoJournal}) \X Loft
                      /\ a[1] \in OwnRotations \cup {NoJournal}
                      /\ IF Head(job[p].phases) = "rotations" THEN a[1] # NoJournal
                         ELSE a[1] = NoJournal /\ plan.rec # NoRecord
  <2>1. CASE Doing(p, "records")
    BY <1>2, <1>3, <2>1
  <2>2. CASE ~ Doing(p, "records")
    <3>1. Head(job[p].phases) = "rotations"
      BY <1>2, <2>2 DEF AttemptPhases
    <3>2. ASSUME NEW a \in left
          PROVE  a \in signed \X Loft /\ a[1] \in OwnRotations /\ a[1] # NoJournal
      <4>1. PICK k \in Key : a \in {own[k].rot} \X own[k].todo
        BY <2>2, <3>2
      <4>2. own[k].todo # {} /\ a[1] = own[k].rot /\ a \in {own[k].rot} \X own[k].todo
        BY <4>1
      <4> QED BY <1>4, <4>2 DEF OwnRotations
    <3> QED BY <3>1, <3>2
  <2> QED BY <2>1, <2>2
<1>6. left \subseteq (signed \cup {NoJournal}) \X Loft
  BY <1>5
<1> HIDE DEF left
<1>7. /\ JobOK(j, signed) /\ j.rot = job[p].rot /\ j.src = job[p].src
      /\ j.rec \in {plan.rec, NoRecord} /\ j.left \subseteq left
  <2>1. \A a \in left : IF Head(job[p].phases) = "rotations" THEN a[1] # NoJournal
                         ELSE a[1] = NoJournal /\ plan.rec # NoRecord
    BY <1>5
  <2>2. left \in SUBSET ((signed \cup {NoJournal}) \X Loft)
    BY <1>6
  <2>3. JobOK(job[p], signed) /\ job[p].phases # <<>> /\ Head(job[p].phases) \in AttemptPhases
        /\ plan.rec \in RecordType
    BY <1>1, <1>2, <1>3
  <2>4. j = Begun(job[p], plan.rec, left)
    BY Zenon DEF Begun
  <2> HIDE DEF j
  <2> QED BY <2>1, <2>2, <2>3, <2>4, BegunOK
<1> HIDE DEF j
<1>8. JobMove(p, j)
  BY <1>1, <1>2, <1>7, BecomeForm
<1>9. JobKnown(j)
  BY <1>5, <1>7, RecordsAre, JobIsKnown DEF JobKnown
<1> QED BY <1>2, <1>7, <1>8, <1>9, WorkKept

LEMMA DeadlineRecords == ASSUME KInv, RInv, NEW p \in Proc, Deadline(p) PROVE RInv'
<1>1. DataInv /\ JobOK(job[p], signed)
  BY DEF RInv, DataInv
<1> DEFINE j == [Finished(job[p]) EXCEPT !.phases =
                   IF Contains(@, "keys") THEN <<"keys">>
                   ELSE IF Contains(@, "release") THEN <<"release">> ELSE <<>>]
<1>2. UNCHANGED <<keyVars, db, loft>> /\ signed' = signed /\ Become(p, j) /\ job[p].running
  BY DEF Deadline, keyVars
<1>3. JobOK(j, signed) /\ Less(j, job[p])
  BY <1>1, <1>2, DeadlineOK
<1> HIDE DEF j
<1>4. JobMove(p, j)
  BY <1>1, <1>2, <1>3, BecomeForm
<1>5. JobMove(p, job[p]) /\ JobKnown(job[p])
  BY <1>3, <1>4, LessTwice, JobIsKnown DEF JobMove
<1> QED BY <1>2, <1>5, WorkKept

LEMMA ChooseRecords == ASSUME KInv, RInv, NEW p \in Proc, ChooseRotation(p) PROVE RInv'
<1>1. AInv /\ DataInv /\ JobOK(job[p], signed)
  BY DEF RInv, DataInv
<1>2. /\ UNCHANGED <<keyVars, db, loft>> /\ signed' = signed /\ job[p].phases # <<>>
      /\ Head(job[p].phases) = "choose"
  BY DEF ChooseRotation, Doing, keyVars
<1>3. job[p].src = NoRecord
  BY <1>1, <1>2, RestOK DEF AttemptPhases
<1>4. CASE Become(p, [Idle EXCEPT !.phases = RotateCurrentTask])
  <2>1. JobOK([Idle EXCEPT !.phases = RotateCurrentTask], signed)
    BY RotateTaskOK
  <2>2. PICK j : JobMove(p, j) /\ Fresh(j)
    BY <1>1, <1>2, <1>4, <2>1, FreshForm
  <2> QED BY <1>2, <1>3, <2>2, FreshIsKnown, WorkKept DEF Fresh
<1>5. CASE \E k \in OwnRows, t \in ResumeTasks :
             Become(p, [Idle EXCEPT !.phases = t, !.rot = own[k].rot])
  <2>1. PICK k \in OwnRows, t \in ResumeTasks :
             Become(p, [Idle EXCEPT !.phases = t, !.rot = own[k].rot])
    BY <1>5
  <2>2. own[k].rot \in signed /\ own[k].rot # NoJournal /\ own[k].rot \in OwnRotations
    BY <1>1, OwnForm, SignedForm DEF OwnRows, OwnRotations
  <2> DEFINE j == [Idle EXCEPT !.phases = t, !.rot = own[k].rot]
  <2>3. JobOK(j, signed)
    BY <2>2, FinishTaskOK
  <2>4. /\ j.rot = own[k].rot /\ j.src = NoRecord /\ j.rec = NoRecord /\ j.left = {}
    <3>1. j = [phases |-> t, rot |-> own[k].rot, src |-> Idle.src, running |-> Idle.running,
               rec |-> Idle.rec, left |-> Idle.left]
      BY IdleForm, JobWith
    <3> HIDE DEF j
    <3> QED BY <3>1, IdleForm
  <2>5. Become(p, j)
    BY <2>1
  <2> HIDE DEF j
  <2>6. JobMove(p, j) /\ JobKnown(j)
    BY <1>1, <1>2, <2>2, <2>3, <2>4, <2>5, BecomeForm DEF JobKnown
  <2> QED BY <1>2, <1>3, <2>4, <2>6, WorkKept
<1> QED BY <1>4, <1>5 DEF ChooseRotation
-----------------------------------------------------------------------------
(***************************************************************************)
(* Steps of the lofts.                                                     *)
(***************************************************************************)

\* An attempt that a task has left.
LEMMA AttemptForm ==
    ASSUME KInv, AInv, DataInv, RecordsInv, NEW p \in Proc, NEW a \in job[p].left
    PROVE  /\ a[2] \in Loft /\ job[p].running
           /\ job[p].phases # <<>> /\ Head(job[p].phases) \in AttemptPhases
           /\ Head(job[p].phases) = "rotations" =>
                /\ a[1] \in signed /\ a[1] \in Known
                /\ SourceOf(a[1]) \in Records /\ TargetOf(a[1]) \in Records
           /\ Head(job[p].phases) # "rotations" =>
                /\ a[1] = NoJournal /\ job[p].rec \in Records /\ job[p].rec # NoRecord
                /\ job[p].rec \in RecordType /\ job[p].rec.key \in Key
<1>1. JobOK(job[p], signed) /\ job[p] \in JobType(signed)
  BY DEF DataInv, JobOK
<1>2. a \in (signed \cup {NoJournal}) \X Loft
  BY <1>1 DEF JobType
<1>3. /\ job[p].running /\ job[p].phases # <<>> /\ Head(job[p].phases) \in AttemptPhases
      /\ IF Head(job[p].phases) = "rotations" THEN a[1] # NoJournal
         ELSE a[1] = NoJournal /\ job[p].rec # NoRecord
  BY <1>1 DEF JobOK
<1>4. a[1] \in JobRotations
  BY DEF JobRotations
<1>5. ASSUME Head(job[p].phases) = "rotations"
      PROVE  /\ a[1] \in signed /\ a[1] \in Known
             /\ SourceOf(a[1]) \in Records /\ TargetOf(a[1]) \in Records
  <2>1. a[1] \in signed /\ a[1] \in Known
    BY <1>2, <1>3, <1>4, <1>5 DEF Known
  <2> QED BY <2>1, SignedForm, RecordsAre
<1>6. ASSUME Head(job[p].phases) # "rotations"
      PROVE  /\ a[1] = NoJournal /\ job[p].rec \in Records /\ job[p].rec # NoRecord
             /\ job[p].rec \in RecordType /\ job[p].rec.key \in Key
  <2>1. a[1] = NoJournal /\ job[p].rec # NoRecord /\ job[p].rec \in Records
    BY <1>3, <1>6, RecordsAre DEF JobRecords
  <2> QED BY <2>1, RecordForm DEF RecordsInv
<1> QED BY <1>2, <1>3, <1>5, <1>6

\* The attempt is over.
LEMMA TriedForm ==
    ASSUME DataInv, signed' = signed, NEW p \in Proc, job[p].running, NEW a, Tried(p, a)
    PROVE  JobMove(p, job[p]) /\ JobKnown(job[p])
<1> DEFINE j == With(job[p], job[p].left \ {a})
<1>1. JobOK(job[p], signed)
  BY DEF DataInv
<1>2. JobOK(j, signed) /\ Less(j, job[p])
  BY <1>1, TriedOK
<1>3. Become(p, j)
  BY DEF Tried
<1> HIDE DEF j
<1>4. JobMove(p, j)
  BY <1>2, <1>3, BecomeForm
<1> QED BY <1>2, <1>4, LessTwice, JobIsKnown DEF JobMove

LEMMA RecordPlacedRecords ==
    ASSUME KInv, RInv, NEW p \in Proc, NEW l \in Loft, RecordPlaced(p, l)
    PROVE  RInv'
<1>1. AInv /\ DataInv /\ RecordsInv /\ CompletedIsStored /\ terms \in Nat
  BY DEF RInv, DataInv
<1> DEFINE r == job[p].rec
<1>2. /\ UNCHANGED <<keyVars, recordSeq>> /\ signed' = signed /\ terms' = terms /\ own' = own
      /\ Head(job[p].phases) = "records" /\ job[p].running
      /\ <<NoJournal, l>> \in job[p].left /\ Tried(p, <<NoJournal, l>>)
      /\ TakesRecord(loft[l], r) /\ loft' = [loft EXCEPT ![l] = WithRecord(loft[l], r)]
      /\ PlanDone(r, l)
  BY DEF RecordPlaced, Doing, keyVars
<1>3. r \in Records /\ r # NoRecord /\ r \in RecordType /\ r.key \in Key
  BY <1>1, <1>2, AttemptForm
<1>4. JobMove(p, job[p]) /\ JobKnown(job[p])
  BY <1>1, <1>2, TriedForm
<1> HIDE DEF r
<1>5. loft \in [Loft -> LoftType(signed)]
  BY <1>1 DEF DataInv
<1>6. /\ WithRecord(loft[l], r) \in LoftType(signed)
      /\ Grown(loft[l], WithRecord(loft[l], r), {r})
      /\ WithRecord(loft[l], r).rec[r.key] = r
  BY <1>2, <1>3, <1>5, PutRecord
<1>7. LoftsGrow({r})
  BY <1>1, <1>2, <1>6, LoftMove
<1>8. loft'[l].rec[r.key] = r
  BY <1>2, <1>5, <1>6
<1>9. PlanKept /\ plan'.rec = plan.rec
  BY <1>1, <1>2, <1>3, <1>7, <1>8, PlanDoneKept
<1>10. OwnKept /\ OwnRotations' \subseteq OwnRotations \cup JobRotations \cup {NoJournal}
  BY <1>1, <1>2, <1>7, OwnStays, OwnMoveKept DEF OwnRotations
<1>11. plan'.rec \in Records \cup {NoRecord} /\ {r} \subseteq Records
  BY <1>3, <1>9, RecordsAre
<1> QED BY <1>1, <1>2, <1>4, <1>7, <1>9, <1>10, <1>11, QuietKept

LEMMA BundleGrows ==
    ASSUME KInv, AInv, DataInv, signed' = signed, NEW l \in Loft, NEW x \in signed,
           NEW M \in Bundle(loft[l], x).partial \cup Bundle(loft[l], x).complete,
           loft' = [loft EXCEPT ![l] = M]
    PROVE  /\ LoftsGrow({SourceOf(x), TargetOf(x)})
           /\ M \in Bundle(loft[l], x).complete =>
                loft'[l].rot[x.from] = x /\ loft'[l].rec[x.to] = TargetOf(x)
<1>1. loft \in [Loft -> LoftType(signed)] /\ loft[l] \in LoftType(signed)
  BY DEF DataInv
<1>2. /\ x.from \in Key /\ x.to \in Key /\ SourceOf(x) \in RecordType /\ TargetOf(x) \in RecordType
  BY SignedForm
<1>3. /\ M \in LoftType(signed) /\ Grown(loft[l], M, {SourceOf(x), TargetOf(x)})
      /\ M \in Bundle(loft[l], x).complete => M.rot[x.from] = x /\ M.rec[x.to] = TargetOf(x)
  BY <1>1, <1>2, BundleForm
<1>4. loft'[l] = M
  BY <1>1
<1> QED BY <1>3, <1>4, LoftMove

\* The row of the bundle is ticked off at the loft.
LEMMA TickedOff ==
    ASSUME KInv, AInv, DataInv, CompletedIsStored, NEW R, LoftsGrow(R), NEW x \in signed,
           NEW l \in Loft, l \in own[x.from].todo, loft'[l].rot[x.from] = x,
           own' = [own EXCEPT ![x.from] =
                         [own[x.from] EXCEPT !.todo = @ \ {l}, !.done = @ \cup {l}]]
    PROVE  OwnKept /\ OwnRotations' \subseteq OwnRotations
<1> DEFINE k == x.from
           o == own[k]
           i == [o EXCEPT !.todo = @ \ {l}, !.done = @ \cup {l}]
<1>1. k \in Key /\ o # NoOwn
  BY SignedForm DEF NoOwn
<1>2. /\ o \in [rot : signed, todo : SUBSET Loft, done : SUBSET Loft]
      /\ o.rot \in signed /\ o.rot.from = k /\ o.todo \subseteq Loft /\ o.done \subseteq Loft
  BY <1>1, OwnForm
<1>3. o.rot = x
  BY <1>2 DEF KInv, KeysInv, OneSuccessor
<1>4. i = [rot |-> o.rot, todo |-> o.todo \ {l}, done |-> o.done \cup {l}]
  <2> HIDE DEF o
  <2> DEFINE h == [o EXCEPT !.todo = o.todo \ {l}]
  <2>1. h = [rot |-> o.rot, todo |-> o.todo \ {l}, done |-> o.done]
    BY <1>2
  <2>2. i = [h EXCEPT !.done = o.done \cup {l}]
    BY <1>2
  <2> HIDE DEF h
  <2> QED BY <2>1, <2>2
<1>5. DOMAIN own = Key
  BY DEF DataInv
<1>6. DOMAIN own' = Key /\ own'[k] = i /\ \A m \in Key \ {k} : own'[m] = own[m]
  BY <1>1, <1>5
<1>7. i \in [rot : signed, todo : SUBSET Loft, done : SUBSET Loft] /\ i.rot = x
      /\ i.done = o.done \cup {l}
  <2> HIDE DEF i
  <2> QED BY <1>2, <1>3, <1>4
<1>8. \A m \in o.done : loft'[m].rot[k] = x
  BY <1>1, <1>3, OwnNumbers
<1> HIDE DEF i, o
<1>9. OwnOK(own'[k], k, signed) /\ \A m \in own'[k].done : loft'[m].rot[k] = own'[k].rot
  BY <1>6, <1>7, <1>8 DEF OwnOK
<1>10. ASSUME NEW m \in Key, m # k
       PROVE  /\ OwnOK(own'[m], m, signed)
              /\ own'[m] # NoOwn => \A n \in own'[m].done : loft'[n].rot[m] = own'[m].rot
  BY <1>6, <1>10, OwnNumbers DEF DataInv
<1>11. OwnKept
  <2>1. \A m \in Key : /\ OwnOK(own'[m], m, signed)
                       /\ own'[m] # NoOwn => \A n \in own'[m].done : loft'[n].rot[m] = own'[m].rot
    BY <1>9, <1>10
  <2> QED BY <1>6, <2>1 DEF OwnKept
<1>12. OwnRotations' \subseteq OwnRotations
  BY <1>1, <1>3, <1>6, <1>7 DEF OwnRotations, o
<1> QED BY <1>11, <1>12

LEMMA RotationPlacedRecords ==
    ASSUME KInv, RInv, NEW p \in Proc, NEW l \in Loft, NEW x, RotationPlaced(p, x, l)
    PROVE  RInv'
<1>1. AInv /\ DataInv /\ RecordsInv /\ CompletedIsStored /\ terms \in Nat
  BY DEF RInv, DataInv
<1>2. /\ UNCHANGED <<keyVars, recordSeq>> /\ signed' = signed /\ terms' = terms
      /\ Head(job[p].phases) = "rotations" /\ job[p].running
      /\ <<x, l>> \in job[p].left /\ Tried(p, <<x, l>>)
      /\ PlanDone(TargetOf(x), l)
      /\ own' = IF l \in own[x.from].todo
                  THEN [own EXCEPT ![x.from] =
                         [own[x.from] EXCEPT !.todo = @ \ {l}, !.done = @ \cup {l}]]
                  ELSE own
  BY DEF RotationPlaced, Doing, keyVars
<1>3. PICK M \in Bundle(loft[l], x).complete : loft' = [loft EXCEPT ![l] = M]
  BY DEF RotationPlaced
<1>4. x \in signed /\ SourceOf(x) \in Records /\ TargetOf(x) \in Records
  BY <1>1, <1>2, AttemptForm
<1>5. JobMove(p, job[p]) /\ JobKnown(job[p])
  BY <1>1, <1>2, TriedForm
<1>6. LoftsGrow({SourceOf(x), TargetOf(x)})
      /\ loft'[l].rot[x.from] = x /\ loft'[l].rec[x.to] = TargetOf(x)
  BY <1>1, <1>2, <1>3, <1>4, BundleGrows
<1>7. TargetOf(x) \in RecordType /\ TargetOf(x) # NoRecord /\ TargetOf(x).key = x.to
  <2>1. TargetOf(x).key = x.to
    BY DEF TargetOf
  <2> QED BY <1>1, <1>4, <2>1, SignedForm
<1>8. PlanKept /\ plan'.rec = plan.rec
  BY <1>1, <1>2, <1>6, <1>7, PlanDoneKept
<1>9. OwnKept /\ OwnRotations' \subseteq OwnRotations \cup JobRotations \cup {NoJournal}
  <2>1. CASE l \in own[x.from].todo
    BY <1>1, <1>2, <1>4, <1>6, <2>1, TickedOff
  <2>2. CASE l \notin own[x.from].todo
    BY <1>1, <1>2, <1>6, <2>2, OwnStays, OwnMoveKept DEF OwnRotations
  <2> QED BY <2>1, <2>2
<1>10. plan'.rec \in Records \cup {NoRecord} /\ {SourceOf(x), TargetOf(x)} \subseteq Records
  BY <1>4, <1>8, RecordsAre
<1> QED BY <1>1, <1>2, <1>5, <1>6, <1>8, <1>9, <1>10, QuietKept

LEMMA AttemptFailsRecords == ASSUME KInv, RInv, NEW p \in Proc, AttemptFails(p) PROVE RInv'
<1>1. AInv /\ DataInv /\ RecordsInv /\ CompletedIsStored /\ terms \in Nat
  BY DEF RInv, DataInv
<1>2. /\ UNCHANGED <<keyVars, recordSeq>> /\ signed' = signed /\ terms' = terms /\ own' = own
      /\ plan' = plan /\ job[p].running
  BY DEF AttemptFails, keyVars, db
<1>3. PICK a \in job[p].left :
         /\ \E L \in IF Doing(p, "rotations") THEN Bundle(loft[a[2]], a[1]).partial
                     ELSE {loft[a[2]]} \cup
                          IF TakesRecord(loft[a[2]], job[p].rec)
                            THEN {WithRecord(loft[a[2]], job[p].rec)} ELSE {} :
              loft' = [loft EXCEPT ![a[2]] = L]
         /\ Tried(p, a)
  BY DEF AttemptFails
<1>4. JobMove(p, job[p]) /\ JobKnown(job[p])
  BY <1>1, <1>2, <1>3, TriedForm
<1>5. loft \in [Loft -> LoftType(signed)] /\ a[2] \in Loft /\ loft[a[2]] \in LoftType(signed)
      /\ job[p].phases # <<>>
  BY <1>1, AttemptForm DEF DataInv
<1>6. \E R : R \subseteq Records /\ LoftsGrow(R)
  <2>1. CASE Doing(p, "rotations")
    <3>1. a[1] \in signed /\ {SourceOf(a[1]), TargetOf(a[1])} \subseteq Records
      BY <1>1, <2>1, AttemptForm DEF Doing
    <3>2. PICK L \in Bundle(loft[a[2]], a[1]).partial : loft' = [loft EXCEPT ![a[2]] = L]
      BY <1>3, <2>1
    <3>3. LoftsGrow({SourceOf(a[1]), TargetOf(a[1])})
      BY <1>1, <1>2, <1>5, <3>1, <3>2, BundleGrows
    <3> QED BY <3>1, <3>3
  <2>2. CASE ~ Doing(p, "rotations")
    <3>1. /\ job[p].rec \in Records /\ job[p].rec \in RecordType /\ job[p].rec.key \in Key
      BY <1>1, <1>5, <2>2, AttemptForm DEF Doing
    <3>2. PICK L : /\ loft' = [loft EXCEPT ![a[2]] = L]
                   /\ \/ L = loft[a[2]]
                      \/ /\ TakesRecord(loft[a[2]], job[p].rec)
                         /\ L = WithRecord(loft[a[2]], job[p].rec)
      BY <1>3, <2>2
    <3>3. L \in LoftType(signed) /\ Grown(loft[a[2]], L, {job[p].rec})
      <4>1. CASE L = loft[a[2]]
        BY <1>5, <4>1, GrownNot
      <4>2. CASE TakesRecord(loft[a[2]], job[p].rec) /\ L = WithRecord(loft[a[2]], job[p].rec)
        BY <1>5, <3>1, <4>2, PutRecord
      <4> QED BY <3>2, <4>1, <4>2
    <3>4. LoftsGrow({job[p].rec})
      BY <1>1, <1>2, <1>5, <3>2, <3>3, LoftMove
    <3> QED BY <3>1, <3>4
  <2> QED BY <2>1, <2>2
<1>7. PICK R : R \subseteq Records /\ LoftsGrow(R)
  BY <1>6
<1>8. PlanKept /\ OwnKept
  BY <1>1, <1>2, <1>7, PlanStays, OwnStays, OwnMoveKept
<1>9. OwnRotations' = OwnRotations /\ plan'.rec \in Records \cup {NoRecord}
  BY <1>2, RecordsAre DEF OwnRotations
<1> QED BY <1>1, <1>2, <1>4, <1>7, <1>8, <1>9, QuietKept
-----------------------------------------------------------------------------
(***************************************************************************)
(* Steps that draw a number or bring a target record to light.             *)
(***************************************************************************)

\* The holder works with the operating key, which has no number outstanding.
LEMMA HoldsForm ==
    ASSUME KInv, AInv, NEW p \in Proc, lease.by = p, lease.at \in {"leased", "listed"}
    PROVE  /\ journal = NoJournal /\ operating # NoKey /\ cached[p] = operating
           /\ lease.goal = "use" /\ AtWork
           /\ \A m \in metadata : m.seq <= recordSeq
<1>1. journal = NoJournal /\ lease.goal = "use" /\ AtWork
  BY DEF KInv, LeaseInv, Resolved, AtWork, At
<1>2. operating # NoKey
  BY <1>1, LeasedHasKey
<1>3. cached[p] = operating
  BY <1>1 DEF AInv, LeasedInv
<1>4. \A m \in metadata : m.seq <= recordSeq
  BY <1>3 DEF AInv, NumbersInv
<1> QED BY <1>1, <1>2, <1>3, <1>4

\* A record of the operating key is planned, an old one or a new one.
LEMMA RecordPlanned ==
    ASSUME KInv, RInv, NEW p \in Proc, Holds(p), UNCHANGED <<keyVars, loft, terms, own>>,
           NEW r, r \in Records \/ r = NewRecord, TakesNumber(r), SavePlan(r),
           NEW j, JobMove(p, j), j.rec \in Records \cup {NoRecord},
           j.src \in {r, NoRecord}, j.rot \in JobRotations, \A a \in j.left : a[1] \in JobRotations,
           SourceInv', AcceptedInv'
    PROVE  RInv'
<1>1. AInv /\ DataInv /\ RecordsInv /\ CompletedIsStored /\ recordSeq \in Nat /\ terms \in Nat
  BY DEF RInv, DataInv, AInv, NumbersInv
<1>2. journal = NoJournal /\ operating # NoKey /\ cached[p] = operating
  BY <1>1, HoldsForm DEF Holds, At
<1>3. /\ KeysStay /\ KeysMove /\ UNCHANGED <<metadata, retired, lease, cached, signed>>
      /\ loft' = loft /\ terms' = terms /\ own' = own
  BY DEF keyVars, files, KeysStay, KeysMove
<1>4. LoftsGrow({})
  BY <1>1, <1>3, LoftsStay
<1>5. NewRecord \in RecordType /\ NewRecord # NoRecord /\ NewRecord.seq = recordSeq + 1
  <2>1. operating \in Nat /\ successor \in Nat
    BY DEF KInv, KeysInv, FilesType
  <2> QED BY <1>1, <1>2, <2>1 DEF NewRecord, RecordType, NoRecord
<1>6. r \in RecordType /\ r # NoRecord
  <2>1. \A q \in Records : q # NoRecord
    BY DEF Records
  <2> QED BY <1>1, <1>5, <2>1, RecordForm
<1>7. PlanKept /\ plan'.rec = r
  BY <1>1, <1>4, <1>6, SavePlanKept
<1>8. OwnKept /\ OwnRotations' = OwnRotations
  BY <1>1, <1>3, <1>4, OwnStays, OwnMoveKept DEF OwnRotations
<1>9. recordSeq' \in {recordSeq, recordSeq + 1} /\ (r = NewRecord => recordSeq' = recordSeq + 1)
  BY DEF TakesNumber
<1>10. AInv'
  BY <1>1, <1>3, <1>9, LockNumbers
<1>11. Records' \subseteq Records \cup {r}
  <2>1. Records' \subseteq Records \cup {r} \cup {TargetOf(x) : x \in {}}
    BY <1>1, <1>3, <1>4, <1>7, <1>8, RecordsGrow
  <2> QED BY <2>1
<1>12. RecordsInv'
  <2>1. CASE r \in Records
    BY <1>1, <1>3, <1>9, <1>11, <2>1, RecordForm, RecordsStay
  <2>2. CASE r = NewRecord
    BY <1>1, <1>2, <1>3, <1>9, <1>11, <2>2, RecordForm, RecordDrawn
  <2> QED BY <2>1, <2>2
<1> QED BY <1>1, <1>3, <1>4, <1>7, <1>8, <1>10, <1>12, StepKept

LEMMA PrepareRecords == ASSUME KInv, RInv, NEW p \in Proc, Prepare(p) PROVE RInv'
<1>1. AInv /\ DataInv
  BY DEF RInv
<1>2. /\ Holds(p) /\ Advance(p) /\ UNCHANGED <<keyVars, loft, terms, own>> /\ signed' = signed
      /\ lease' = lease /\ lease.by = p /\ lease.at = "leased"
      /\ job[p].phases # <<>> /\ Head(job[p].phases) = "prepare"
  BY DEF Prepare, Doing, Holds, At, keyVars
<1>3. PICK r \in Candidates : TakesNumber(r) /\ SavePlan(r)
  BY DEF Prepare
<1>4. JobMove(p, job[p]) /\ job[p].src = NoRecord /\ JobKnown(job[p])
  BY <1>1, <1>2, AdvanceForm DEF AttemptPhases
<1>5. lease.goal = "use" /\ operating # NoKey
  BY <1>1, <1>2, HoldsForm
<1>6. SourceInv' /\ AcceptedInv'
  BY <1>2, <1>4, <1>5, NobodyElse, NoSource
<1>7. r \in Records \/ r = NewRecord
  <2>1. \/ r = NewRecord
        \/ r = plan.rec /\ Fits(r)
        \/ r \in Recovered
    BY DEF Candidates
  <2>2. r = plan.rec /\ Fits(r) => r \in Records
    <3>1. Fits(r) => r # NoRecord
      BY <1>5 DEF Fits, NoRecord
    <3> QED BY <3>1, RecordsAre
  <2>3. r \in Recovered => r \in Records
    <3> SUFFICES ASSUME NEW k \in OwnRows, r = TargetOf(own[k].rot) PROVE r \in Records
      BY DEF Recovered
    <3>1. own[k].rot \in signed /\ own[k].rot # NoJournal /\ own[k].rot \in OwnRotations
          /\ TargetOf(own[k].rot) # NoRecord
      BY <1>1, OwnForm, SignedForm DEF OwnRows, OwnRotations
    <3>2. own[k].rot \in Known
      BY <3>1 DEF Known
    <3> QED BY <3>1, <3>2, RecordsAre
  <2> QED BY <2>1, <2>2, <2>3
<1>8. /\ job[p].rec \in Records \cup {NoRecord} /\ job[p].rot \in JobRotations
      /\ \A a \in job[p].left : a[1] \in JobRotations
  BY RecordsAre DEF JobRecords, JobRotations
<1> QED BY <1>2, <1>3, <1>4, <1>6, <1>7, <1>8, RecordPlanned

LEMMA SaveSourceRecords == ASSUME KInv, RInv, NEW p \in Proc, SaveSource(p) PROVE RInv'
<1>1. AInv /\ DataInv /\ SourceInv /\ JobOK(job[p], signed) /\ job[p] \in JobType(signed)
      /\ RecordsInv /\ recordSeq \in Nat /\ terms \in Nat
  BY DEF RInv, DataInv, JobOK, AInv, NumbersInv
<1> DEFINE r == IF Fits(plan.rec) THEN plan.rec ELSE NewRecord
           j == [[job[p] EXCEPT !.phases = Tail(@)] EXCEPT !.src = r]
<1>2. /\ Holds(p) /\ UNCHANGED <<keyVars, loft, terms, own>> /\ signed' = signed
      /\ TakesNumber(r) /\ SavePlan(r) /\ Become(p, j)
      /\ lease' = lease /\ lease.by = p /\ lease.at = "leased"
      /\ UNCHANGED <<operating, successor>>
      /\ job[p].phases # <<>> /\ Head(job[p].phases) = "source"
  BY DEF SaveSource, Doing, Holds, At, keyVars, files, Rest
<1>3. lease.goal = "use" /\ operating # NoKey
  BY <1>1, <1>2, HoldsForm
<1>4. r.key = operating /\ r.succ = successor
  BY DEF Fits, NewRecord
<1>5. r # NoRecord
  BY <1>3, <1>4 DEF NoRecord
<1>6. r \in Records \/ r = NewRecord
  BY <1>5, RecordsAre
<1>7. r \in RecordType
  <2>1. operating \in Nat /\ successor \in Nat
    BY DEF KInv, KeysInv, FilesType
  <2>2. NewRecord \in RecordType
    BY <1>1, <2>1 DEF NewRecord, RecordType
  <2> QED BY <1>1, <1>6, <2>2, RecordForm
<1> HIDE DEF r
<1>8. JobOK(j, signed)
  BY <1>1, <1>2, <1>5, <1>7, SourceOK
<1>9. j.rec = job[p].rec /\ j.src = r /\ j.rot = job[p].rot /\ j.left = job[p].left
  BY <1>1 DEF JobType
<1> HIDE DEF j
<1>10. JobMove(p, j)
  BY <1>1, <1>2, <1>8, BecomeForm
<1>11. job'[p].src = r /\ \A q \in Proc : q # p => job'[q].src = NoRecord
  BY <1>1, <1>2, <1>9, <1>10, SourceHolder DEF JobMove, Less
<1>12. plan'.rec = r
  BY <1>2 DEF SavePlan
<1>13. SourceInv'
  BY <1>2, <1>3, <1>4, <1>11, <1>12 DEF SourceInv, At
<1>14. AcceptedInv'
  BY <1>2, <1>3 DEF AcceptedInv
<1>15. /\ j.rec \in Records \cup {NoRecord} /\ j.rot \in JobRotations
       /\ \A a \in j.left : a[1] \in JobRotations
  BY <1>9, RecordsAre DEF JobRecords, JobRotations
<1> QED BY <1>2, <1>6, <1>9, <1>10, <1>13, <1>14, <1>15, RecordPlanned

\* Rotations listed in retired/ are kept in the database.
LEMMA RetiredTaken ==
    ASSUME KInv, RInv, AInv', KeysStay, metadata' = metadata, journal = NoJournal,
           UNCHANGED <<terms, plan, loft>>, NEW X \in SUBSET metadata, OwnMove(X),
           recordSeq' \in Nat, recordSeq' >= recordSeq, \A x \in X : x.seq <= recordSeq',
           NEW p \in Proc, NEW j, JobMove(p, j),
           j.rec \in Records \cup {NoRecord}, j.src \in Records \cup {NoRecord},
           j.rot \in OwnRotations \cup JobRotations \cup X \cup {NoJournal},
           \A a \in j.left : a[1] \in OwnRotations \cup JobRotations \cup X \cup {NoJournal},
           SourceInv', AcceptedInv'
    PROVE  RInv'
<1>1. AInv /\ DataInv /\ RecordsInv /\ CompletedIsStored
  BY DEF RInv
<1>2. signed' = signed /\ plan' = plan /\ loft' = loft /\ terms' \in Nat
  BY <1>1 DEF KeysStay, DataInv
<1>3. LoftsGrow({})
  BY <1>1, <1>2, LoftsStay
<1>4. PlanKept /\ OwnKept
  BY <1>1, <1>2, <1>3, PlanStays, OwnMoveKept
<1>5. OwnRotations' \subseteq OwnRotations \cup JobRotations \cup X \cup {NoJournal}
  BY OwnRotationsMove
<1>6. Records' \subseteq Records \cup {TargetOf(x) : x \in X}
  <2>1. Records' \subseteq Records \cup {} \cup {TargetOf(x) : x \in X}
    BY <1>1, <1>2, <1>3, <1>5, RecordsAre, RecordsGrow
  <2> QED BY <2>1
<1>7. RecordsInv'
  BY <1>1, <1>6, RecordForm, RecordsTaken
<1> QED BY <1>2, <1>3, <1>4, <1>7, StepKept

\* What retired/ lists was signed.
LEMMA RetiredForm ==
    ASSUME KInv
    PROVE  RetiredNow \subseteq metadata /\ metadata \subseteq signed
BY DEF RetiredNow, KInv, KeysInv, FilesType

LEMMA ReconcileRecords == ASSUME KInv, RInv, NEW p \in Proc, Reconcile(p) PROVE RInv'
<1>1. AInv /\ DataInv /\ NumbersInv /\ recordSeq \in Nat
  BY DEF RInv, AInv, NumbersInv
<1>2. /\ lease.by = p /\ lease.at = "listed" /\ GoTo("leased") /\ Advance(p)
      /\ KeysStay /\ UNCHANGED <<metadata, retired, cached>> /\ UNCHANGED <<terms, plan, loft>>
      /\ signed' = signed
      /\ job[p].phases # <<>> /\ Head(job[p].phases) \in {"reconcile", "drain"}
  BY DEF Reconcile, Doing, At, files, KeysStay
<1>3. PICK X \in SUBSET RetiredNow :
        own' = WithOwn(X) /\ recordSeq' \in {Raised(X), recordSeq}
  BY DEF Reconcile
<1>4. X \subseteq metadata /\ X \subseteq signed
  BY RetiredForm
<1>5. journal = NoJournal /\ lease.goal = "use" /\ \A m \in metadata : m.seq <= recordSeq
  BY <1>1, <1>2, HoldsForm
<1>6. recordSeq' \in Nat /\ recordSeq' >= recordSeq /\ \A x \in X : x.seq <= recordSeq'
  <2>1. /\ Raised(X) \in Nat /\ recordSeq <= Raised(X) /\ \A x \in X : x.seq <= Raised(X)
    BY <1>1, <1>4, RaisedForm
  <2> QED BY <1>1, <1>3, <1>4, <1>5, <2>1
<1>7. OwnMove(X)
  BY <1>1, <1>3, <1>4, WithOwnMove
<1>8. JobMove(p, job[p]) /\ job[p].src = NoRecord /\ JobKnown(job[p])
  BY <1>1, <1>2, AdvanceForm DEF AttemptPhases
<1>9. lease'.by = lease.by /\ lease'.goal = "use" /\ lease'.at = "leased"
  BY <1>2, <1>5, HolderForm DEF GoTo
<1>10. AInv'
  BY <1>1, <1>2, <1>6, <1>9, ListNumbers
<1>11. SourceInv' /\ AcceptedInv'
  BY <1>2, <1>8, <1>9, NobodyElse, NoSource
<1> QED BY <1>2, <1>4, <1>5, <1>6, <1>7, <1>8, <1>10, <1>11, RetiredTaken DEF JobKnown

LEMMA ReconcileRefusedRecords ==
    ASSUME KInv, RInv, NEW p \in Proc, ReconcileRefused(p)
    PROVE  RInv'
<1>1. AInv /\ DataInv /\ NumbersInv /\ recordSeq \in Nat /\ JobOK(job[p], signed)
  BY DEF RInv, AInv, NumbersInv, DataInv
<1>2. /\ lease.by = p /\ lease.at = "listed" /\ lease' = Free /\ Become(p, Idle)
      /\ KeysStay /\ UNCHANGED <<metadata, retired, cached>> /\ UNCHANGED <<terms, plan, loft>>
      /\ signed' = signed
      /\ job[p].phases # <<>> /\ Head(job[p].phases) \in {"reconcile", "drain"}
  BY DEF ReconcileRefused, Doing, At, files, KeysStay
<1>3. PICK X \in SUBSET RetiredNow, x \in RetiredNow :
        own' = WithOwn(X) /\ recordSeq' \in {Raised(X \cup {x}), recordSeq}
  BY DEF ReconcileRefused, KeptUntilFull
<1>4. X \subseteq metadata /\ X \subseteq signed /\ X \cup {x} \subseteq signed
  BY RetiredForm
<1>5. journal = NoJournal /\ \A m \in metadata : m.seq <= recordSeq
  BY <1>1, <1>2, HoldsForm
<1>6. recordSeq' \in Nat /\ recordSeq' >= recordSeq /\ \A y \in X : y.seq <= recordSeq'
  <2>1. /\ Raised(X \cup {x}) \in Nat /\ recordSeq <= Raised(X \cup {x})
        /\ \A y \in X \cup {x} : y.seq <= Raised(X \cup {x})
    BY <1>1, <1>4, RaisedForm
  <2>2. CASE recordSeq' = recordSeq
    BY <1>1, <1>4, <1>5, <2>2
  <2>3. CASE recordSeq' = Raised(X \cup {x})
    BY <2>1, <2>3
  <2> QED BY <1>3, <2>2, <2>3
<1>7. OwnMove(X)
  BY <1>1, <1>3, <1>4, WithOwnMove
<1>8. JobMove(p, Idle) /\ Fresh(Idle) /\ JobKnown(Idle)
  BY <1>1, <1>2, IdleOK, IdleForm, BecomeForm, FreshIsKnown DEF Fresh
<1>9. job[p].src = NoRecord /\ Idle.src = NoRecord
  BY <1>1, <1>2, <1>8, RestOK DEF AttemptPhases, Fresh
<1>10. AInv'
  BY <1>1, <1>2, <1>6, LockNumbers
<1>11. SourceInv' /\ AcceptedInv'
  BY <1>2, <1>8, <1>9, NobodyElse, NoSource DEF Free
<1> QED BY <1>2, <1>4, <1>5, <1>6, <1>7, <1>8, <1>10, <1>11, RetiredTaken DEF JobKnown

LEMMA AgentOpenedRecords ==
    ASSUME KInv, RInv, NEW p \in Proc, AgentOpened(p) \/ OpenRefused(p)
    PROVE  RInv'
<1>1. AInv /\ DataInv /\ NumbersInv /\ recordSeq \in Nat /\ LeasedInv
  BY DEF RInv, AInv, NumbersInv
<1>2. /\ lease.by = p /\ lease.at = "opened" /\ lease' = Free /\ job' = job
      /\ KeysStay /\ metadata' = metadata /\ UNCHANGED <<terms, plan, loft>> /\ signed' = signed
  BY DEF AgentOpened, OpenRefused, Opened, At, files, KeysStay
<1>3. journal = NoJournal /\ lease.goal = "open"
  BY <1>1, <1>2 DEF KInv, LeaseInv, Resolved, LeasedInv, At
<1>4. RetiredNow = metadata
  <2>1. /\ \A x \in signed : x.at <= lease.time
        /\ \A m \in metadata : m.from \in retired
    BY <1>1, <1>2 DEF LeasedInv, Noted
  <2>2. metadata \subseteq signed
    BY RetiredForm
  <2> QED BY <2>1, <2>2 DEF RetiredNow
<1>5. metadata \subseteq signed
  BY RetiredForm
<1>6. JobMove(p, job[p]) /\ JobKnown(job[p])
  BY <1>1, <1>2, JobStays, JobIsKnown
<1>7. job[p].src = NoRecord
  BY <1>3, SourceHolder DEF RInv
<1>8. SourceInv' /\ AcceptedInv'
  BY <1>2, <1>3, <1>6, <1>7, NobodyElse, NoSource DEF Free
<1>9. CASE AgentOpened(p)
  <2>1. /\ own' = WithOwn(metadata) /\ recordSeq' = Raised(metadata)
        /\ cached' = [cached EXCEPT ![p] = operating]
    BY <1>2, <1>4, <1>9 DEF AgentOpened, Opened
  <2>2. recordSeq' \in Nat /\ recordSeq' >= recordSeq /\ \A x \in metadata : x.seq <= recordSeq'
    BY <1>1, <1>5, <2>1, RaisedForm
  <2>3. OwnMove(metadata)
    BY <1>1, <1>5, <2>1, WithOwnMove
  <2>4. \A q \in Proc : cached'[q] \in {cached[q], operating}
    BY <2>1 DEF KInv, KeysInv, FilesType
  <2>5. AInv'
    BY <1>1, <1>2, <1>3, <2>2, <2>4, OpenNumbers
  <2> QED BY <1>2, <1>3, <1>6, <1>8, <2>2, <2>3, <2>5, RetiredTaken DEF JobKnown
<1>10. CASE OpenRefused(p)
  <2>1. PICK X \in SUBSET metadata, x \in metadata :
          own' = WithOwn(X) /\ recordSeq' = Raised(X \cup {x})
    BY <1>4, <1>10 DEF OpenRefused, KeptUntilFull
  <2>2. cached' = cached
    BY <1>10 DEF OpenRefused
  <2>3. recordSeq' \in Nat /\ recordSeq' >= recordSeq /\ \A y \in X : y.seq <= recordSeq'
    <3>1. X \cup {x} \subseteq signed
      BY <1>5
    <3> QED BY <1>1, <2>1, <3>1, RaisedForm
  <2>4. OwnMove(X)
    BY <1>1, <1>5, <2>1, WithOwnMove
  <2>5. AInv'
    BY <1>1, <1>2, <2>2, <2>3, LockNumbers
  <2> QED BY <1>2, <1>3, <1>6, <1>8, <2>3, <2>4, <2>5, RetiredTaken DEF JobKnown
<1> QED BY <1>9, <1>10

LEMMA KeysRotatedRecords == ASSUME KInv, RInv, NEW p \in Proc, KeysRotated(p) PROVE RInv'
<1>1. AInv /\ DataInv /\ NumbersInv /\ recordSeq \in Nat /\ LeasedInv /\ ChainInv /\ SourceInv
  BY DEF RInv, AInv, NumbersInv
<1> DEFINE x == CHOOSE m \in metadata : m.to = operating
           j == [Idle EXCEPT !.phases = AfterKeysTask, !.rot = x]
<1>2. /\ lease.by = p /\ At("rotated") /\ lease' = Free
      /\ cached' = [cached EXCEPT ![p] = operating]
      /\ KeysStay /\ metadata' = metadata /\ UNCHANGED <<terms, plan, loft>> /\ signed' = signed
      /\ own' = own /\ recordSeq' = Raised({x}) /\ Become(p, j)
  BY DEF KeysRotated, Rotated, files, KeysStay
<1>3. journal = NoJournal
  BY <1>2 DEF KInv, LeaseInv, Resolved, At
<1>4. x \in metadata /\ x.to = operating
  BY <1>1, <1>2 DEF LeasedInv
<1> HIDE DEF x
<1>5. metadata \subseteq signed /\ x \in signed
  BY <1>4, RetiredForm
<1>6. x # NoJournal
  BY <1>1, <1>5, SignedForm
<1>7. recordSeq' \in Nat /\ recordSeq' >= recordSeq /\ x.seq <= recordSeq'
  <2>1. {x} \subseteq signed
    BY <1>5
  <2> QED BY <1>1, <1>2, <2>1, RaisedForm
<1>8. \A m \in metadata : m.to = operating => m.seq <= recordSeq'
  BY <1>1, <1>4, <1>5, <1>7 DEF ChainInv
<1>9. \A q \in Proc : cached'[q] \in {cached[q], operating}
  BY <1>2 DEF KInv, KeysInv, FilesType
<1>10. AInv'
  BY <1>1, <1>2, <1>3, <1>7, <1>8, <1>9, OpenNumbers
<1>11. JobOK(j, signed)
  BY <1>5, <1>6, FinishTaskOK
<1>12. /\ j.rot = x /\ j.src = NoRecord /\ j.rec = NoRecord /\ j.left = {}
  <2>1. j = [phases |-> AfterKeysTask, rot |-> x, src |-> Idle.src, running |-> Idle.running,
             rec |-> Idle.rec, left |-> Idle.left]
    BY IdleForm, JobWith
  <2> HIDE DEF j
  <2> QED BY <2>1, IdleForm
<1> HIDE DEF j
<1>13. JobMove(p, j)
  BY <1>1, <1>2, <1>11, BecomeForm
<1>14. \A q \in Proc : job'[q].src = NoRecord
  BY <1>1, <1>2, <1>12, <1>13, SourceHolder DEF JobMove, Less
<1>15. SourceInv' /\ AcceptedInv'
  BY <1>2, <1>14, NoSource DEF Free
<1>16. OwnMove({x})
  BY <1>1, <1>2, OwnStays DEF OwnMove
<1>17. {x} \in SUBSET metadata /\ \A y \in {x} : y.seq <= recordSeq'
  BY <1>4, <1>7
<1> QED BY <1>2, <1>3, <1>7, <1>10, <1>12, <1>13, <1>15, <1>16, <1>17, RetiredTaken

-----------------------------------------------------------------------------
(***************************************************************************)
(* The rotation itself.                                                    *)
(***************************************************************************)

\* A planned record that some target has completed is at a loft.
LEMMA PlanAccepted ==
    ASSUME DataInv, CompletedIsStored, plan.done # {}, NEW r,
           plan.rec = r \/ \E y \in signed : plan.rec = TargetOf(y)
    PROVE  Accepted(r)
<1>1. PICK l \in plan.done : TRUE
  OBVIOUS
<1>2. l \in Loft /\ loft[l].rec[plan.rec.key].seq >= plan.rec.seq
  BY DEF DataInv, PlanType, CompletedIsStored
<1>3. \A y : TargetOf(y).key = y.to /\ TargetOf(y).seq = y.seq
  BY DEF TargetOf
<1> QED BY <1>2, <1>3 DEF Accepted

LEMMA PromoteKeysRecords == ASSUME KInv, RInv, NEW p \in Proc, PromoteKeys(p) PROVE RInv'
<1>1. AInv /\ DataInv /\ SourceInv /\ CompletedIsStored /\ PhasesOK(job[p])
      /\ job[p] \in JobType(signed)
  BY DEF RInv, DataInv, JobOK
<1>2. /\ lease.by = p /\ lease.at = "leased" /\ plan.done # {}
      /\ lease' = [lease EXCEPT !.goal = "rotate", !.at = "scan", !.time = now]
      /\ KeysStay /\ UNCHANGED <<metadata, retired, cached>> /\ signed' = signed
      /\ UNCHANGED <<db, loft>> /\ job' = job /\ plan' = plan /\ loft' = loft
      /\ UNCHANGED <<operating, successor>> /\ recordSeq' = recordSeq
      /\ job[p].phases # <<>> /\ Head(job[p].phases) = "keys"
  BY DEF PromoteKeys, BeginRotation, Doing, Holds, At, files, KeysStay, db
<1>3. AtWork /\ recordSeq \in Nat /\ KeysMove
  BY <1>1, <1>2, HoldsForm DEF AInv, NumbersInv, KeysMove
<1>4. lease'.by = p /\ lease'.goal = "rotate" /\ lease'.at = "scan" /\ lease'.time = now
  BY <1>2, HolderForm
<1>5. job[p].src # NoRecord
  <2>1. job[p].phases \in Seq(Phase)
    BY <1>1 DEF JobType
  <2>2. 1 \in 1 .. Len(job[p].phases) /\ job[p].phases[1] = "keys"
    BY <1>2, <2>1
  <2>3. RotateCurrentTask[1] = "lease" /\ Tail(RotateCurrentTask)[1] = "source"
    BY DEF RotateCurrentTask
  <2> QED BY <1>1, <2>2, <2>3 DEF PhasesOK
<1>6. /\ job[p].src.key = operating /\ job[p].src.succ = successor
      /\ plan.rec = job[p].src \/ \E y \in signed : plan.rec = TargetOf(y)
  BY <1>1, <1>3, <1>5 DEF SourceInv
<1>7. \A q \in Proc : q # p => job[q].src = NoRecord
  BY <1>1, <1>2, SourceHolder
<1>8. SourceInv'
  BY <1>2, <1>4, <1>5, <1>6, <1>7 DEF SourceInv, At
<1>9. Accepted(job[p].src)
  BY <1>1, <1>2, <1>6, PlanAccepted
<1>10. AcceptedInv'
  BY <1>2, <1>4, <1>9 DEF AcceptedInv, Accepted
<1>11. AInv'
  BY <1>1, <1>2, <1>3, <1>4, ListNumbers
<1>12. JobMove(p, job[p]) /\ JobKnown(job[p])
  BY <1>1, <1>2, JobStays, JobIsKnown
<1> QED BY <1>2, <1>3, <1>8, <1>10, <1>11, <1>12, FilesKept

LEMMA JournalRecords == ASSUME KInv, RInv, NEW p \in Proc, JournalRotation(p) PROVE RInv'
<1>1. AInv /\ DataInv /\ RecordsInv /\ SourceInv /\ AcceptedInv /\ CompletedIsStored
  BY DEF RInv
<1> DEFINE r == job[p].src
           x == [from |-> operating, to |-> successor, next |-> staged,
                 seq |-> r.seq + 1, at |-> lease.time, terms |-> r.terms]
<1>2. /\ lease.by = p /\ WriteJournal(r.seq, r.terms) /\ UNCHANGED <<db, loft>> /\ job' = job
      /\ recordSeq' = recordSeq /\ plan' = plan /\ own' = own /\ loft' = loft /\ terms' = terms
  BY DEF JournalRotation, db
<1>3. /\ lease.at = "journal" /\ journal' = x /\ signed' = signed \cup {x} /\ GoScan
      /\ metadata' = metadata
  BY <1>2 DEF WriteJournal, At
<1>4. lease.goal = "rotate" /\ AtWork
  BY <1>3 DEF KInv, LeaseInv, Resolved, AtWork, At
<1>5. r # NoRecord /\ r.key = operating /\ r.succ = successor
      /\ (plan.rec = r \/ \E y \in signed : plan.rec = TargetOf(y))
  BY <1>1, <1>2, <1>4 DEF SourceInv
<1>6. r \in Records /\ Accepted(r)
  BY <1>1, <1>2, <1>4, <1>5, RecordsAre DEF JobRecords, AcceptedInv
<1>7. r \in RecordType /\ r.seq \in Nat /\ 0 < r.seq /\ r.seq <= recordSeq /\ r.terms \in Nat
  BY <1>1, <1>6, RecordForm DEF RecordsInv, RecordType
<1> HIDE DEF r
<1>8. x.from = operating /\ x.to = successor /\ x.seq = r.seq + 1 /\ x.terms = r.terms
  OBVIOUS
<1>9. SourceOf(x) = r
  <2>1. r = [key |-> r.key, succ |-> r.succ, seq |-> r.seq, terms |-> r.terms]
    BY <1>7 DEF RecordType
  <2> HIDE DEF x
  <2>2. x.seq - 1 = r.seq
    BY <1>7, <1>8
  <2>3. SourceOf(x) = [key |-> x.from, succ |-> x.to, seq |-> x.seq - 1, terms |-> x.terms]
    BY DEF SourceOf
  <2> QED BY <1>5, <1>8, <2>1, <2>2, <2>3
<1>10. x # NoJournal
  BY <1>7 DEF NoJournal
<1> HIDE DEF x
<1>11. AInv' /\ KeysMove
  BY <1>1, <1>2, <1>7, JournalNumbers
<1>12. LoftsGrow({}) /\ signed \subseteq signed'
  BY <1>1, <1>2, <1>3, LoftsStay
<1>13. JobMove(p, job[p])
  BY <1>1, <1>2, <1>12, JobStays
<1>14. PlanKept /\ OwnKept
  BY <1>1, <1>2, <1>12, PlanStays, OwnStays, OwnMoveKept
<1>15. DataInv' /\ CompletedIsStored'
  <2>1. \A y \in signed' : y.terms \in Nat
    BY <1>1, <1>3, <1>7, <1>8 DEF DataInv
  <2>2. terms' \in Nat
    BY <1>1, <1>2 DEF DataInv
  <2> QED BY <1>1, <1>12, <1>13, <1>14, <2>1, <2>2, DataKept
<1>16. RecordsInv'
  <2>1. /\ LoftRecords' = LoftRecords /\ JobRecords' = JobRecords
        /\ OwnRotations' = OwnRotations /\ JobRotations' = JobRotations
    BY <1>2 DEF LoftRecords, JobRecords, OwnRotations, JobRotations
  <2>2. {SourceOf(y) : y \in signed'} \subseteq Records \cup {} \cup {NoRecord}
    BY <1>3, <1>6, <1>9, RecordsAre
  <2>3. Records' \subseteq Records \cup {} \cup {TargetOf(y) : y \in {}}
    BY <1>2, <2>1, <2>2, RecordsAre, RecordsFrom
  <2>4. recordSeq \in Nat
    BY <1>1 DEF AInv, NumbersInv
  <2> QED BY <1>1, <1>2, <1>3, <1>11, <2>3, <2>4, RecordForm, RecordsStay
<1>17. lease'.by = p /\ lease'.goal = "rotate" /\ lease'.at = "scan"
  BY <1>2, <1>3, <1>4, HolderForm DEF GoScan
<1>18. ~AtWork'
  BY <1>3, <1>10 DEF AtWork
<1>19. SourceInv'
  <2>1. \A q \in Proc : q # p => job'[q].src = NoRecord
    BY <1>1, <1>2, SourceHolder
  <2>2. job'[p].src = r /\ (plan'.rec = r \/ \E y \in signed' : plan'.rec = TargetOf(y))
    BY <1>2, <1>5, <1>12 DEF r
  <2> QED BY <1>5, <1>17, <1>18, <2>1, <2>2 DEF SourceInv, At
<1>20. AcceptedInv'
  BY <1>18 DEF AcceptedInv
<1>21. SourcePlacedFirst'
  <2>1. \A y \in signed : \E l \in Loft :
             \/ loft'[l].rec[y.from].seq >= y.seq - 1
             \/ \E z \in signed \ {y} : loft'[l].rec[z.to].seq >= z.seq
    BY <1>1, <1>12, PlacedStays DEF RInv
  <2>2. x \notin signed
    BY <1>3, <1>8 DEF KInv, KeysInv, Settled, LeaseInv, Resolved
  <2>3. PICK l \in Loft : \/ loft[l].rec[r.key].seq >= r.seq
                          \/ \E y \in signed : loft[l].rec[y.to].seq >= y.seq
    BY <1>6 DEF Accepted
  <2>4. x.seq - 1 = r.seq /\ x.from = r.key
    BY <1>5, <1>7, <1>8
  <2>5. \/ loft'[l].rec[x.from].seq >= x.seq - 1
        \/ \E z \in signed' \ {x} : loft'[l].rec[z.to].seq >= z.seq
    BY <1>2, <1>12, <2>2, <2>3, <2>4
  <2>6. \A y \in signed' : \E m \in Loft :
             \/ loft'[m].rec[y.from].seq >= y.seq - 1
             \/ \E z \in signed' \ {y} : loft'[m].rec[z.to].seq >= z.seq
    BY <1>3, <2>1, <2>5
  <2> QED BY <2>6 DEF SourcePlacedFirst
<1> QED BY <1>11, <1>15, <1>16, <1>19, <1>20, <1>21 DEF RInv
-----------------------------------------------------------------------------
(***************************************************************************)
(* All steps.                                                              *)
(***************************************************************************)
LEMMA RInit == Init => RInv
<1> SUFFICES ASSUME Init PROVE RInv
  OBVIOUS
<1> USE DEF Init, KeyInit
<1>1. lease = Free /\ journal = NoJournal /\ signed = {} /\ metadata = {}
  OBVIOUS
<1>2. Free.goal = "none" /\ Free.at = "none"
  BY DEF Free
<1>3. AInv
  <2>1. ChainInv /\ CachedInv
    BY KeyStoreAssumption DEF ChainInv, CachedInv, Behind, NoKey
  <2>2. LeasedInv
    BY <1>1, <1>2 DEF LeasedInv, At
  <2>3. NumbersInv
    BY <1>1 DEF NumbersInv
  <2> QED BY <2>1, <2>2, <2>3 DEF AInv
<1>4. plan \in PlanType /\ plan.rec = NoRecord /\ plan.done = {}
  BY NoRecordType DEF NoPlan, PlanType
<1>5. \A l \in Loft, k \in Key : loft[l].rec[k] = NoRecord
  OBVIOUS
<1>6. \A p \in Proc : job[p] = Idle /\ job[p].src = NoRecord
  BY IdleForm
<1>7. DataInv
  <2>1. loft \in [Loft -> LoftType(signed)]
    BY NoRecordType DEF LoftType
  <2>2. \A k \in Key : OwnOK(own[k], k, signed)
    BY DEF OwnOK
  <2>3. \A p \in Proc : JobOK(job[p], signed)
    BY <1>6, IdleOK
  <2> QED BY <1>1, <1>4, <2>1, <2>2, <2>3 DEF DataInv
<1>8. Records = {}
  <2>1. LoftRecords \subseteq {NoRecord}
    BY <1>5 DEF LoftRecords
  <2>2. JobRecords \subseteq {NoRecord}
    BY <1>6, IdleForm DEF JobRecords
  <2>3. Known = {}
    BY <1>1, <1>7, KnownIsSigned DEF Known
  <2> QED BY <1>1, <1>4, <2>1, <2>2, <2>3 DEF Records
<1>9. RecordsInv
  BY <1>8 DEF RecordsInv
<1>10. SourceInv /\ AcceptedInv
  BY <1>1, <1>2, <1>6 DEF SourceInv, AcceptedInv
<1>11. CompletedIsStored
  BY <1>4 DEF CompletedIsStored, OwnRows
<1>12. SourcePlacedFirst
  BY <1>1 DEF SourcePlacedFirst
<1> QED BY <1>3, <1>7, <1>9, <1>10, <1>11, <1>12 DEF RInv

\* The clock does not matter to the records.
LEMMA RStutter == ASSUME RInv, UNCHANGED vars \/ Clock PROVE RInv'
<1>1. /\ UNCHANGED <<operating, successor, staged, journal, retired, metadata, lease>>
      /\ UNCHANGED <<cached, made, signed, recordSeq, terms, plan, own, loft, job>>
  BY DEF vars, keyVars, files, db, Clock, Tick
<1>2. ChainInv' /\ CachedInv' /\ NumbersInv'
  BY <1>1 DEF RInv, AInv, ChainInv, CachedInv, NumbersInv, Behind
<1>3. LeasedInv'
  BY <1>1 DEF RInv, AInv, LeasedInv, AtWork, At, Noted
<1>4. DataInv'
  BY <1>1 DEF RInv, DataInv
<1>5. Records' = Records
  BY <1>1 DEF Records, LoftRecords, JobRecords, Known, OwnRotations, JobRotations
<1>6. RecordsInv'
  BY <1>1, <1>5 DEF RInv, RecordsInv, Behind
<1>7. SourceInv' /\ AcceptedInv'
  BY <1>1 DEF RInv, SourceInv, AcceptedInv, AtWork, At, Accepted
<1>8. CompletedIsStored' /\ SourcePlacedFirst'
  BY <1>1 DEF RInv, CompletedIsStored, SourcePlacedFirst, OwnRows
<1> QED BY <1>2, <1>3, <1>4, <1>6, <1>7, <1>8 DEF RInv, AInv

LEMMA TaskStepRecords == ASSUME KInv, RInv, NEW p \in Proc, TaskStep(p) PROVE RInv'
<1>1. CASE GiveUp(p)
  BY <1>1, GiveUpRecords
<1>2. CASE \/ AcquireLease(p) \/ ReleaseLease(p) \/ Prune(p) \/ ChangeTerms(p) \/ List(p)
           \/ Reconcile(p) \/ ReconcileRefused(p) \/ Prepare(p) \/ SyncTargets(p)
           \/ StartAttempts(p) \/ ChooseRotation(p) \/ SaveSource(p)
  BY <1>2, AcquireRecords, ReleaseRecords, RowRecords, ListRecords, ReconcileRecords,
     ReconcileRefusedRecords, PrepareRecords, StartAttemptsRecords, ChooseRecords,
     SaveSourceRecords
<1>3. CASE \/ PromoteKeys(p) \/ JournalRotation(p) \/ KeysRotated(p) \/ SaveOwn(p)
           \/ SaveTargets(p) \/ SaveTarget(p) \/ AgentOpened(p) \/ OpenRefused(p)
  BY <1>3, PromoteKeysRecords, JournalRecords, KeysRotatedRecords, SaveOwnRecords,
     SaveTargetRecords, AgentOpenedRecords
<1>4. \/ PrepareRefused(p) \/ ChooseRefused(p) \/ Undeliverable(p) \/ SaveRefused(p) => GiveUp(p)
  BY DEF PrepareRefused, ChooseRefused, Undeliverable, SaveRefused
<1> QED BY <1>1, <1>2, <1>3, <1>4 DEF TaskStep

LEMMA RNext == KInv /\ RInv /\ [Next]_vars => RInv'
<1> SUFFICES ASSUME KInv, RInv, [Next]_vars PROVE RInv'
  OBVIOUS
<1>1. CASE UNCHANGED vars
  BY <1>1, RStutter
<1>2. CASE FileStep
  BY <1>2, FileStepRecords
<1>3. CASE HolderFails
  <2>1. lease.by \in Proc
    BY <1>3 DEF HolderFails, FileError, KInv, KeysInv, LeaseType
  <2> QED BY <1>3, <2>1, EndRecords
<1>4. CASE Clock
  BY <1>4, RStutter
<1>5. ASSUME NEW p \in Proc,
             \/ OpenHome(p) \/ Quit(p) \/ Start(p) \/ TaskStep(p) \/ Placed(p)
             \/ AttemptFails(p) \/ Deadline(p) \/ ProcessDies(p)
      PROVE  RInv'
  <2>1. CASE OpenHome(p) \/ Quit(p) \/ Start(p) \/ TaskStep(p)
    BY <2>1, OpenRecords, QuitRecords, StartRecords, TaskStepRecords
  <2>2. CASE AttemptFails(p) \/ Deadline(p) \/ ProcessDies(p)
    BY <2>2, AttemptFailsRecords, DeadlineRecords, EndRecords
  <2>3. CASE Placed(p)
    BY <2>3, RecordPlacedRecords, RotationPlacedRecords DEF Placed
  <2> QED BY <1>5, <2>1, <2>2, <2>3
<1> QED BY <1>1, <1>2, <1>3, <1>4, <1>5 DEF Next

\* The records, their numbers and what the lofts hold of them, with what the
\* key files guarantee: the inductive invariant of the whole rotation, from
\* the command over the journal to the lofts, holds in every reachable state.
THEOREM RecordsInvariant == Spec => []RInv
<1>1. Spec => []KInv
  BY FilesInvariant
<1>2. KInv /\ RInv /\ [Next]_vars => RInv'
  BY RNext
<1>3. Init => RInv
  BY RInit
<1> QED BY <1>1, <1>2, <1>3, PTL DEF Spec

\* No address ever has two records with one sequence number: next_record_seq
\* draws from the database, the journal sets the number of a target record
\* aside, and neither a crash between the two nor a process that opens late
\* makes a number come out twice, for any number of processes, lofts, keys and
\* faults.
THEOREM NumbersStayUnique == Spec => []NumbersAreUnique
<1>1. KInv /\ RInv => NumbersAreUnique
  <2> SUFFICES ASSUME KInv, RInv PROVE NumbersAreUnique
    OBVIOUS
  <2>1. AInv /\ DataInv /\ RecordsInv
    BY DEF RInv
  <2>2. Shown \subseteq Records \cup {NoRecord}
    <3>1. \A k \in OwnRows : TargetOf(own[k].rot) \in Records \cup {NoRecord}
      <4> SUFFICES ASSUME NEW k \in OwnRows PROVE TargetOf(own[k].rot) \in Records \cup {NoRecord}
        OBVIOUS
      <4>1. own[k].rot # NoJournal /\ own[k].rot \in OwnRotations
        BY <2>1, OwnForm, SignedForm DEF OwnRows, OwnRotations
      <4>2. own[k].rot \in Known
        BY <4>1 DEF Known
      <4> QED BY <4>2, RecordsAre
    <3> QED BY <3>1, RecordsAre DEF Shown, LoftRecords
  <2>3. NoRecord.key = NoKey /\ \A r \in Records : r.key # NoKey
    BY <2>1 DEF NoRecord, RecordsInv, Key, NoKey
  <2>4. \A r, q \in Records : r.key = q.key /\ r.seq = q.seq => r = q
    BY <2>1 DEF RecordsInv
  <2>5. \A r, q \in Shown : r.key = q.key /\ r.seq = q.seq => r = q
    BY <2>2, <2>3, <2>4
  <2> QED BY <2>5 DEF NumbersAreUnique
<1>2. Spec => []KInv /\ []RInv
  BY FilesInvariant, RecordsInvariant
<1> QED BY <1>1, <1>2, PTL

\* What the client has recorded of the lofts is so.  A target that counts as
\* complete has the planned record or the bundle, however late its answer came
\* (mark_record_target_complete, mark_rotation_target_complete), and the keys
\* were promoted only after a loft had accepted the source record, or the
\* target record of a rotation that another process was still finishing
\* (rotate_current).
THEOREM PlacementIsAsRecorded == Spec => []PlacedAsRecorded
<1>1. RInv => PlacedAsRecorded
  BY DEF RInv, PlacedAsRecorded
<1> QED BY <1>1, RecordsInvariant, PTL

=============================================================================
