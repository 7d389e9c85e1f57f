-------------------------------- MODULE Claims --------------------------------
(***************************************************************************)
(* Concurrency claims (src/orchestration/claims/): the lanes of one window *)
(* edit one working tree, and a registry in memory keeps them apart.  A    *)
(* lane claims the paths of a write right before the write, all or none,   *)
(* without waiting; the claim is a lease that every tool call of the lane  *)
(* renews.  Versions tell a lane that a file it read has changed, and two  *)
(* snapshots of the working tree tell what a shell command changed.        *)
(*                                                                         *)
(* The host is single-threaded; an action is what happens between two      *)
(* awaits.  Between the check before a write and the bookkeeping after it  *)
(* (_claimGate and _settleClaims of src/agent-session.ts) lie the write    *)
(* itself, hooks and, for an edit, the user's approval.  The main chat     *)
(* session holds no claims.  Paths are the registry's keys.                *)
(*                                                                         *)
(* A definition marked "mistake" is no part of the model, see LoopRecords. *)
(***************************************************************************)
EXTENDS Integers, FiniteSets

CONSTANTS
  Lanes,       \* delegated lanes of this window
  Paths,       \* files and directories of the workspace
  Below,       \* pairs <<directory, path>>: the path lies under the directory
  Lease,       \* leaseMs
  MaxLease,    \* maxLeaseMs
  StartMode,   \* blacksite.orchestration.claims as the lanes start
  Kinds,       \* the kinds of call the lanes make       (bound)
  MaxTime,     \* how far the clock runs                    (bound)
  MaxCalls,    \* tool calls of all lanes                   (bound)
  MaxChanges,  \* changes of files                          (bound)
  MaxModes     \* changes of the setting                    (bound)

Modes == {"off", "observe", "enforce"}

\* overwrite: file_write and code_insert (STALE_SENSITIVE); anchored: an edit that finds its
\* place in the file; relocate: file_delete and file_move, which claim what lies below too.
WriteTools == {"overwrite", "anchored", "relocate"}
Tools      == WriteTools \cup {"read", "refactor", "command"}

Files == {p \in Paths : \A q \in Paths : <<p, q>> \notin Below}

\* What a call may name: files, and directories too where it moves or deletes.
Targets(prefix) == (SUBSET IF prefix THEN Paths ELSE Files) \ {{}}

ASSUME ClaimsAssumption ==
  /\ Below \subseteq Paths \X Paths
  /\ Lease \in Nat /\ MaxLease \in Nat
  /\ "none" \notin Lanes /\ "main" \notin Lanes /\ "none" \notin Paths
  /\ StartMode \in Modes
  /\ Kinds \subseteq Tools

\* asking: before the edit's approval; written: before the call's bookkeeping; shell: before the
\* first snapshot; ended: before the second; diffing: before their difference is taken.
Steps == {"idle", "reading", "asking", "writing", "written",
          "shell", "command", "ended", "diffing", "gone"}

VARIABLES
  \* The registry.
  claims,       \* the claim on each path
  versions,     \* completed writes of each path, and who made the last
  shells,       \* lanes with a command running, and whether another's ran alongside
  \* Each lane: its session and its LaneClaims.
  step,         \* what its tool call waits for
  call,         \* that call: tool, paths, prefix
  known,        \* _readVersions, -1 for none
  before,       \* whether _before holds a snapshot
  after,        \* whether the second snapshot could be taken
  delta,        \* paths on which the two differ, so far
  shellChanged, unattributed,
  runs, deltas, \* _shellRuns, _shellDeltas
  \* The world.
  mode, modes,  \* the setting, and how often it changed
  changes,      \* changes of files so far
  mainWrites,   \* the path the main session has written and not yet noted, or "none"
  now, calls,
  \* History, read by the properties only.
  gated,        \* by lane: when its write was let through, and since when it has its claims
  unseen,       \* by lane: paths another changed since its books last noted them
  foreign,      \* by lane: paths other lanes' commands changed while its snapshots are apart
  own,          \* by lane: paths its own commands changed
  ranOff        \* by lane: a command of it began or ended with claims off

registry == <<claims, versions, shells>>
lane     == <<step, call, known, before, after, delta,
              shellChanged, unattributed, runs, deltas>>
world    == <<mode, modes, changes, mainWrites, now, calls>>
history  == <<gated, unseen, foreign, own, ranOff>>
vars     == <<registry, lane, world, history>>

Free  == [holder |-> "none", prefix |-> FALSE, acquiredAt |-> 0, renewedAt |-> 0]
Claim == [holder : Lanes \cup {"none"}, prefix : BOOLEAN, acquiredAt : Nat, renewedAt : Nat]

NoCall   == [tool |-> "none", paths |-> {}, prefix |-> FALSE]
\* When a call was let through, since when the lane has had each claim, and whether in enforce.
NotGated == [at |-> 0, since |-> [p \in Paths |-> 0], enforced |-> FALSE]

Init ==
  /\ claims = [p \in Paths |-> Free]
  /\ versions = [p \in Paths |-> [version |-> 0, by |-> "none"]]
  /\ shells = [l \in Lanes |-> "none"]
  /\ step = [l \in Lanes |-> "idle"]
  /\ call = [l \in Lanes |-> NoCall]
  /\ known = [l \in Lanes |-> [p \in Paths |-> -1]]
  /\ before = [l \in Lanes |-> FALSE] /\ after = [l \in Lanes |-> FALSE]
  /\ delta = [l \in Lanes |-> {}]
  /\ shellChanged = [l \in Lanes |-> {}] /\ unattributed = [l \in Lanes |-> {}]
  /\ runs = [l \in Lanes |-> 0] /\ deltas = [l \in Lanes |-> 0]
  /\ mode = StartMode /\ modes = 0
  /\ changes = 0
  /\ mainWrites = "none"
  /\ now = 0 /\ calls = 0
  /\ gated = [l \in Lanes |-> NotGated]
  /\ unseen = [l \in Lanes |-> {}] /\ foreign = [l \in Lanes |-> {}]
  /\ own = [l \in Lanes |-> {}]
  /\ ranOff = [l \in Lanes |-> FALSE]

-----------------------------------------------------------------------------
(* The registry: registry.ts.                                              *)

\* mistake: a claim lapses at the end of its lease, not after it
ExpiredEarly(c) == now - c.renewedAt >= Lease \/ now - c.acquiredAt > MaxLease

Expired(c) == now - c.renewedAt > Lease \/ now - c.acquiredAt > MaxLease

Reaped(cs) == [p \in Paths |-> IF Expired(cs[p]) THEN Free ELSE cs[p]]

Renewed(cs, l) ==
  [p \in Paths |-> IF cs[p].holder = l THEN [cs[p] EXCEPT !.renewedAt = now] ELSE cs[p]]

Released(cs, l) == [p \in Paths |-> IF cs[p].holder = l THEN Free ELSE cs[p]]

\* mistake: a claim on a directory does not reach what lies below it
OverlappingKeys(cs, l, p, prefix) == {q \in {p} : cs[q].holder \notin {"none", l}}

\* Claims of others that a claim of l on p would overlap.
Overlapping(cs, l, p, prefix) ==
  {q \in Paths :
     /\ cs[q].holder \notin {"none", l}
     /\ \/ q = p
        \/ cs[q].prefix /\ <<q, p>> \in Below
        \/ prefix /\ <<p, q>> \in Below}

Conflicting(cs, l, paths, prefix) == UNION {Overlapping(cs, l, p, prefix) : p \in paths}

\* Every path or none.  A claim the lane already has is renewed and may widen; it keeps its age.
Acquired(cs, l, paths, prefix) ==
  [p \in Paths |->
     IF p \notin paths THEN cs[p]
     ELSE IF cs[p].holder = l
          THEN [cs[p] EXCEPT !.renewedAt = now, !.prefix = @ \/ prefix]
          ELSE [holder |-> l, prefix |-> prefix, acquiredAt |-> now, renewedAt |-> now]]

\* noteWrite.
Noted(vs, paths, by) ==
  [p \in Paths |-> IF p \in paths THEN [version |-> vs[p].version + 1, by |-> by] ELSE vs[p]]

\* mistake: only the command that starts second is marked
ShellsOnlySecond(l) ==
  [shells EXCEPT ![l] = IF \E m \in Lanes : shells[m] # "none" THEN "overlapped" ELSE "alone"]

\* beginShell: a command that starts beside another makes both ambiguous.
ShellsWith(l) ==
  [m \in Lanes |->
     IF m = l THEN IF \E k \in Lanes : shells[k] # "none" THEN "overlapped" ELSE "alone"
     ELSE IF shells[m] # "none" THEN "overlapped" ELSE "none"]

-----------------------------------------------------------------------------
(* One lane's claims: session-claims.ts.                                   *)

\* mistake: only a lane's write makes a copy old
StaleOfLanes(l, tool, paths) ==
  IF tool # "overwrite" THEN {}
  ELSE {p \in paths : /\ known[l][p] >= 0
                      /\ versions[p].version > known[l][p]
                      /\ versions[p].by \in Lanes \ {l}}

\* Paths about to be written over wholesale whose copy another made old.
Stale(l, tool, paths) ==
  IF tool # "overwrite" THEN {}
  ELSE {p \in paths : /\ known[l][p] >= 0
                      /\ versions[p].version > known[l][p]
                      /\ versions[p].by \notin {"none", l}}

\* touch: every call of a lane keeps its claims.
Touched(l) == IF mode = "off" THEN claims ELSE Renewed(claims, l)

\* beforeWrite refuses only in enforce; observe records the collision and lets it pass.
Refused(cs, l, tool, paths, prefix) ==
  /\ mode = "enforce"
  /\ \/ Stale(l, tool, paths) # {}
     \/ Conflicting(Reaped(cs), l, paths, prefix) # {}

\* What beforeWrite leaves in the registry.  A copy found stale does not keep it from claiming.
AfterCheck(cs, l, paths, prefix) ==
  IF mode = "off" THEN cs
  ELSE IF Conflicting(Reaped(cs), l, paths, prefix) # {} THEN Reaped(cs)
  ELSE Acquired(Reaped(cs), l, paths, prefix)

LetThrough(l, paths) ==
  [at |-> now, enforced |-> TRUE,
   since |-> [p \in Paths |-> IF p \in paths THEN claims'[p].acquiredAt ELSE 0]]

Idle(l) ==
  /\ step' = [step EXCEPT ![l] = "idle"]
  /\ call' = [call EXCEPT ![l] = NoCall]
  /\ gated' = [gated EXCEPT ![l] = NotGated]

\* What a write or a command really changes: a moved or deleted directory takes what is in it.
Reach(paths, prefix) ==
  paths \cup {q \in Paths : prefix /\ \E p \in paths : <<p, q>> \in Below}

\* Files changed: by l's tool or command, or by the main session.
Change(paths, by) ==
  /\ changes < MaxChanges /\ changes' = changes + 1
  /\ delta' = [l \in Lanes |->
                 IF before[l] /\ step[l] # "diffing" THEN delta[l] \cup paths ELSE delta[l]]

\* A tool call that names paths changes them: news to every other lane that knows one of them.
Unseen(paths, by) ==
  unseen' = [l \in Lanes |-> IF l = by THEN unseen[l]
                             ELSE unseen[l] \cup {p \in paths : known[l][p] >= 0}]

LaneState == <<known, before, after, shellChanged, unattributed, runs, deltas>>

-----------------------------------------------------------------------------
(* A lane's calls.  agent-session.ts checks claims before a call runs and  *)
(* keeps their books after it.                                             *)

StartCall(l, tool, paths, prefix) ==
  /\ step[l] = "idle"
  /\ calls < MaxCalls /\ calls' = calls + 1
  /\ call' = [call EXCEPT ![l] = [tool |-> tool, paths |-> paths, prefix |-> prefix]]
  /\ UNCHANGED <<versions, shells, LaneState, delta, mode, modes, changes, mainWrites, now,
                 unseen, foreign, own, ranOff>>

\* _claimGate of a call that names what it writes.  file_write and file_delete then run; an edit
\* asks for approval first.
Gate(l) ==
  \E tool \in WriteTools \cap Kinds : LET prefix == tool = "relocate" IN
  \E paths \in Targets(prefix) :
    /\ claims' = AfterCheck(Touched(l), l, paths, prefix)
    /\ ~ Refused(Touched(l), l, tool, paths, prefix)
    /\ \E next \in {"writing", "asking"} :
         /\ tool = "anchored" => next = "asking"
         /\ step' = [step EXCEPT ![l] = next]
    /\ gated' = [gated EXCEPT ![l] = IF mode = "enforce" THEN LetThrough(l, paths) ELSE NotGated]
    /\ StartCall(l, tool, paths, prefix)

\* A refused call still renewed the lane's claims, and a stale copy's path is claimed.
GateRefuses(l) ==
  \E tool \in WriteTools \cap Kinds : LET prefix == tool = "relocate" IN
  \E paths \in Targets(prefix) :
    /\ step[l] = "idle"
    /\ calls < MaxCalls /\ calls' = calls + 1
    /\ Refused(Touched(l), l, tool, paths, prefix)
    /\ claims' = AfterCheck(Touched(l), l, paths, prefix)
    /\ UNCHANGED <<versions, shells, lane, mode, modes, changes, mainWrites, now, history>>

\* A read, a refactoring and a command name no path to write: the lane's claims are renewed.  What
\* a read returns is what the file holds now.
StartOther(l) ==
  \E tool \in Kinds \ WriteTools :
  \E paths \in IF tool = "read" THEN {{p} : p \in Files} ELSE {{}} :
    /\ claims' = Touched(l)
    /\ step' = [step EXCEPT ![l] = IF tool = "read" THEN "reading" ELSE "asking"]
    /\ UNCHANGED gated
    /\ StartCall(l, tool, paths, FALSE)

\* edit-claims.ts: the editor knows an edit's real files when it asks for approval, and the claim
\* is taken there.  A move or a deletion among them reaches what lies below.
AtApproval(l) ==
  /\ step[l] = "asking" /\ call[l].tool # "command"
  /\ \E prefix \in IF call[l].tool = "refactor" THEN BOOLEAN ELSE {call[l].prefix} :
     \E paths \in IF call[l].tool = "refactor" THEN Targets(prefix) ELSE {call[l].paths} :
       /\ claims' = AfterCheck(claims, l, paths, prefix)
       /\ \/ /\ Refused(claims, l, call[l].tool, paths, prefix)
             /\ Idle(l)
          \/ /\ ~ Refused(claims, l, call[l].tool, paths, prefix)
             /\ step' = [step EXCEPT ![l] = "writing"]
             /\ call' = [call EXCEPT ![l] = [tool |-> @.tool, paths |-> paths, prefix |-> prefix]]
             /\ gated' = IF mode = "enforce" THEN [gated EXCEPT ![l] = LetThrough(l, paths)]
                         ELSE gated
  /\ UNCHANGED <<versions, shells, LaneState, delta, world, unseen, foreign, own, ranOff>>

Write(l) ==
  /\ step[l] = "writing"
  /\ step' = [step EXCEPT ![l] = "written"]
  /\ Change(Reach(call[l].paths, call[l].prefix), l)
  /\ Unseen(call[l].paths, l)
  /\ UNCHANGED <<registry, call, LaneState, mode, modes, mainWrites, now, calls,
                 gated, foreign, own, ranOff>>

\* Rejected by the user, or failed before it changed anything: no books are kept.
CallFails(l) ==
  /\ step[l] \in {"reading", "asking", "writing"}
  /\ Idle(l)
  /\ UNCHANGED <<registry, LaneState, delta, world, unseen, foreign, own, ranOff>>

\* afterWrite: the paths the call named, not what lay below them.
Settle(l) ==
  /\ step[l] = "written"
  /\ Idle(l)
  /\ IF mode = "off" THEN UNCHANGED <<versions, known>>
     ELSE /\ versions' = Noted(versions, call[l].paths, l)
          /\ known' = [known EXCEPT ![l] =
                         [p \in Paths |-> IF p \in call[l].paths THEN versions'[p].version ELSE @[p]]]
  /\ unseen' = [unseen EXCEPT ![l] = @ \ call[l].paths]
  /\ UNCHANGED <<claims, shells, before, after, delta, shellChanged, unattributed, runs, deltas,
                 world, foreign, own, ranOff>>

\* noteRead, after the read's awaits: the version is the one at this moment.
SettleRead(l) ==
  /\ step[l] = "reading"
  /\ Idle(l)
  /\ known' = IF mode = "off" THEN known
              ELSE [known EXCEPT ![l] = [p \in Paths |->
                      IF p \in call[l].paths THEN versions[p].version ELSE @[p]]]
  /\ unseen' = [unseen EXCEPT ![l] = @ \ call[l].paths]
  /\ UNCHANGED <<registry, before, after, delta, shellChanged, unattributed, runs, deltas,
                 world, foreign, own, ranOff>>

-----------------------------------------------------------------------------
(* A lane's shell commands.                                                *)

\* beforeShell.  With claims off nothing is registered and no snapshot taken.
BeginShell(l) ==
  /\ step[l] = "asking" /\ call[l].tool = "command"
  /\ IF mode = "off"
     THEN /\ step' = [step EXCEPT ![l] = "command"]
          /\ ranOff' = [ranOff EXCEPT ![l] = TRUE]
          /\ UNCHANGED <<shells, runs>>
     ELSE /\ step' = [step EXCEPT ![l] = "shell"]
          /\ shells' = ShellsWith(l)
          /\ runs' = [runs EXCEPT ![l] = @ + 1]
          /\ UNCHANGED ranOff
  /\ UNCHANGED <<claims, versions, call, known, before, after, delta, shellChanged, unattributed,
                 deltas, world, gated, unseen, foreign, own>>

\* The first snapshot, or none: no repository, or git too slow.
SnapshotBefore(l) ==
  /\ step[l] = "shell"
  /\ step' = [step EXCEPT ![l] = "command"]
  /\ \E taken \in BOOLEAN : before' = [before EXCEPT ![l] = taken]
  /\ delta' = [delta EXCEPT ![l] = {}]
  /\ foreign' = [foreign EXCEPT ![l] = {}]
  /\ UNCHANGED <<registry, call, known, after, shellChanged, unattributed, runs, deltas, world,
                 gated, unseen, own, ranOff>>

CommandWrites(l) ==
  /\ step[l] = "command"
  /\ \E p \in Files :
       /\ Change({p}, l)
       /\ own' = [own EXCEPT ![l] = @ \cup {p}]
       /\ foreign' = [m \in Lanes |->
            IF m # l /\ shells[l] # "none" /\ before[m] /\ step[m] # "diffing"
            THEN foreign[m] \cup {p} ELSE foreign[m]]
  /\ UNCHANGED <<registry, step, call, LaneState, mode, modes, mainWrites, now, calls, gated,
                 unseen, ranOff>>

\* afterShell.  With claims off it leaves the registry's entry and _before as they are.
EndCommand(l) ==
  /\ step[l] = "command"
  /\ IF mode = "off"
     THEN /\ Idle(l)
          /\ ranOff' = [ranOff EXCEPT ![l] = TRUE]
     ELSE /\ step' = [step EXCEPT ![l] = "ended"]
          /\ UNCHANGED <<call, gated, ranOff>>
  /\ UNCHANGED <<registry, LaneState, delta, world, unseen, foreign, own>>

SnapshotAfter(l) ==
  /\ step[l] = "ended"
  /\ step' = [step EXCEPT ![l] = "diffing"]
  /\ \E taken \in BOOLEAN : after' = [after EXCEPT ![l] = taken]
  /\ UNCHANGED <<registry, call, known, before, delta, shellChanged, unattributed, runs, deltas,
                 world, history>>

\* mistake: one snapshot is enough to count the command as covered
DiffedOnOne(l) == before[l] \/ after[l]

\* Both snapshots were taken.
Diffed(l) == before[l] /\ after[l]

\* What differs is the lane's, unless another's command ran alongside.  Who else holds a changed path
\* is looked up, and a lookup drops what has lapsed.
Attribute(l) ==
  /\ step[l] = "diffing"
  /\ Idle(l)
  /\ shells' = [shells EXCEPT ![l] = "none"]
  /\ before' = [before EXCEPT ![l] = FALSE]
  /\ after' = [after EXCEPT ![l] = FALSE]
  /\ delta' = [delta EXCEPT ![l] = {}]
  /\ claims' = IF Diffed(l) /\ shells[l] # "overlapped" /\ delta[l] # {}
               THEN Reaped(claims) ELSE claims
  /\ IF ~ Diffed(l)
     THEN UNCHANGED <<versions, shellChanged, unattributed, deltas>>
     ELSE /\ deltas' = [deltas EXCEPT ![l] = @ + 1]
          /\ IF shells[l] = "overlapped"
             THEN /\ unattributed' = [unattributed EXCEPT ![l] = @ \cup delta[l]]
                  /\ UNCHANGED <<versions, shellChanged>>
             ELSE /\ shellChanged' = [shellChanged EXCEPT ![l] = @ \cup delta[l]]
                  /\ versions' = Noted(versions, delta[l], l)
                  /\ UNCHANGED unattributed
  /\ UNCHANGED <<known, runs, world, unseen, foreign, own, ranOff>>

-----------------------------------------------------------------------------
(* The lane's life, the main session, the setting and the clock.           *)

\* release, in the lane's finally.
LaneEnds(l) ==
  /\ step[l] = "idle"
  /\ step' = [step EXCEPT ![l] = "gone"]
  /\ claims' = Released(claims, l)
  /\ shells' = [shells EXCEPT ![l] = "none"]
  /\ UNCHANGED <<versions, call, LaneState, delta, world, history>>

\* A follow-up question resumes a lane: it comes back with its LaneClaims as they were.
LaneResumes(l) ==
  /\ step[l] = "gone"
  /\ step' = [step EXCEPT ![l] = "idle"]
  /\ UNCHANGED <<registry, call, LaneState, delta, world, history>>

\* MainSessionClaims: warned of a lane's claim, never refused; its writes count once they are done.
MainWrites ==
  /\ mainWrites = "none"
  /\ \E p \in Files : mainWrites' = p /\ Change({p}, "main") /\ Unseen({p}, "main")
  /\ claims' = IF mode = "off" THEN claims ELSE Reaped(claims)
  /\ UNCHANGED <<versions, shells, step, call, LaneState, mode, modes, now, calls, gated, foreign, own, ranOff>>

MainSettles ==
  /\ mainWrites # "none"
  /\ versions' = IF mode = "off" THEN versions ELSE Noted(versions, {mainWrites}, "main")
  /\ mainWrites' = "none"
  /\ UNCHANGED <<claims, shells, lane, mode, modes, changes, now, calls, history>>

SetMode ==
  /\ modes < MaxModes /\ modes' = modes + 1
  /\ \E m \in Modes \ {mode} : mode' = m
  /\ UNCHANGED <<registry, lane, changes, mainWrites, now, calls, history>>

Tick ==
  /\ now < MaxTime /\ now' = now + 1
  /\ UNCHANGED <<registry, lane, mode, modes, changes, mainWrites, calls, history>>

LaneStep(l) ==
  \/ Gate(l) \/ GateRefuses(l) \/ StartOther(l) \/ AtApproval(l)
  \/ Write(l) \/ CallFails(l) \/ Settle(l) \/ SettleRead(l)
  \/ BeginShell(l) \/ SnapshotBefore(l) \/ CommandWrites(l) \/ EndCommand(l)
  \/ SnapshotAfter(l) \/ Attribute(l) \/ LaneEnds(l) \/ LaneResumes(l)

Next == (\E l \in Lanes : LaneStep(l)) \/ MainWrites \/ MainSettles \/ SetMode \/ Tick

Spec == Init /\ [][Next]_vars

-----------------------------------------------------------------------------
(* Properties.                                                             *)

\* The registry, each lane's books and the history hold values of their types.
TypeOK ==
  /\ claims \in [Paths -> Claim]
  /\ versions \in [Paths -> [version : Nat, by : Lanes \cup {"none", "main"}]]
  /\ shells \in [Lanes -> {"none", "alone", "overlapped"}]
  /\ step \in [Lanes -> Steps]
  /\ call \in [Lanes -> [tool : Tools \cup {"none"},
                         paths : SUBSET Paths, prefix : BOOLEAN]]
  /\ known \in [Lanes -> [Paths -> Nat \cup {-1}]]
  /\ before \in [Lanes -> BOOLEAN] /\ after \in [Lanes -> BOOLEAN]
  /\ delta \in [Lanes -> SUBSET Paths]
  /\ shellChanged \in [Lanes -> SUBSET Paths] /\ unattributed \in [Lanes -> SUBSET Paths]
  /\ runs \in [Lanes -> Nat] /\ deltas \in [Lanes -> Nat]
  /\ mode \in Modes /\ modes \in Nat
  /\ changes \in Nat /\ mainWrites \in Paths \cup {"none"}
  /\ now \in Nat /\ calls \in Nat
  /\ gated \in [Lanes -> [at : Nat, since : [Paths -> Nat], enforced : BOOLEAN]]
  /\ unseen \in [Lanes -> SUBSET Paths] /\ foreign \in [Lanes -> SUBSET Paths]
  /\ own \in [Lanes -> SUBSET Paths]
  /\ ranOff \in [Lanes -> BOOLEAN]

Overlap(p, pIsPrefix, q, qIsPrefix) ==
  \/ p = q
  \/ pIsPrefix /\ <<p, q>> \in Below
  \/ qIsPrefix /\ <<q, p>> \in Below

Disjoint(cs) ==
  \A p, q \in Paths :
    \/ "none" \in {cs[p].holder, cs[q].holder}
    \/ cs[p].holder = cs[q].holder
    \/ ~ Overlap(p, cs[p].prefix, q, cs[q].prefix)

\* No two lanes ever hold claims on paths of which one is the other or lies below it under a
\* claim that reaches below: whatever lapses, is renewed, widens or is taken over, in every mode.
ClaimsDisjoint == Disjoint(claims)

\* The lane was let through in enforce, has not done its books yet, and neither lease has run out.
MidWrite(l) ==
  /\ step[l] \in {"asking", "writing", "written"}
  /\ gated[l].enforced
  /\ now - gated[l].at <= Lease
  /\ \A p \in call[l].paths : now - gated[l].since[p] <= MaxLease

\* Two lanes let through in enforce are never in the middle of writes that touch each other while
\* their leases run: no edit of one lands on a file the other is changing, approvals included.
ExclusiveWithinLease ==
  \A l, m \in Lanes : l # m /\ MidWrite(l) /\ MidWrite(m) =>
    \A p \in call[l].paths, q \in call[m].paths : ~ Overlap(p, call[l].prefix, q, call[m].prefix)

\* In enforce, a lane that has run no command never writes over a file wholesale that another lane's
\* call or the main session changed since the lane's own read or write of it was noted, once that
\* other write is noted too: not after an approval it waited for either.
NoStaleOverwrite ==
  [][\A l \in Lanes :
       /\ step[l] # "writing" /\ step'[l] = "writing"
       /\ call'[l].tool = "overwrite"
       /\ mode = "enforce" /\ modes = 0 /\ runs[l] = 0
       /\ mainWrites = "none" /\ \A m \in Lanes : step[m] # "written"
       => call'[l].paths \cap unseen[l] = {}]_vars

\* What another lane's watched command changed is never put on a lane as its own command's doing,
\* unless claims were off as one of its commands began or ended: afterShell then leaves the first
\* snapshot behind, for the next command to be compared with.
CommandsNotMixed ==
  [][\A l \in Lanes : (shellChanged'[l] \ shellChanged[l]) \cap foreign[l] = {} \/ ranOff[l]]_vars

\* A receipt that says the lane's commands were covered names everything they changed, for sure
\* or as unattributed; commands that began or ended with claims off are what the claim leaves out.
CoveredMeansReported ==
  \A l \in Lanes :
    runs[l] > 0 /\ deltas[l] = runs[l] /\ ~ ranOff[l] => own[l] \subseteq shellChanged[l] \cup unattributed[l]

============================================================================
