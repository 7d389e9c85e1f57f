----------------------------- MODULE ClaimsProofs -----------------------------
(***************************************************************************)
(* Proofs about Claims, for every number of lanes and paths, every tree of *)
(* directories, every lease and every bound.                               *)
(*                                                                         *)
(* Two inductive invariants.  Claimed: a lane in the middle of a write     *)
(* whose leases run still holds every claim the write needs, as wide as it *)
(* asked; with disjoint claims that keeps two writes apart.  Watched: a    *)
(* command whose lane never met claims switched off is in the registry,    *)
(* two at once are both marked, and what it changed is in its difference   *)
(* or already reported.                                                    *)
(***************************************************************************)
EXTENDS Claims, TLAPS

\* Only a call that waits, writes or has written was let through, and not yet at its own gate
\* when only the editor will know its files.
GatedOnlyInCall ==
  \A l \in Lanes :
    /\ gated[l].at <= now
    /\ gated[l].enforced =>
         /\ step[l] \in {"asking", "writing", "written"}
         /\ step[l] = "asking" => call[l].tool \notin {"refactor", "command"}

\* A lane in the middle of a write holds what it was let through with.
Claimed ==
  \A l \in Lanes : MidWrite(l) =>
    \A p \in call[l].paths :
      /\ claims[p].holder = l
      /\ call[l].prefix => claims[p].prefix
      /\ claims[p].renewedAt >= gated[l].at
      /\ claims[p].acquiredAt = gated[l].since[p]

ClaimInvariant == TypeOK /\ GatedOnlyInCall /\ ClaimsDisjoint /\ Claimed

Watching == {"shell", "command", "ended", "diffing"}

\* For lanes that never met claims off: the registry and the first snapshot tell a command runs.
Registered ==
  \A l \in Lanes : ~ ranOff[l] =>
    /\ step[l] \in Watching => shells[l] # "none" /\ deltas[l] < runs[l]
    /\ before[l] => step[l] \in {"command", "ended", "diffing"}
    /\ deltas[l] <= runs[l]

\* Two commands at once are both marked, and so is one beside which another wrote.
BothMarked ==
  /\ \A l, m \in Lanes : l # m /\ shells[l] # "none" /\ shells[m] # "none" => shells[l] = "overlapped"
  /\ \A l \in Lanes : ~ ranOff[l] /\ before[l] /\ foreign[l] # {} => shells[l] = "overlapped"

\* What the lane's commands changed is reported, or will be, unless a command went uncovered.
Reported ==
  \A l \in Lanes : ~ ranOff[l] =>
    LET told == shellChanged[l] \cup unattributed[l] IN
    /\ deltas[l] = runs[l] => own[l] \subseteq told
    /\ deltas[l] + 1 = runs[l] /\ step[l] = "shell" => own[l] \subseteq told
    /\ deltas[l] + 1 = runs[l] /\ before[l] => own[l] \subseteq told \cup delta[l]

ShellInvariant == TypeOK /\ Registered /\ BothMarked /\ Reported

\* What a lane's books know was a version, and a command is counted where claims were always on.
BooksAreOld ==
  \A l \in Lanes :
    /\ \A p \in Paths : known[l][p] <= versions[p].version
    /\ mode = "enforce" /\ modes = 0 /\ step[l] \in Watching => runs[l] > 0

\* Another's write of p is newer than the lane's copy.
Behind(l, p) == versions[p].version > known[l][p] /\ versions[p].by \notin {"none", l}

\* Another's write of p is done and not yet noted.
Pending(l, p) == mainWrites = p \/ \E m \in Lanes \ {l} : step[m] = "written" /\ p \in call[m].paths

\* What another changed since the lane's copy is noted, or about to be.
NewsIsKept ==
  \A l \in Lanes : mode = "enforce" /\ modes = 0 /\ runs[l] = 0 =>
    \A p \in unseen[l] : known[l][p] >= 0 /\ (Behind(l, p) \/ Pending(l, p))

CopyInvariant == TypeOK /\ BooksAreOld /\ NewsIsKept

-----------------------------------------------------------------------------
(* The registry's operators.                                               *)

Registry == [Paths -> Claim]

LEMMA ReapedKeeps ==
  ASSUME NEW cs \in Registry
  PROVE  /\ Reaped(cs) \in Registry
         /\ Disjoint(cs) => Disjoint(Reaped(cs))
         /\ \A p \in Paths : ~ Expired(cs[p]) => Reaped(cs)[p] = cs[p]
<1>1. Free \in Claim
  BY DEF Free, Claim
<1>2. Reaped(cs) \in Registry
  BY <1>1 DEF Reaped, Registry
<1>3. Disjoint(cs) => Disjoint(Reaped(cs))
  BY DEF Disjoint, Reaped, Free, Registry, Claim, Overlap
<1> QED
  BY <1>2, <1>3 DEF Reaped

LEMMA Cleared ==
  ASSUME NEW cs \in Registry, NEW l \in Lanes
  PROVE  /\ Reaped(cs) \in Registry /\ Released(cs, l) \in Registry
         /\ Disjoint(cs) => Disjoint(Reaped(cs)) /\ Disjoint(Released(cs, l))
<1>1. Free \in Claim
  BY DEF Free, Claim
<1>2. Reaped(cs) \in Registry /\ (Disjoint(cs) => Disjoint(Reaped(cs)))
  BY ReapedKeeps
<1>3. Released(cs, l) \in Registry
  BY <1>1 DEF Released, Registry
<1>4. Disjoint(cs) => Disjoint(Released(cs, l))
  BY DEF Disjoint, Released, Free, Registry, Claim, Overlap
<1> QED
  BY <1>2, <1>3, <1>4

LEMMA RenewedKeeps ==
  ASSUME NEW cs \in Registry, NEW l \in Lanes, now \in Nat
  PROVE  /\ Renewed(cs, l) \in Registry
         /\ \A p \in Paths : /\ Renewed(cs, l)[p].holder = cs[p].holder
                             /\ Renewed(cs, l)[p].prefix = cs[p].prefix
                             /\ cs[p].holder # l => Renewed(cs, l)[p] = cs[p]
         /\ Disjoint(cs) => Disjoint(Renewed(cs, l))
<1>1. Renewed(cs, l) \in Registry
  BY DEF Renewed, Registry, Claim
<1>2. \A p \in Paths : /\ Renewed(cs, l)[p].holder = cs[p].holder
                       /\ Renewed(cs, l)[p].prefix = cs[p].prefix
                       /\ cs[p].holder # l => Renewed(cs, l)[p] = cs[p]
  BY DEF Renewed, Registry, Claim
<1>3. Disjoint(cs) => Disjoint(Renewed(cs, l))
  BY <1>2 DEF Disjoint
<1> QED
  BY <1>1, <1>2, <1>3

\* A claim as a lane's acquisition leaves it.
Taken(old, c, l, prefix) ==
  /\ c.holder = l /\ c.renewedAt = now
  /\ prefix => c.prefix
  /\ old.holder = l => c.acquiredAt = old.acquiredAt /\ (old.prefix => c.prefix)
  /\ c.prefix => prefix \/ (old.holder = l /\ old.prefix)

LEMMA AcquiredTakes ==
  ASSUME NEW cs \in Registry, NEW l \in Lanes, NEW paths \in SUBSET Paths, NEW prefix \in BOOLEAN,
         now \in Nat
  PROVE  /\ Acquired(cs, l, paths, prefix) \in Registry
         /\ \A p \in paths : Taken(cs[p], Acquired(cs, l, paths, prefix)[p], l, prefix)
         /\ \A p \in Paths : p \notin paths => Acquired(cs, l, paths, prefix)[p] = cs[p]
<1>1. ASSUME NEW p \in Paths
      PROVE  /\ Acquired(cs, l, paths, prefix)[p] \in Claim
             /\ p \in paths => Taken(cs[p], Acquired(cs, l, paths, prefix)[p], l, prefix)
             /\ p \notin paths => Acquired(cs, l, paths, prefix)[p] = cs[p]
  <2>1. cs[p] \in Claim
    BY DEF Registry
  <2>2. CASE p \notin paths
    BY <2>1, <2>2 DEF Acquired
  <2>3. CASE p \in paths /\ cs[p].holder = l
    <3> DEFINE c == Acquired(cs, l, paths, prefix)[p]
    <3>1. c = [cs[p] EXCEPT !.renewedAt = now, !.prefix = @ \/ prefix]
      BY <2>3 DEF Acquired
    <3>2. c = [holder |-> l, prefix |-> cs[p].prefix \/ prefix,
               acquiredAt |-> cs[p].acquiredAt, renewedAt |-> now]
      BY <2>1, <2>3, <3>1 DEF Claim
    <3>3. cs[p].prefix \in BOOLEAN /\ cs[p].acquiredAt \in Nat
      BY <2>1 DEF Claim
    <3> HIDE DEF c
    <3>4. c \in Claim
      BY <3>2, <3>3 DEF Claim
    <3>5. (c.prefix <=> cs[p].prefix \/ prefix) /\ c.holder = l /\ c.renewedAt = now
          /\ c.acquiredAt = cs[p].acquiredAt
      BY <3>2, <3>3
    <3>6. Taken(cs[p], c, l, prefix)
      BY <2>3, <3>5, Zenon DEF Taken
    <3> QED
      BY <2>3, <3>4, <3>6 DEF c
  <2>4. CASE p \in paths /\ cs[p].holder # l
    <3> DEFINE c == Acquired(cs, l, paths, prefix)[p]
    <3>1. c = [holder |-> l, prefix |-> prefix, acquiredAt |-> now, renewedAt |-> now]
      BY <2>4 DEF Acquired
    <3> HIDE DEF c
    <3>2. c \in Claim
      BY <3>1 DEF Claim
    <3>3. c.holder = l /\ (c.prefix <=> prefix) /\ c.renewedAt = now
      BY <3>1
    <3>4. Taken(cs[p], c, l, prefix)
      BY <2>4, <3>3, Zenon DEF Taken
    <3> QED
      BY <2>4, <3>2, <3>4 DEF c
  <2> QED
    BY <2>2, <2>3, <2>4
<1>2. Acquired(cs, l, paths, prefix) \in Registry
  BY <1>1 DEF Acquired, Registry
<1> QED
  BY <1>1, <1>2

LEMMA AcquiredDisjoint ==
  ASSUME NEW cs \in Registry, NEW l \in Lanes, NEW paths \in SUBSET Paths, NEW prefix \in BOOLEAN,
         now \in Nat, Disjoint(cs), Conflicting(cs, l, paths, prefix) = {}
  PROVE  Disjoint(Acquired(cs, l, paths, prefix))
<1> DEFINE cs2 == Acquired(cs, l, paths, prefix)
<1>0. /\ \A p \in paths : Taken(cs[p], cs2[p], l, prefix)
      /\ \A p \in Paths : p \notin paths => cs2[p] = cs[p]
  BY AcquiredTakes
<1> HIDE DEF cs2
<1>1. \A p \in paths, q \in Paths : cs[q].holder \notin {"none", l} =>
        q # p /\ ~(cs[q].prefix /\ <<q, p>> \in Below) /\ ~(prefix /\ <<p, q>> \in Below)
  BY DEF Conflicting, Overlapping
<1>2. ASSUME NEW p \in paths, NEW q \in Paths \ paths,
             cs2[q].holder \notin {"none", l}
      PROVE  ~ Overlap(p, cs2[p].prefix, q, cs2[q].prefix)
  <2>1. cs2[q] = cs[q] /\ (cs2[p].prefix => prefix \/ (cs[p].holder = l /\ cs[p].prefix))
    BY <1>0 DEF Taken
  <2>2. ~(cs[p].holder = l /\ cs[p].prefix /\ <<p, q>> \in Below)
    BY <1>2, <2>1, ClaimsAssumption DEF Disjoint, Overlap
  <2> QED
    BY <1>1, <1>2, <2>1, <2>2 DEF Overlap
<1>3. ASSUME NEW p \in Paths, NEW q \in Paths
      PROVE  \/ "none" \in {cs2[p].holder, cs2[q].holder}
             \/ cs2[p].holder = cs2[q].holder
             \/ ~ Overlap(p, cs2[p].prefix, q, cs2[q].prefix)
  <2>1. CASE p \in paths /\ q \in paths
    BY <2>1, <1>0 DEF Taken
  <2>2. CASE p \in paths /\ q \notin paths
    BY <2>2, <1>0, <1>2 DEF Taken
  <2>3. CASE p \notin paths /\ q \in paths
    <3>1. \/ cs2[p].holder \in {"none", l}
          \/ ~ Overlap(q, cs2[q].prefix, p, cs2[p].prefix)
      BY <2>3, <1>2
    <3> QED
      BY <2>3, <3>1, <1>0 DEF Overlap, Taken
  <2>4. CASE p \notin paths /\ q \notin paths
    BY <2>4, <1>0 DEF Disjoint
  <2> QED
    BY <2>1, <2>2, <2>3, <2>4
<1> QED
  BY <1>3 DEF Disjoint, cs2

\* Before a write: types and disjointness stay, and another lane's claim that has not run out does.
LEMMA AfterCheckKeeps ==
  ASSUME NEW cs \in Registry, NEW l \in Lanes, NEW paths \in SUBSET Paths, NEW prefix \in BOOLEAN,
         now \in Nat, Disjoint(cs)
  PROVE  /\ AfterCheck(cs, l, paths, prefix) \in Registry
         /\ Disjoint(AfterCheck(cs, l, paths, prefix))
         /\ \A p \in Paths : cs[p].holder \notin {"none", l} /\ ~ Expired(cs[p]) =>
              AfterCheck(cs, l, paths, prefix)[p] = cs[p]
<1>1. Reaped(cs) \in Registry /\ Disjoint(Reaped(cs))
  BY Cleared
<1>2. ASSUME NEW p \in Paths, cs[p].holder \notin {"none", l}, ~ Expired(cs[p])
      PROVE  AfterCheck(cs, l, paths, prefix)[p] = cs[p]
  <2>1. Reaped(cs)[p] = cs[p]
    BY <1>2 DEF Reaped
  <2>2. Conflicting(Reaped(cs), l, paths, prefix) = {} => p \notin paths
    BY <1>2, <2>1 DEF Conflicting, Overlapping
  <2>3. Conflicting(Reaped(cs), l, paths, prefix) = {} =>
          Acquired(Reaped(cs), l, paths, prefix)[p] = cs[p]
    BY <2>1, <2>2, <1>1, AcquiredTakes
  <2> QED
    BY <2>1, <2>3 DEF AfterCheck
<1>3. AfterCheck(cs, l, paths, prefix) \in Registry
  BY <1>1, AcquiredTakes DEF AfterCheck
<1>4. Disjoint(AfterCheck(cs, l, paths, prefix))
  BY <1>1, AcquiredDisjoint DEF AfterCheck
<1> QED
  BY <1>2, <1>3, <1>4

\* A lane's own claim on a path it still needs survives its next check.
LEMMA AfterCheckKeepsOwn ==
  ASSUME NEW cs \in Registry, NEW l \in Lanes, NEW paths \in SUBSET Paths, NEW prefix \in BOOLEAN,
         now \in Nat, NEW p \in Paths, cs[p].holder = l, ~ Expired(cs[p])
  PROVE  LET c == AfterCheck(cs, l, paths, prefix)[p] IN
         /\ c.holder = l /\ (cs[p].prefix => c.prefix)
         /\ c.renewedAt \in {now, cs[p].renewedAt} /\ c.acquiredAt = cs[p].acquiredAt
<1>1. Reaped(cs) \in Registry /\ Reaped(cs)[p] = cs[p]
  BY Cleared DEF Reaped
<1>2. LET c == Acquired(Reaped(cs), l, paths, prefix)[p] IN
        /\ c.holder = l /\ (cs[p].prefix => c.prefix)
        /\ c.renewedAt \in {now, cs[p].renewedAt} /\ c.acquiredAt = cs[p].acquiredAt
  BY <1>1, AcquiredTakes DEF Registry, Claim, Taken
<1> QED
  BY <1>1, <1>2 DEF AfterCheck, Registry, Claim

\* A call let through in enforce has every claim it asked for.
LEMMA LetThroughHolds ==
  ASSUME NEW cs \in Registry, NEW l \in Lanes, NEW tool, NEW paths \in SUBSET Paths,
         NEW prefix \in BOOLEAN, now \in Nat, mode = "enforce", ~ Refused(cs, l, tool, paths, prefix)
  PROVE  \A p \in paths : /\ AfterCheck(cs, l, paths, prefix)[p].holder = l
                          /\ AfterCheck(cs, l, paths, prefix)[p].renewedAt = now
                          /\ prefix => AfterCheck(cs, l, paths, prefix)[p].prefix
<1>1. Conflicting(Reaped(cs), l, paths, prefix) = {} /\ Reaped(cs) \in Registry
  BY Cleared DEF Refused
<1>2. AfterCheck(cs, l, paths, prefix) = Acquired(Reaped(cs), l, paths, prefix)
  BY <1>1 DEF AfterCheck
<1>3. \A p \in paths : Taken(Reaped(cs)[p], Acquired(Reaped(cs), l, paths, prefix)[p], l, prefix)
  BY <1>1, AcquiredTakes
<1> QED
  BY <1>2, <1>3 DEF Taken

LEMMA TouchedKeeps ==
  ASSUME NEW l \in Lanes, claims \in Registry, now \in Nat, Disjoint(claims)
  PROVE  /\ Touched(l) \in Registry /\ Disjoint(Touched(l))
         /\ \A p \in Paths : claims[p].holder # l => Touched(l)[p] = claims[p]
         /\ \A p \in Paths : Touched(l)[p].holder = claims[p].holder
  BY RenewedKeeps DEF Touched

LEMMA NotedTyped ==
  ASSUME NEW vs \in [Paths -> [version : Nat, by : Lanes \cup {"none", "main"}]],
         NEW ps \in SUBSET Paths, NEW by \in Lanes \cup {"main"}
  PROVE  Noted(vs, ps, by) \in [Paths -> [version : Nat, by : Lanes \cup {"none", "main"}]]
  BY DEF Noted

-----------------------------------------------------------------------------
(* Types.                                                                  *)

LEMMA TypeInit == Init => TypeOK
  BY ClaimsAssumption DEF Init, TypeOK, Free, Claim, NoCall, NotGated, Steps, Tools, WriteTools, Modes

LEMMA IdleTyped ==
  ASSUME TypeOK, NEW l \in Lanes, Idle(l)
  PROVE  /\ step' \in [Lanes -> Steps]
         /\ call' \in [Lanes -> [tool : Tools \cup {"none"}, paths : SUBSET Paths, prefix : BOOLEAN]]
         /\ gated' \in [Lanes -> [at : Nat, since : [Paths -> Nat], enforced : BOOLEAN]]
<1>1. NoCall \in [tool : Tools \cup {"none"}, paths : SUBSET Paths, prefix : BOOLEAN]
  BY DEF NoCall
<1>2. NotGated \in [at : Nat, since : [Paths -> Nat], enforced : BOOLEAN]
  BY DEF NotGated
<1> QED
  BY <1>1, <1>2 DEF TypeOK, Idle, Steps

LEMMA ChangeTyped ==
  ASSUME TypeOK, NEW ps \in SUBSET Paths, NEW by, Change(ps, by)
  PROVE  changes' \in Nat /\ delta' \in [Lanes -> SUBSET Paths]
  BY DEF TypeOK, Change

LEMMA UnseenTyped ==
  ASSUME TypeOK, NEW ps \in SUBSET Paths, NEW by, Unseen(ps, by)
  PROVE  unseen' \in [Lanes -> SUBSET Paths]
  BY DEF TypeOK, Unseen

LEMMA LetThroughTyped ==
  ASSUME NEW l \in Lanes, NEW paths, claims' \in Registry, now \in Nat
  PROVE  LetThrough(l, paths) \in [at : Nat, since : [Paths -> Nat], enforced : BOOLEAN]
  BY DEF LetThrough, Registry, Claim

LEMMA TypeStep == TypeOK /\ ClaimsDisjoint /\ Next => TypeOK'
<1> SUFFICES ASSUME TypeOK, ClaimsDisjoint, Next
             PROVE  TypeOK'
  OBVIOUS
<1> USE ClaimsAssumption DEF registry, lane, world, history, LaneState
<1>0. claims \in Registry /\ Disjoint(claims) /\ now \in Nat
  BY DEF TypeOK, Registry, ClaimsDisjoint
<1>1. ASSUME NEW l \in Lanes, Gate(l) PROVE TypeOK'
  <2>1. PICK tool \in WriteTools \cap Kinds : \E paths \in Targets(tool = "relocate") :
          /\ claims' = AfterCheck(Touched(l), l, paths, tool = "relocate")
          /\ \E next \in {"writing", "asking"} : step' = [step EXCEPT ![l] = next]
          /\ gated' = [gated EXCEPT ![l] = IF mode = "enforce" THEN LetThrough(l, paths) ELSE NotGated]
          /\ StartCall(l, tool, paths, tool = "relocate")
    BY <1>1 DEF Gate
  <2>2. PICK paths \in Targets(tool = "relocate") :
          /\ claims' = AfterCheck(Touched(l), l, paths, tool = "relocate")
          /\ \E next \in {"writing", "asking"} : step' = [step EXCEPT ![l] = next]
          /\ gated' = [gated EXCEPT ![l] = IF mode = "enforce" THEN LetThrough(l, paths) ELSE NotGated]
          /\ StartCall(l, tool, paths, tool = "relocate")
    BY <2>1
  <2>3. paths \in SUBSET Paths /\ (tool = "relocate") \in BOOLEAN
    BY <2>2 DEF Targets, Files
  <2>4. claims' \in Registry
    BY <1>0, <2>2, <2>3, TouchedKeeps, AfterCheckKeeps
  <2>5. LetThrough(l, paths) \in [at : Nat, since : [Paths -> Nat], enforced : BOOLEAN]
    BY <1>0, <2>4, LetThroughTyped
  <2>6. gated' \in [Lanes -> [at : Nat, since : [Paths -> Nat], enforced : BOOLEAN]]
    BY <2>2, <2>5 DEF TypeOK, NotGated
  <2>7. [tool |-> tool, paths |-> paths, prefix |-> (tool = "relocate")]
          \in [tool : Tools \cup {"none"}, paths : SUBSET Paths, prefix : BOOLEAN]
    BY <2>3 DEF Tools
  <2> QED
    BY <2>2, <2>4, <2>6, <2>7 DEF TypeOK, StartCall, Registry, Steps
<1>2. ASSUME NEW l \in Lanes, GateRefuses(l) PROVE TypeOK'
  <2>1. PICK tool \in WriteTools \cap Kinds : \E paths \in Targets(tool = "relocate") :
          claims' = AfterCheck(Touched(l), l, paths, tool = "relocate")
    BY <1>2 DEF GateRefuses
  <2>2. PICK paths \in Targets(tool = "relocate") :
          claims' = AfterCheck(Touched(l), l, paths, tool = "relocate")
    BY <2>1
  <2>3. paths \in SUBSET Paths /\ (tool = "relocate") \in BOOLEAN
    BY <2>2 DEF Targets, Files
  <2>4. claims' \in Registry
    BY <1>0, <2>2, <2>3, TouchedKeeps, AfterCheckKeeps
  <2> QED
    BY <1>2, <2>4 DEF GateRefuses, TypeOK, Registry
<1>3. ASSUME NEW l \in Lanes, StartOther(l) PROVE TypeOK'
  <2>1. PICK tool \in Kinds \ WriteTools : \E paths \in IF tool = "read" THEN {{p} : p \in Files} ELSE {{}} :
          /\ claims' = Touched(l)
          /\ step' = [step EXCEPT ![l] = IF tool = "read" THEN "reading" ELSE "asking"]
          /\ UNCHANGED gated
          /\ StartCall(l, tool, paths, FALSE)
    BY <1>3 DEF StartOther
  <2>2. PICK paths \in IF tool = "read" THEN {{p} : p \in Files} ELSE {{}} :
          /\ claims' = Touched(l)
          /\ step' = [step EXCEPT ![l] = IF tool = "read" THEN "reading" ELSE "asking"]
          /\ UNCHANGED gated
          /\ StartCall(l, tool, paths, FALSE)
    BY <2>1
  <2>3. [tool |-> tool, paths |-> paths, prefix |-> FALSE]
          \in [tool : Tools \cup {"none"}, paths : SUBSET Paths, prefix : BOOLEAN]
    BY <2>2 DEF Files
  <2>4. claims' \in Registry
    BY <1>0, <2>2, TouchedKeeps
  <2> QED
    BY <2>2, <2>3, <2>4 DEF TypeOK, StartCall, Registry, Steps
<1>4. ASSUME NEW l \in Lanes, AtApproval(l) PROVE TypeOK'
  <2>1. PICK prefix \in BOOLEAN, paths \in SUBSET Paths :
          /\ claims' = AfterCheck(claims, l, paths, prefix)
          /\ \/ Idle(l)
             \/ /\ step' = [step EXCEPT ![l] = "writing"]
                /\ call' = [call EXCEPT ![l] = [tool |-> @.tool, paths |-> paths, prefix |-> prefix]]
                /\ gated' = IF mode = "enforce" THEN [gated EXCEPT ![l] = LetThrough(l, paths)]
                            ELSE gated
    <3>1. CASE call[l].tool = "refactor"
      <4>1. \A prefix \in BOOLEAN : Targets(prefix) \subseteq SUBSET Paths
        BY DEF Targets, Files
      <4> QED
        BY <1>4, <3>1, <4>1 DEF AtApproval
    <3>2. CASE call[l].tool # "refactor"
      <4>1. call[l].prefix \in BOOLEAN /\ call[l].paths \in SUBSET Paths
        BY DEF TypeOK
      <4> QED
        BY <1>4, <3>2, <4>1 DEF AtApproval
    <3> QED
      BY <3>1, <3>2
  <2>2. claims' \in Registry
    BY <1>0, <2>1, AfterCheckKeeps
  <2>3. LetThrough(l, paths) \in [at : Nat, since : [Paths -> Nat], enforced : BOOLEAN]
    BY <1>0, <2>2, LetThroughTyped
  <2>4. /\ step' \in [Lanes -> Steps]
        /\ call' \in [Lanes -> [tool : Tools \cup {"none"}, paths : SUBSET Paths, prefix : BOOLEAN]]
        /\ gated' \in [Lanes -> [at : Nat, since : [Paths -> Nat], enforced : BOOLEAN]]
    <3>1. CASE Idle(l)
      BY <3>1, IdleTyped
    <3>2. CASE ~ Idle(l)
      <4>0. /\ step' = [step EXCEPT ![l] = "writing"]
            /\ call' = [call EXCEPT ![l] = [tool |-> @.tool, paths |-> paths, prefix |-> prefix]]
            /\ gated' = IF mode = "enforce" THEN [gated EXCEPT ![l] = LetThrough(l, paths)] ELSE gated
        BY <2>1, <3>2
      <4>3. call' \in [Lanes -> [tool : Tools \cup {"none"}, paths : SUBSET Paths, prefix : BOOLEAN]]
        BY <4>0 DEF TypeOK
      <4>4. step' \in [Lanes -> Steps]
        BY <4>0 DEF TypeOK, Steps
      <4>5. gated' \in [Lanes -> [at : Nat, since : [Paths -> Nat], enforced : BOOLEAN]]
        <5>1. CASE mode = "enforce"
          BY <4>0, <2>3, <5>1 DEF TypeOK
        <5>2. CASE mode # "enforce"
          BY <4>0, <5>2 DEF TypeOK
        <5> QED
          BY <5>1, <5>2
      <4> QED
        BY <4>3, <4>4, <4>5
    <3> QED
      BY <3>1, <3>2
  <2> QED
    BY <1>4, <2>2, <2>4 DEF AtApproval, TypeOK, Registry
<1>5. ASSUME NEW l \in Lanes, Write(l) PROVE TypeOK'
  <2>1. Reach(call[l].paths, call[l].prefix) \in SUBSET Paths
    BY DEF Reach, TypeOK
  <2>2. /\ changes' \in Nat /\ delta' \in [Lanes -> SUBSET Paths]
        /\ unseen' \in [Lanes -> SUBSET Paths]
    BY <1>5, <2>1, ChangeTyped, UnseenTyped DEF Write, TypeOK
  <2> QED
    BY <1>5, <2>2 DEF Write, TypeOK, Steps
<1>6. ASSUME NEW l \in Lanes, CallFails(l) PROVE TypeOK'
  BY <1>6, IdleTyped DEF CallFails, TypeOK
<1>7. ASSUME NEW l \in Lanes, Settle(l) PROVE TypeOK'
  <2>1. Noted(versions, call[l].paths, l) \in [Paths -> [version : Nat, by : Lanes \cup {"none", "main"}]]
    BY NotedTyped DEF TypeOK
  <2>2. versions' \in [Paths -> [version : Nat, by : Lanes \cup {"none", "main"}]]
    BY <1>7, <2>1 DEF Settle, TypeOK
  <2>3. known' \in [Lanes -> [Paths -> Nat \cup {-1}]]
    <3>1. \A p \in Paths : versions'[p].version \in Nat /\ known[l][p] \in Nat \cup {-1}
      BY <2>2 DEF TypeOK
    <3>2. CASE mode = "off"
      BY <1>7, <3>2 DEF Settle, TypeOK
    <3>3. CASE mode # "off"
      <4>1. known' = [known EXCEPT ![l] = [p \in Paths |->
                        IF p \in call[l].paths THEN versions'[p].version ELSE known[l][p]]]
        BY <1>7, <3>3 DEF Settle, TypeOK
      <4> QED
        BY <3>1, <4>1 DEF TypeOK
    <3> QED
      BY <3>2, <3>3
  <2> QED
    BY <1>7, <2>2, <2>3, IdleTyped DEF Settle, TypeOK
<1>8. ASSUME NEW l \in Lanes, SettleRead(l) PROVE TypeOK'
  <2>1. known' \in [Lanes -> [Paths -> Nat \cup {-1}]]
    BY <1>8 DEF SettleRead, TypeOK
  <2> QED
    BY <1>8, <2>1, IdleTyped DEF SettleRead, TypeOK
<1>9. ASSUME NEW l \in Lanes, BeginShell(l) PROVE TypeOK'
  <2>1. shells' \in [Lanes -> {"none", "alone", "overlapped"}]
    <3>1. ShellsWith(l) \in [Lanes -> {"none", "alone", "overlapped"}]
      BY DEF ShellsWith
    <3> QED
      BY <1>9, <3>1 DEF BeginShell, TypeOK
  <2>2. runs' \in [Lanes -> Nat] /\ ranOff' \in [Lanes -> BOOLEAN] /\ step' \in [Lanes -> Steps]
    <3>1. CASE mode = "off"
      BY <1>9, <3>1 DEF BeginShell, TypeOK, Steps
    <3>2. CASE mode # "off"
      <4>1. /\ runs' = [runs EXCEPT ![l] = runs[l] + 1] /\ ranOff' = ranOff
            /\ step' = [step EXCEPT ![l] = "shell"]
        BY <1>9, <3>2 DEF BeginShell
      <4>2. runs[l] + 1 \in Nat
        BY DEF TypeOK
      <4> QED
        BY <4>1, <4>2 DEF TypeOK, Steps
    <3> QED
      BY <3>1, <3>2
  <2> QED
    BY <1>9, <2>1, <2>2 DEF BeginShell, TypeOK
<1>10. ASSUME NEW l \in Lanes, SnapshotBefore(l) PROVE TypeOK'
  BY <1>10 DEF SnapshotBefore, TypeOK, Steps
<1>11. ASSUME NEW l \in Lanes, CommandWrites(l) PROVE TypeOK'
  <2>1. PICK p \in Files :
          /\ Change({p}, l)
          /\ own' = [own EXCEPT ![l] = @ \cup {p}]
          /\ foreign' = [m \in Lanes |->
               IF m # l /\ shells[l] # "none" /\ before[m] /\ step[m] # "diffing"
               THEN foreign[m] \cup {p} ELSE foreign[m]]
    BY <1>11 DEF CommandWrites
  <2>2. p \in Paths
    BY DEF Files
  <2>3. changes' \in Nat /\ delta' \in [Lanes -> SUBSET Paths]
    BY <2>1, <2>2, ChangeTyped
  <2>4. own' \in [Lanes -> SUBSET Paths] /\ foreign' \in [Lanes -> SUBSET Paths]
    BY <2>1, <2>2 DEF TypeOK
  <2> QED
    BY <1>11, <2>3, <2>4 DEF CommandWrites, TypeOK
<1>12. ASSUME NEW l \in Lanes, EndCommand(l) PROVE TypeOK'
  <2>1. /\ step' \in [Lanes -> Steps]
        /\ call' \in [Lanes -> [tool : Tools \cup {"none"}, paths : SUBSET Paths, prefix : BOOLEAN]]
        /\ gated' \in [Lanes -> [at : Nat, since : [Paths -> Nat], enforced : BOOLEAN]]
        /\ ranOff' \in [Lanes -> BOOLEAN]
    <3>1. CASE mode = "off"
      BY <1>12, <3>1, IdleTyped DEF EndCommand, TypeOK
    <3>2. CASE mode # "off"
      BY <1>12, <3>2 DEF EndCommand, TypeOK, Steps
    <3> QED
      BY <3>1, <3>2
  <2> QED
    BY <1>12, <2>1 DEF EndCommand, TypeOK
<1>13. ASSUME NEW l \in Lanes, SnapshotAfter(l) PROVE TypeOK'
  BY <1>13 DEF SnapshotAfter, TypeOK, Steps
<1>14. ASSUME NEW l \in Lanes, Attribute(l) PROVE TypeOK'
  <2>1. Noted(versions, delta[l], l) \in [Paths -> [version : Nat, by : Lanes \cup {"none", "main"}]]
    BY NotedTyped DEF TypeOK
  <2>2. /\ versions' \in [Paths -> [version : Nat, by : Lanes \cup {"none", "main"}]]
        /\ shellChanged' \in [Lanes -> SUBSET Paths] /\ unattributed' \in [Lanes -> SUBSET Paths]
        /\ deltas' \in [Lanes -> Nat]
    <3>1. CASE ~ Diffed(l)
      BY <1>14, <3>1 DEF Attribute, TypeOK
    <3>0. deltas[l] + 1 \in Nat /\ delta[l] \in SUBSET Paths
      BY DEF TypeOK
    <3>2. CASE Diffed(l) /\ shells[l] = "overlapped"
      <4>1. /\ deltas' = [deltas EXCEPT ![l] = deltas[l] + 1]
            /\ unattributed' = [unattributed EXCEPT ![l] = unattributed[l] \cup delta[l]]
            /\ versions' = versions /\ shellChanged' = shellChanged
        BY <1>14, <3>2 DEF Attribute
      <4> QED
        BY <3>0, <4>1 DEF TypeOK
    <3>3. CASE Diffed(l) /\ shells[l] # "overlapped"
      <4>1. /\ deltas' = [deltas EXCEPT ![l] = deltas[l] + 1]
            /\ shellChanged' = [shellChanged EXCEPT ![l] = shellChanged[l] \cup delta[l]]
            /\ versions' = Noted(versions, delta[l], l) /\ unattributed' = unattributed
        BY <1>14, <3>3 DEF Attribute
      <4> QED
        BY <2>1, <3>0, <4>1 DEF TypeOK
    <3> QED
      BY <3>1, <3>2, <3>3
  <2>3. /\ shells' \in [Lanes -> {"none", "alone", "overlapped"}]
        /\ before' \in [Lanes -> BOOLEAN] /\ after' \in [Lanes -> BOOLEAN]
        /\ delta' \in [Lanes -> SUBSET Paths]
    BY <1>14 DEF Attribute, TypeOK
  <2>4. claims' \in Registry
    BY <1>0, <1>14, Cleared DEF Attribute
  <2> QED
    BY <1>14, <2>2, <2>3, <2>4, IdleTyped DEF Attribute, TypeOK, Registry
<1>15. ASSUME NEW l \in Lanes, LaneEnds(l) PROVE TypeOK'
  <2>1. claims' \in Registry
    BY <1>0, <1>15, Cleared DEF LaneEnds
  <2> QED
    BY <1>15, <2>1 DEF LaneEnds, TypeOK, Registry, Steps
<1>16. ASSUME NEW l \in Lanes, LaneResumes(l) PROVE TypeOK'
  BY <1>16 DEF LaneResumes, TypeOK, Steps
<1>17. ASSUME MainWrites PROVE TypeOK'
  <2>1. PICK p \in Files : mainWrites' = p /\ Change({p}, "main") /\ Unseen({p}, "main")
    BY <1>17 DEF MainWrites
  <2>2. p \in Paths
    BY DEF Files
  <2>3. /\ changes' \in Nat /\ delta' \in [Lanes -> SUBSET Paths]
        /\ unseen' \in [Lanes -> SUBSET Paths]
    BY <2>1, <2>2, ChangeTyped, UnseenTyped
  <2>4. claims' \in Registry
    BY <1>0, <1>17, ReapedKeeps DEF MainWrites
  <2> QED
    BY <1>17, <2>1, <2>2, <2>3, <2>4 DEF MainWrites, TypeOK, Registry
<1>18. ASSUME MainSettles PROVE TypeOK'
  <2>1. Noted(versions, {mainWrites}, "main") \in [Paths -> [version : Nat, by : Lanes \cup {"none", "main"}]]
    BY <1>18, NotedTyped DEF TypeOK, MainSettles
  <2> QED
    BY <1>18, <2>1 DEF MainSettles, TypeOK
<1>19. ASSUME SetMode PROVE TypeOK'
  BY <1>19 DEF SetMode, TypeOK
<1>20. ASSUME Tick PROVE TypeOK'
  BY <1>20 DEF Tick, TypeOK
<1> QED
  BY <1>1, <1>2, <1>3, <1>4, <1>5, <1>6, <1>7, <1>8, <1>9, <1>10, <1>11, <1>12, <1>13,
     <1>14, <1>15, <1>16, <1>17, <1>18, <1>19, <1>20 DEF Next, LaneStep

-----------------------------------------------------------------------------
(* Claims.                                                                 *)

LEMMA ClaimInit == Init => GatedOnlyInCall /\ ClaimsDisjoint /\ Claimed
  BY DEF Init, GatedOnlyInCall, ClaimsDisjoint, Disjoint, Claimed, MidWrite, NotGated, Free

LEMMA GatedStep == TypeOK /\ GatedOnlyInCall /\ Next => GatedOnlyInCall'
<1> SUFFICES ASSUME TypeOK, GatedOnlyInCall, Next
             PROVE  GatedOnlyInCall'
  OBVIOUS
<1> USE DEF registry, lane, world, history, LaneState, TypeOK, GatedOnlyInCall, Idle, NotGated, LetThrough
<1>1. ASSUME NEW l \in Lanes, Gate(l) PROVE GatedOnlyInCall'
  BY <1>1 DEF Gate, StartCall, WriteTools
<1>2. ASSUME NEW l \in Lanes, GateRefuses(l) PROVE GatedOnlyInCall'
  BY <1>2 DEF GateRefuses
<1>3. ASSUME NEW l \in Lanes, StartOther(l) PROVE GatedOnlyInCall'
  BY <1>3 DEF StartOther, StartCall
<1>4. ASSUME NEW l \in Lanes, AtApproval(l) PROVE GatedOnlyInCall'
  <2>1. CASE Idle(l)
    BY <1>4, <2>1 DEF AtApproval
  <2>2. CASE ~ Idle(l)
    <3>1. /\ step' = [step EXCEPT ![l] = "writing"]
          /\ \A m \in Lanes : m # l => call'[m] = call[m] /\ gated'[m] = gated[m]
          /\ gated'[l] = gated[l] \/ gated'[l].at = now
          /\ UNCHANGED now
      BY <1>4, <2>2 DEF AtApproval
    <3> QED
      BY <3>1
  <2> QED
    BY <2>1, <2>2
<1>5. ASSUME NEW l \in Lanes, Write(l) PROVE GatedOnlyInCall'
  BY <1>5 DEF Write
<1>6. ASSUME NEW l \in Lanes, CallFails(l) PROVE GatedOnlyInCall'
  BY <1>6 DEF CallFails
<1>7. ASSUME NEW l \in Lanes, Settle(l) PROVE GatedOnlyInCall'
  BY <1>7 DEF Settle
<1>8. ASSUME NEW l \in Lanes, SettleRead(l) PROVE GatedOnlyInCall'
  BY <1>8 DEF SettleRead
<1>9. ASSUME NEW l \in Lanes, BeginShell(l) PROVE GatedOnlyInCall'
  BY <1>9 DEF BeginShell
<1>10. ASSUME NEW l \in Lanes, SnapshotBefore(l) PROVE GatedOnlyInCall'
  BY <1>10 DEF SnapshotBefore
<1>11. ASSUME NEW l \in Lanes, CommandWrites(l) PROVE GatedOnlyInCall'
  BY <1>11 DEF CommandWrites
<1>12. ASSUME NEW l \in Lanes, EndCommand(l) PROVE GatedOnlyInCall'
  <2>1. CASE mode = "off"
    <3>1. /\ \A m \in Lanes : m # l => call'[m] = call[m] /\ gated'[m] = gated[m] /\ step'[m] = step[m]
          /\ gated'[l] = NotGated /\ UNCHANGED now
      BY <1>12, <2>1 DEF EndCommand
    <3>2. NotGated.at = 0 /\ ~ NotGated.enforced /\ now \in Nat
      OBVIOUS
    <3> HIDE DEF NotGated
    <3>3. ASSUME NEW m \in Lanes
          PROVE  /\ gated'[m].at <= now'
                 /\ gated'[m].enforced => m # l
      BY <3>1, <3>2
    <3> QED
      BY <3>1, <3>3
  <2>2. CASE mode # "off"
    BY <1>12, <2>2 DEF EndCommand
  <2> QED
    BY <2>1, <2>2
<1>13. ASSUME NEW l \in Lanes, SnapshotAfter(l) PROVE GatedOnlyInCall'
  BY <1>13 DEF SnapshotAfter
<1>14. ASSUME NEW l \in Lanes, Attribute(l) PROVE GatedOnlyInCall'
  BY <1>14 DEF Attribute
<1>15. ASSUME NEW l \in Lanes, LaneEnds(l) PROVE GatedOnlyInCall'
  BY <1>15 DEF LaneEnds
<1>16. ASSUME NEW l \in Lanes, LaneResumes(l) PROVE GatedOnlyInCall'
  BY <1>16 DEF LaneResumes
<1>17. ASSUME MainWrites PROVE GatedOnlyInCall'
  BY <1>17 DEF MainWrites
<1>18. ASSUME MainSettles PROVE GatedOnlyInCall'
  BY <1>18 DEF MainSettles
<1>19. ASSUME SetMode PROVE GatedOnlyInCall'
  BY <1>19 DEF SetMode
<1>20. ASSUME Tick PROVE GatedOnlyInCall'
  BY <1>20 DEF Tick
<1> QED
  BY <1>1, <1>2, <1>3, <1>4, <1>5, <1>6, <1>7, <1>8, <1>9, <1>10, <1>11, <1>12, <1>13,
     <1>14, <1>15, <1>16, <1>17, <1>18, <1>19, <1>20 DEF Next, LaneStep

LEMMA DisjointStep == TypeOK /\ ClaimsDisjoint /\ Next => ClaimsDisjoint'
<1> SUFFICES ASSUME TypeOK, ClaimsDisjoint, Next
             PROVE  ClaimsDisjoint'
  OBVIOUS
<1> USE DEF registry, lane, world, history, LaneState
<1>0. claims \in Registry /\ Disjoint(claims) /\ now \in Nat
  BY DEF TypeOK, Registry, ClaimsDisjoint
<1>1. UNCHANGED claims \/ Disjoint(claims') => ClaimsDisjoint'
  BY <1>0 DEF ClaimsDisjoint, Disjoint, Overlap
<1>2. ASSUME NEW l \in Lanes, Gate(l) \/ GateRefuses(l) PROVE ClaimsDisjoint'
  <2>1. PICK paths \in SUBSET Paths, prefix \in BOOLEAN : claims' = AfterCheck(Touched(l), l, paths, prefix)
    BY <1>2 DEF Gate, GateRefuses, Targets, Files
  <2> QED
    BY <1>0, <1>1, <2>1, TouchedKeeps, AfterCheckKeeps
<1>3. ASSUME NEW l \in Lanes, StartOther(l) PROVE ClaimsDisjoint'
  BY <1>0, <1>1, <1>3, TouchedKeeps DEF StartOther
<1>4. ASSUME NEW l \in Lanes, AtApproval(l) PROVE ClaimsDisjoint'
  <2>1. PICK paths \in SUBSET Paths, prefix \in BOOLEAN : claims' = AfterCheck(claims, l, paths, prefix)
    BY <1>4 DEF AtApproval, TypeOK, Targets, Files
  <2> QED
    BY <1>0, <1>1, <2>1, AfterCheckKeeps
<1>5. ASSUME NEW l \in Lanes, LaneEnds(l) PROVE ClaimsDisjoint'
  BY <1>0, <1>1, <1>5, Cleared DEF LaneEnds
<1>6. ASSUME NEW l \in Lanes,
             \/ Write(l) \/ CallFails(l) \/ Settle(l) \/ SettleRead(l) \/ BeginShell(l)
             \/ SnapshotBefore(l) \/ CommandWrites(l) \/ EndCommand(l) \/ SnapshotAfter(l)
             \/ Attribute(l) \/ LaneResumes(l)
      PROVE  ClaimsDisjoint'
  <2>1. claims' \in {claims, Reaped(claims)}
    BY <1>6 DEF Write, CallFails, Settle, SettleRead, BeginShell, SnapshotBefore, CommandWrites,
                EndCommand, SnapshotAfter, Attribute, LaneResumes
  <2> QED
    BY <1>0, <1>1, <2>1, ReapedKeeps
<1>7. ASSUME MainWrites \/ MainSettles \/ SetMode \/ Tick PROVE ClaimsDisjoint'
  <2>1. claims' \in {claims, Reaped(claims)}
    BY <1>7 DEF MainWrites, MainSettles, SetMode, Tick
  <2> QED
    BY <1>0, <1>1, <2>1, ReapedKeeps
<1> QED
  BY <1>2, <1>3, <1>4, <1>5, <1>6, <1>7 DEF Next, LaneStep

\* What a lane in the middle of a write holds has not run out.
LEMMA HeldIsFresh ==
  ASSUME TypeOK, Claimed, NEW l \in Lanes, MidWrite(l), NEW p \in call[l].paths
  PROVE  p \in Paths /\ claims[p].holder = l /\ ~ Expired(claims[p])
<1>1. p \in Paths
  BY DEF TypeOK
<1>2. claims[p] \in Claim /\ gated[l] \in [at : Nat, since : [Paths -> Nat], enforced : BOOLEAN]
  BY <1>1 DEF TypeOK
<1>3. /\ now - gated[l].at <= Lease /\ now - gated[l].since[p] <= MaxLease
      /\ claims[p].holder = l /\ claims[p].renewedAt >= gated[l].at
      /\ claims[p].acquiredAt = gated[l].since[p]
  BY DEF MidWrite, Claimed
<1>4. now \in Nat /\ Lease \in Nat /\ MaxLease \in Nat /\ gated[l].since[p] \in Nat
  BY <1>1, <1>2, ClaimsAssumption DEF TypeOK
<1> QED
  BY <1>1, <1>2, <1>3, <1>4 DEF Expired, Claim

LEMMA ClaimedStep ==
  TypeOK /\ GatedOnlyInCall /\ ClaimsDisjoint /\ Claimed /\ Next => Claimed'
<1> SUFFICES ASSUME TypeOK, GatedOnlyInCall, ClaimsDisjoint, Claimed, Next
             PROVE  Claimed'
  OBVIOUS
<1> USE DEF registry, lane, world, history, LaneState
<1>0. claims \in Registry /\ Disjoint(claims) /\ now \in Nat
  BY DEF TypeOK, Registry, ClaimsDisjoint
<1> DEFINE Kept(l, p) ==
      /\ claims'[p].holder = l
      /\ call'[l].prefix => claims'[p].prefix
      /\ claims'[p].renewedAt >= gated'[l].at
      /\ claims'[p].acquiredAt = gated'[l].since[p]
\* A lane that goes on with its write, and whose claims stay as they are, still has them.
<1>1. ASSUME NEW m \in Lanes, MidWrite(m)', call'[m] = call[m], gated'[m] = gated[m],
             step[m] \in {"asking", "writing", "written"}, now' \in {now, now + 1},
             \A p \in call[m].paths : claims[p].holder = m /\ ~ Expired(claims[p]) => claims'[p] = claims[p]
      PROVE  \A p \in call'[m].paths : Kept(m, p)
  <2>1. gated[m] \in [at : Nat, since : [Paths -> Nat], enforced : BOOLEAN] /\ call[m].paths \subseteq Paths
    BY DEF TypeOK
  <2>2. MidWrite(m)
    BY <1>0, <1>1, <2>1, ClaimsAssumption DEF MidWrite
  <2>3. \A p \in call[m].paths : claims'[p] = claims[p]
    BY <1>1, <2>2, HeldIsFresh
  <2> QED
    BY <1>1, <2>2, <2>3 DEF Claimed
<1>2. ASSUME NEW l \in Lanes, Gate(l) \/ GateRefuses(l) PROVE Claimed'
  <2>1. PICK paths \in SUBSET Paths, prefix \in BOOLEAN : claims' = AfterCheck(Touched(l), l, paths, prefix)
    BY <1>2 DEF Gate, GateRefuses, Targets, Files
  <2>2. ASSUME NEW m \in Lanes, m # l, MidWrite(m)' PROVE \A p \in call'[m].paths : Kept(m, p)
    <3>1. call'[m] = call[m] /\ gated'[m] = gated[m] /\ step'[m] = step[m] /\ now' = now
      BY <1>2, <2>2 DEF Gate, GateRefuses, StartCall, TypeOK
    <3>2. \A p \in Paths : claims[p].holder = m /\ ~ Expired(claims[p]) => claims'[p] = claims[p]
      BY <1>0, <2>1, <2>2, TouchedKeeps, AfterCheckKeeps, ClaimsAssumption
    <3> QED
      BY <1>1, <2>2, <3>1, <3>2 DEF MidWrite, TypeOK
  <2>3. ASSUME MidWrite(l)' PROVE \A p \in call'[l].paths : Kept(l, p)
    <3>1. Gate(l) /\ mode = "enforce"
      <4>1. step[l] = "idle" /\ ~ gated[l].enforced
        BY <1>2 DEF Gate, GateRefuses, StartCall, GatedOnlyInCall
      <4>2. ~ GateRefuses(l)
        BY <2>3, <4>1 DEF GateRefuses, MidWrite
      <4>3. mode # "enforce" => gated' = [gated EXCEPT ![l] = NotGated]
        BY <1>2, <4>2 DEF Gate
      <4>4. mode # "enforce" => ~ gated'[l].enforced
        BY <4>3 DEF NotGated, TypeOK
      <4> QED
        BY <1>2, <2>3, <4>2, <4>4 DEF MidWrite
    <3>2. PICK tool \in WriteTools \cap Kinds : \E ps \in Targets(tool = "relocate") :
            /\ claims' = AfterCheck(Touched(l), l, ps, tool = "relocate")
            /\ ~ Refused(Touched(l), l, tool, ps, tool = "relocate")
            /\ gated' = [gated EXCEPT ![l] = IF mode = "enforce" THEN LetThrough(l, ps) ELSE NotGated]
            /\ StartCall(l, tool, ps, tool = "relocate")
      BY <3>1 DEF Gate
    <3>3. PICK ps \in Targets(tool = "relocate") :
            /\ claims' = AfterCheck(Touched(l), l, ps, tool = "relocate")
            /\ ~ Refused(Touched(l), l, tool, ps, tool = "relocate")
            /\ gated' = [gated EXCEPT ![l] = IF mode = "enforce" THEN LetThrough(l, ps) ELSE NotGated]
            /\ StartCall(l, tool, ps, tool = "relocate")
      BY <3>2
    <3>4. ps \in SUBSET Paths /\ (tool = "relocate") \in BOOLEAN /\ Touched(l) \in Registry
      BY <1>0, <3>3, TouchedKeeps DEF Targets, Files
    <3>5. \A p \in ps : /\ claims'[p].holder = l /\ claims'[p].renewedAt = now
                        /\ (tool = "relocate") => claims'[p].prefix
      <4> DEFINE whole == tool = "relocate"
      <4>1. whole \in BOOLEAN /\ ~ Refused(Touched(l), l, tool, ps, whole)
            /\ claims' = AfterCheck(Touched(l), l, ps, whole)
        BY <3>3
      <4> HIDE DEF whole
      <4> DEFINE asked == Touched(l)
      <4>2. asked \in Registry /\ ps \in SUBSET Paths /\ mode = "enforce" /\ now \in Nat
            /\ ~ Refused(asked, l, tool, ps, whole)
        BY <1>0, <3>1, <3>4, <4>1
      <4> HIDE DEF asked
      <4>3. \A p \in ps : /\ AfterCheck(asked, l, ps, whole)[p].holder = l
                          /\ AfterCheck(asked, l, ps, whole)[p].renewedAt = now
                          /\ whole => AfterCheck(asked, l, ps, whole)[p].prefix
        BY <4>1, <4>2, LetThroughHolds
      <4>4. claims' = AfterCheck(asked, l, ps, whole)
        BY <4>1 DEF asked
      <4>5. \A p \in ps : /\ claims'[p].holder = l /\ claims'[p].renewedAt = now
                          /\ whole => claims'[p].prefix
        BY <4>3, <4>4
      <4> QED
        BY <4>5 DEF whole
    <3>6. call'[l] = [tool |-> tool, paths |-> ps, prefix |-> (tool = "relocate")]
          /\ gated'[l] = LetThrough(l, ps)
      BY <3>1, <3>3 DEF StartCall, TypeOK
    <3>7. call'[l].paths = ps /\ call'[l].prefix = (tool = "relocate")
      BY <3>6
    <3>8. gated'[l].at = now /\ \A p \in ps : gated'[l].since[p] = claims'[p].acquiredAt
      BY <3>4, <3>6 DEF LetThrough
    <3>9. call'[l].prefix => tool = "relocate"
      BY <3>7, Zenon
    <3> QED
      BY <1>0, <3>5, <3>7, <3>8, <3>9
  <2> QED
    BY <2>2, <2>3 DEF Claimed
<1>3. ASSUME NEW l \in Lanes, StartOther(l) PROVE Claimed'
  <2>1. ASSUME NEW m \in Lanes, MidWrite(m)' PROVE \A p \in call'[m].paths : Kept(m, p)
    <3>1. m # l
      BY <1>3, <2>1 DEF StartOther, StartCall, MidWrite, GatedOnlyInCall
    <3>2. call'[m] = call[m] /\ gated'[m] = gated[m] /\ step'[m] = step[m] /\ now' = now
      BY <1>3, <3>1 DEF StartOther, StartCall, TypeOK
    <3>3. \A p \in Paths : claims[p].holder = m => claims'[p] = claims[p]
      BY <1>0, <1>3, <3>1, TouchedKeeps DEF StartOther
    <3> QED
      BY <1>1, <2>1, <3>2, <3>3 DEF MidWrite, TypeOK
  <2> QED
    BY <2>1 DEF Claimed
<1>4. ASSUME NEW l \in Lanes, AtApproval(l) PROVE Claimed'
  <2>1. PICK prefix \in BOOLEAN, paths \in SUBSET Paths :
          /\ call[l].tool # "refactor" => prefix = call[l].prefix /\ paths = call[l].paths
          /\ claims' = AfterCheck(claims, l, paths, prefix)
          /\ \/ Idle(l)
             \/ /\ ~ Refused(claims, l, call[l].tool, paths, prefix)
                /\ step' = [step EXCEPT ![l] = "writing"]
                /\ call' = [call EXCEPT ![l] = [tool |-> @.tool, paths |-> paths, prefix |-> prefix]]
                /\ gated' = IF mode = "enforce" THEN [gated EXCEPT ![l] = LetThrough(l, paths)]
                            ELSE gated
    <3>1. CASE call[l].tool = "refactor"
      <4>1. \A prefix \in BOOLEAN : Targets(prefix) \subseteq SUBSET Paths
        BY DEF Targets, Files
      <4> QED
        BY <1>4, <3>1, <4>1 DEF AtApproval
    <3>2. CASE call[l].tool # "refactor"
      <4>1. call[l].prefix \in BOOLEAN /\ call[l].paths \in SUBSET Paths
        BY DEF TypeOK
      <4> QED
        BY <1>4, <3>2, <4>1 DEF AtApproval
    <3> QED
      BY <3>1, <3>2
  <2>2. ASSUME NEW m \in Lanes, m # l, MidWrite(m)' PROVE \A p \in call'[m].paths : Kept(m, p)
    <3>1. call'[m] = call[m] /\ gated'[m] = gated[m] /\ step'[m] = step[m] /\ now' = now
      BY <1>4, <2>2 DEF AtApproval, Idle, TypeOK
    <3>2. \A p \in Paths : claims[p].holder = m /\ ~ Expired(claims[p]) => claims'[p] = claims[p]
      BY <1>0, <2>1, <2>2, AfterCheckKeeps, ClaimsAssumption
    <3> QED
      BY <1>1, <2>2, <3>1, <3>2 DEF MidWrite, TypeOK
  <2>3. ASSUME MidWrite(l)' PROVE \A p \in call'[l].paths : Kept(l, p)
    <3>0. /\ ~ Refused(claims, l, call[l].tool, paths, prefix)
          /\ call'[l].paths = paths /\ call'[l].prefix = prefix
          /\ gated' = IF mode = "enforce" THEN [gated EXCEPT ![l] = LetThrough(l, paths)] ELSE gated
          /\ now' = now /\ step[l] = "asking"
      BY <1>4, <2>1, <2>3 DEF AtApproval, Idle, MidWrite, TypeOK
    <3>1. CASE mode = "enforce"
      <4>1. \A p \in paths : /\ claims'[p].holder = l /\ claims'[p].renewedAt = now
                             /\ prefix => claims'[p].prefix
        <5>1. claims' = AfterCheck(claims, l, paths, prefix)
          BY <2>1
        <5> DEFINE tool == call[l].tool
        <5>2. ~ Refused(claims, l, tool, paths, prefix)
          BY <3>0
        <5> HIDE DEF tool
        <5>3. \A p \in paths : /\ AfterCheck(claims, l, paths, prefix)[p].holder = l
                               /\ AfterCheck(claims, l, paths, prefix)[p].renewedAt = now
                               /\ prefix => AfterCheck(claims, l, paths, prefix)[p].prefix
          BY <1>0, <3>1, <5>2, LetThroughHolds
        <5> QED
          BY <5>1, <5>3
      <4>2. gated'[l] = LetThrough(l, paths)
        BY <3>0, <3>1 DEF TypeOK
      <4>3. \A p \in paths : LetThrough(l, paths).since[p] = claims'[p].acquiredAt /\ LetThrough(l, paths).at = now
        BY DEF LetThrough
      <4> QED
        BY <1>0, <3>0, <4>1, <4>2, <4>3
    <3>2. CASE mode # "enforce"
      <4>1. gated'[l] = gated[l] /\ gated[l].enforced /\ gated[l].at <= now
        BY <2>3, <3>0, <3>2 DEF MidWrite, GatedOnlyInCall
      <4>2. prefix = call[l].prefix /\ paths = call[l].paths
        BY <2>1, <3>0, <4>1 DEF GatedOnlyInCall
      <4>3. MidWrite(l)
        BY <2>3, <3>0, <4>1, <4>2 DEF MidWrite
      <4>4. ASSUME NEW p \in paths PROVE Kept(l, p)
        <5>1. p \in Paths /\ claims[p].holder = l /\ ~ Expired(claims[p])
          BY <4>2, <4>3, <4>4, HeldIsFresh
        <5>2. /\ claims'[p].holder = l /\ (claims[p].prefix => claims'[p].prefix)
              /\ claims'[p].renewedAt \in {now, claims[p].renewedAt}
              /\ claims'[p].acquiredAt = claims[p].acquiredAt
          BY <1>0, <2>1, <5>1, AfterCheckKeepsOwn
        <5>3. /\ call[l].prefix => claims[p].prefix
              /\ claims[p].renewedAt >= gated[l].at
              /\ claims[p].acquiredAt = gated[l].since[p]
          BY <4>2, <4>3, <4>4 DEF Claimed
        <5> QED
          BY <3>0, <4>1, <4>2, <5>2, <5>3
      <4> QED
        BY <3>0, <4>4
    <3> QED
      BY <3>1, <3>2
  <2> QED
    BY <2>2, <2>3 DEF Claimed
<1>5. ASSUME NEW l \in Lanes, LaneEnds(l) PROVE Claimed'
  <2>1. ASSUME NEW m \in Lanes, MidWrite(m)' PROVE \A p \in call'[m].paths : Kept(m, p)
    <3>1. m # l /\ call'[m] = call[m] /\ gated'[m] = gated[m] /\ step'[m] = step[m] /\ now' = now
      BY <1>5, <2>1 DEF LaneEnds, MidWrite, TypeOK
    <3>2. \A p \in Paths : claims[p].holder = m => claims'[p] = claims[p]
      BY <1>5, <3>1 DEF LaneEnds, Released
    <3> QED
      BY <1>1, <2>1, <3>1, <3>2 DEF MidWrite, TypeOK
  <2> QED
    BY <2>1 DEF Claimed
<1>6. ASSUME NEW l \in Lanes,
             \/ Write(l) \/ CallFails(l) \/ Settle(l) \/ SettleRead(l) \/ BeginShell(l)
             \/ SnapshotBefore(l) \/ CommandWrites(l) \/ EndCommand(l) \/ SnapshotAfter(l)
             \/ Attribute(l) \/ LaneResumes(l)
      PROVE  Claimed'
  <2>0. ASSUME NEW p \in Paths, ~ Expired(claims[p]) PROVE Reaped(claims)[p] = claims[p]
    BY <1>0, <2>0, ReapedKeeps
  <2>1. claims' \in {claims, Reaped(claims)} /\ now' = now
    BY <1>6 DEF Write, CallFails, Settle, SettleRead, BeginShell, SnapshotBefore, CommandWrites,
                EndCommand, SnapshotAfter, Attribute, LaneResumes
  <2>2. ASSUME NEW m \in Lanes, MidWrite(m)' PROVE \A p \in call'[m].paths : Kept(m, p)
    <3>1. call'[m] = call[m] /\ gated'[m] = gated[m] /\ gated[m].enforced
      BY <1>6, <2>2 DEF Write, CallFails, Settle, SettleRead, BeginShell, SnapshotBefore, CommandWrites,
                EndCommand, SnapshotAfter, Attribute, LaneResumes, Idle, MidWrite, TypeOK
    <3>2. \A p \in call[m].paths : ~ Expired(claims[p]) => claims'[p] = claims[p]
      BY <2>0, <2>1 DEF TypeOK
    <3> QED
      BY <1>1, <2>1, <2>2, <3>1, <3>2 DEF GatedOnlyInCall
  <2> QED
    BY <2>2 DEF Claimed
<1>7. ASSUME MainWrites \/ MainSettles \/ SetMode \/ Tick PROVE Claimed'
  <2>0. ASSUME NEW p \in Paths, ~ Expired(claims[p]) PROVE Reaped(claims)[p] = claims[p]
    BY <1>0, <2>0, ReapedKeeps
  <2>1. /\ claims' \in {claims, Reaped(claims)} /\ call' = call /\ gated' = gated /\ step' = step
        /\ now' \in {now, now + 1}
    BY <1>7 DEF MainWrites, MainSettles, SetMode, Tick
  <2>2. ASSUME NEW m \in Lanes, MidWrite(m)' PROVE \A p \in call'[m].paths : Kept(m, p)
    <3>1. \A p \in call[m].paths : ~ Expired(claims[p]) => claims'[p] = claims[p]
      BY <2>0, <2>1 DEF TypeOK
    <3> QED
      BY <1>1, <2>1, <2>2, <3>1 DEF MidWrite
  <2> QED
    BY <2>2 DEF Claimed
<1> QED
  BY <1>2, <1>3, <1>4, <1>5, <1>6, <1>7 DEF Next, LaneStep

-----------------------------------------------------------------------------
(* Commands.                                                               *)

LEMMA ShellInit == Init => Registered /\ BothMarked /\ Reported
  BY DEF Init, Registered, BothMarked, Reported, Watching

LEMMA RegisteredStep == TypeOK /\ Registered /\ Next => Registered'
<1> SUFFICES ASSUME TypeOK, Registered, Next
             PROVE  Registered'
  OBVIOUS
<1> USE DEF registry, lane, world, history, LaneState, TypeOK, Idle, Registered, Watching
<1>1. ASSUME NEW l \in Lanes, Gate(l) PROVE Registered'
  BY <1>1 DEF Gate, StartCall
<1>2. ASSUME NEW l \in Lanes, GateRefuses(l) PROVE Registered'
  BY <1>2 DEF GateRefuses
<1>3. ASSUME NEW l \in Lanes, StartOther(l) PROVE Registered'
  BY <1>3 DEF StartOther, StartCall
<1>4. ASSUME NEW l \in Lanes, AtApproval(l) PROVE Registered'
  <2>1. CASE Idle(l)
    BY <1>4, <2>1 DEF AtApproval
  <2>2. CASE ~ Idle(l)
    <3>1. step' = [step EXCEPT ![l] = "writing"] /\ step[l] = "asking"
      BY <1>4, <2>2 DEF AtApproval
    <3> QED
      BY <1>4, <3>1 DEF AtApproval
  <2> QED
    BY <2>1, <2>2
<1>5. ASSUME NEW l \in Lanes, Write(l) PROVE Registered'
  BY <1>5 DEF Write, Change
<1>6. ASSUME NEW l \in Lanes, CallFails(l) PROVE Registered'
  BY <1>6 DEF CallFails
<1>7. ASSUME NEW l \in Lanes, Settle(l) PROVE Registered'
  BY <1>7 DEF Settle
<1>8. ASSUME NEW l \in Lanes, SettleRead(l) PROVE Registered'
  BY <1>8 DEF SettleRead
<1>9. ASSUME NEW l \in Lanes, BeginShell(l) PROVE Registered'
  <2>1. UNCHANGED <<call, before, after, delta, shellChanged, unattributed, deltas, foreign, own>>
    BY <1>9 DEF BeginShell
  <2>2. step[l] = "asking"
    BY <1>9 DEF BeginShell
  <2>3. CASE mode = "off"
    <3>1. /\ step' = [step EXCEPT ![l] = "command"]
          /\ ranOff' = [ranOff EXCEPT ![l] = TRUE]
          /\ UNCHANGED <<shells, runs>>
      BY <1>9, <2>3 DEF BeginShell
    <3> QED
      BY <2>1, <2>2, <3>1
  <2>4. CASE mode # "off"
    <3>1. /\ step' = [step EXCEPT ![l] = "shell"]
          /\ shells' = ShellsWith(l)
          /\ runs' = [runs EXCEPT ![l] = @ + 1]
          /\ UNCHANGED ranOff
      BY <1>9, <2>4 DEF BeginShell
    <3>2. ASSUME NEW m \in Lanes PROVE shells[m] # "none" \/ m = l => shells'[m] # "none"
      BY <3>1, <3>2 DEF ShellsWith
    <3>3. ASSUME NEW m \in Lanes, ~ ranOff'[m]
          PROVE  /\ step'[m] \in Watching => shells'[m] # "none" /\ deltas'[m] < runs'[m]
                 /\ before'[m] => step'[m] \in {"command", "ended", "diffing"}
                 /\ deltas'[m] <= runs'[m]
      <4>1. CASE m = l
        <5>1. /\ runs'[l] = runs[l] + 1 /\ deltas'[l] = deltas[l]
              /\ runs[l] \in Nat /\ deltas[l] \in Nat
              /\ ~ ranOff[l] /\ before'[l] = before[l] /\ step[l] = "asking"
          BY <2>1, <2>2, <3>1, <3>3, <4>1
        <5>2. deltas[l] <= runs[l] /\ ~ before[l]
          BY <5>1
        <5>3. shells'[l] # "none"
          BY <3>2
        <5> QED
          BY <5>1, <5>2, <5>3, <4>1
      <4>2. CASE m # l
        BY <2>1, <2>2, <3>1, <3>2, <3>3, <4>2
      <4> QED
        BY <4>1, <4>2
    <3> QED
      BY <3>3
  <2> QED
    BY <2>3, <2>4
<1>10. ASSUME NEW l \in Lanes, SnapshotBefore(l) PROVE Registered'
  BY <1>10 DEF SnapshotBefore
<1>11. ASSUME NEW l \in Lanes, CommandWrites(l) PROVE Registered'
  BY <1>11 DEF CommandWrites, Change
<1>12. ASSUME NEW l \in Lanes, EndCommand(l) PROVE Registered'
  BY <1>12 DEF EndCommand
<1>13. ASSUME NEW l \in Lanes, SnapshotAfter(l) PROVE Registered'
  BY <1>13 DEF SnapshotAfter
<1>14. ASSUME NEW l \in Lanes, Attribute(l) PROVE Registered'
  BY <1>14 DEF Attribute, Diffed
<1>15. ASSUME NEW l \in Lanes, LaneEnds(l) PROVE Registered'
  BY <1>15 DEF LaneEnds
<1>16. ASSUME NEW l \in Lanes, LaneResumes(l) PROVE Registered'
  BY <1>16 DEF LaneResumes
<1>17. ASSUME MainWrites PROVE Registered'
  BY <1>17 DEF MainWrites, Change
<1>18. ASSUME MainSettles PROVE Registered'
  BY <1>18 DEF MainSettles
<1>19. ASSUME SetMode PROVE Registered'
  BY <1>19 DEF SetMode
<1>20. ASSUME Tick PROVE Registered'
  BY <1>20 DEF Tick
<1> QED
  BY <1>1, <1>2, <1>3, <1>4, <1>5, <1>6, <1>7, <1>8, <1>9, <1>10, <1>11, <1>12, <1>13,
     <1>14, <1>15, <1>16, <1>17, <1>18, <1>19, <1>20 DEF Next, LaneStep

LEMMA BothMarkedStep == TypeOK /\ Registered /\ BothMarked /\ Next => BothMarked'
<1> SUFFICES ASSUME TypeOK, Registered, BothMarked, Next
             PROVE  BothMarked'
  OBVIOUS
<1> USE DEF registry, lane, world, history, LaneState, TypeOK, Idle, Registered, BothMarked, Watching
<1>1. ASSUME NEW l \in Lanes, Gate(l) PROVE BothMarked'
  BY <1>1 DEF Gate, StartCall
<1>2. ASSUME NEW l \in Lanes, GateRefuses(l) PROVE BothMarked'
  BY <1>2 DEF GateRefuses
<1>3. ASSUME NEW l \in Lanes, StartOther(l) PROVE BothMarked'
  BY <1>3 DEF StartOther, StartCall
<1>4. ASSUME NEW l \in Lanes, AtApproval(l) PROVE BothMarked'
  BY <1>4 DEF AtApproval
<1>5. ASSUME NEW l \in Lanes, Write(l) PROVE BothMarked'
  BY <1>5 DEF Write, Change
<1>6. ASSUME NEW l \in Lanes, CallFails(l) PROVE BothMarked'
  BY <1>6 DEF CallFails
<1>7. ASSUME NEW l \in Lanes, Settle(l) PROVE BothMarked'
  BY <1>7 DEF Settle
<1>8. ASSUME NEW l \in Lanes, SettleRead(l) PROVE BothMarked'
  BY <1>8 DEF SettleRead
<1>9. ASSUME NEW l \in Lanes, BeginShell(l) PROVE BothMarked'
  <2>1. UNCHANGED <<call, before, after, delta, shellChanged, unattributed, deltas, foreign, own>>
    BY <1>9 DEF BeginShell
  <2>2. step[l] = "asking"
    BY <1>9 DEF BeginShell
  <2>3. CASE mode = "off"
    <3>1. /\ step' = [step EXCEPT ![l] = "command"]
          /\ ranOff' = [ranOff EXCEPT ![l] = TRUE]
          /\ UNCHANGED <<shells, runs>>
      BY <1>9, <2>3 DEF BeginShell
    <3> QED
      BY <2>1, <2>2, <3>1
  <2>4. CASE mode # "off"
    <3>1. /\ step' = [step EXCEPT ![l] = "shell"]
          /\ shells' = ShellsWith(l)
          /\ runs' = [runs EXCEPT ![l] = @ + 1]
          /\ UNCHANGED ranOff
      BY <1>9, <2>4 DEF BeginShell
    <3> QED
      BY <2>1, <2>2, <3>1 DEF ShellsWith
  <2> QED
    BY <2>3, <2>4
<1>10. ASSUME NEW l \in Lanes, SnapshotBefore(l) PROVE BothMarked'
  BY <1>10 DEF SnapshotBefore
<1>11. ASSUME NEW l \in Lanes, CommandWrites(l) PROVE BothMarked'
  BY <1>11 DEF CommandWrites, Change
<1>12. ASSUME NEW l \in Lanes, EndCommand(l) PROVE BothMarked'
  <2>1. UNCHANGED <<shells, before, after, delta, shellChanged, unattributed, runs, deltas,
                    foreign, own>>
    BY <1>12 DEF EndCommand
  <2>2. step[l] = "command"
    BY <1>12 DEF EndCommand
  <2>3. CASE mode = "off"
    <3>1. step' = [step EXCEPT ![l] = "idle"] /\ ranOff' = [ranOff EXCEPT ![l] = TRUE]
      BY <1>12, <2>3 DEF EndCommand
    <3> QED
      BY <2>1, <2>2, <3>1
  <2>4. CASE mode # "off"
    <3>1. step' = [step EXCEPT ![l] = "ended"] /\ UNCHANGED ranOff
      BY <1>12, <2>4 DEF EndCommand
    <3> QED
      BY <2>1, <2>2, <3>1
  <2> QED
    BY <2>3, <2>4
<1>13. ASSUME NEW l \in Lanes, SnapshotAfter(l) PROVE BothMarked'
  BY <1>13 DEF SnapshotAfter
<1>14. ASSUME NEW l \in Lanes, Attribute(l) PROVE BothMarked'
  BY <1>14 DEF Attribute, Diffed
<1>15. ASSUME NEW l \in Lanes, LaneEnds(l) PROVE BothMarked'
  BY <1>15 DEF LaneEnds
<1>16. ASSUME NEW l \in Lanes, LaneResumes(l) PROVE BothMarked'
  BY <1>16 DEF LaneResumes
<1>17. ASSUME MainWrites PROVE BothMarked'
  BY <1>17 DEF MainWrites, Change
<1>18. ASSUME MainSettles PROVE BothMarked'
  BY <1>18 DEF MainSettles
<1>19. ASSUME SetMode PROVE BothMarked'
  BY <1>19 DEF SetMode
<1>20. ASSUME Tick PROVE BothMarked'
  BY <1>20 DEF Tick
<1> QED
  BY <1>1, <1>2, <1>3, <1>4, <1>5, <1>6, <1>7, <1>8, <1>9, <1>10, <1>11, <1>12, <1>13,
     <1>14, <1>15, <1>16, <1>17, <1>18, <1>19, <1>20 DEF Next, LaneStep

LEMMA ReportedStep == TypeOK /\ Registered /\ Reported /\ Next => Reported'
<1> SUFFICES ASSUME TypeOK, Registered, Reported, Next
             PROVE  Reported'
  OBVIOUS
<1> USE DEF registry, lane, world, history, LaneState, TypeOK, Idle, Registered, Reported, Watching
<1>1. ASSUME NEW l \in Lanes, Gate(l) PROVE Reported'
  BY <1>1 DEF Gate, StartCall
<1>2. ASSUME NEW l \in Lanes, GateRefuses(l) PROVE Reported'
  BY <1>2 DEF GateRefuses
<1>3. ASSUME NEW l \in Lanes, StartOther(l) PROVE Reported'
  BY <1>3 DEF StartOther, StartCall
<1>4. ASSUME NEW l \in Lanes, AtApproval(l) PROVE Reported'
  <2>1. CASE Idle(l)
    BY <1>4, <2>1 DEF AtApproval
  <2>2. CASE ~ Idle(l)
    <3>1. step' = [step EXCEPT ![l] = "writing"] /\ step[l] = "asking"
      BY <1>4, <2>2 DEF AtApproval
    <3> QED
      BY <1>4, <3>1 DEF AtApproval
  <2> QED
    BY <2>1, <2>2
<1>5. ASSUME NEW l \in Lanes, Write(l) PROVE Reported'
  BY <1>5 DEF Write, Change
<1>6. ASSUME NEW l \in Lanes, CallFails(l) PROVE Reported'
  BY <1>6 DEF CallFails
<1>7. ASSUME NEW l \in Lanes, Settle(l) PROVE Reported'
  BY <1>7 DEF Settle
<1>8. ASSUME NEW l \in Lanes, SettleRead(l) PROVE Reported'
  BY <1>8 DEF SettleRead
<1>9. ASSUME NEW l \in Lanes, BeginShell(l) PROVE Reported'
  <2>1. UNCHANGED <<call, before, after, delta, shellChanged, unattributed, deltas, foreign, own>>
    BY <1>9 DEF BeginShell
  <2>2. step[l] = "asking"
    BY <1>9 DEF BeginShell
  <2>3. CASE mode = "off"
    <3>1. /\ step' = [step EXCEPT ![l] = "command"]
          /\ ranOff' = [ranOff EXCEPT ![l] = TRUE]
          /\ UNCHANGED <<shells, runs>>
      BY <1>9, <2>3 DEF BeginShell
    <3> QED
      BY <2>1, <2>2, <3>1
  <2>4. CASE mode # "off"
    <3>1. /\ step' = [step EXCEPT ![l] = "shell"]
          /\ shells' = ShellsWith(l)
          /\ runs' = [runs EXCEPT ![l] = @ + 1]
          /\ UNCHANGED ranOff
      BY <1>9, <2>4 DEF BeginShell
    <3> QED
      BY <2>1, <2>2, <3>1 DEF ShellsWith
  <2> QED
    BY <2>3, <2>4
<1>10. ASSUME NEW l \in Lanes, SnapshotBefore(l) PROVE Reported'
  BY <1>10 DEF SnapshotBefore
<1>11. ASSUME NEW l \in Lanes, CommandWrites(l) PROVE Reported'
  BY <1>11 DEF CommandWrites, Change
<1>12. ASSUME NEW l \in Lanes, EndCommand(l) PROVE Reported'
  <2>1. UNCHANGED <<shells, before, after, delta, shellChanged, unattributed, runs, deltas,
                    foreign, own>>
    BY <1>12 DEF EndCommand
  <2>2. step[l] = "command"
    BY <1>12 DEF EndCommand
  <2>3. CASE mode = "off"
    <3>1. step' = [step EXCEPT ![l] = "idle"] /\ ranOff' = [ranOff EXCEPT ![l] = TRUE]
      BY <1>12, <2>3 DEF EndCommand
    <3> QED
      BY <2>1, <2>2, <3>1
  <2>4. CASE mode # "off"
    <3>1. step' = [step EXCEPT ![l] = "ended"] /\ UNCHANGED ranOff
      BY <1>12, <2>4 DEF EndCommand
    <3> QED
      BY <2>1, <2>2, <3>1
  <2> QED
    BY <2>3, <2>4
<1>13. ASSUME NEW l \in Lanes, SnapshotAfter(l) PROVE Reported'
  BY <1>13 DEF SnapshotAfter
<1>14. ASSUME NEW l \in Lanes, Attribute(l) PROVE Reported'
  BY <1>14 DEF Attribute, Diffed
<1>15. ASSUME NEW l \in Lanes, LaneEnds(l) PROVE Reported'
  BY <1>15 DEF LaneEnds
<1>16. ASSUME NEW l \in Lanes, LaneResumes(l) PROVE Reported'
  BY <1>16 DEF LaneResumes
<1>17. ASSUME MainWrites PROVE Reported'
  BY <1>17 DEF MainWrites, Change
<1>18. ASSUME MainSettles PROVE Reported'
  BY <1>18 DEF MainSettles
<1>19. ASSUME SetMode PROVE Reported'
  BY <1>19 DEF SetMode
<1>20. ASSUME Tick PROVE Reported'
  BY <1>20 DEF Tick
<1> QED
  BY <1>1, <1>2, <1>3, <1>4, <1>5, <1>6, <1>7, <1>8, <1>9, <1>10, <1>11, <1>12, <1>13,
     <1>14, <1>15, <1>16, <1>17, <1>18, <1>19, <1>20 DEF Next, LaneStep

-----------------------------------------------------------------------------
(* Copies.                                                                 *)

LEMMA NotedGrows ==
  ASSUME TypeOK, NEW paths, NEW by, NEW p \in Paths
  PROVE  LET noted == Noted(versions, paths, by)[p] IN
         /\ p \in paths => noted.version = versions[p].version + 1 /\ noted.by = by
         /\ p \notin paths => noted = versions[p]
         /\ versions[p].version \in Nat /\ noted.version \in Nat
         /\ noted.version >= versions[p].version
<1>1. versions[p].version \in Nat
  BY DEF TypeOK
<1>2. CASE p \in paths
  BY <1>1, <1>2 DEF Noted
<1>3. CASE p \notin paths
  BY <1>1, <1>3 DEF Noted
<1> QED
  BY <1>2, <1>3

LEMMA CopyInit == Init => BooksAreOld /\ NewsIsKept
  BY DEF Init, BooksAreOld, NewsIsKept, Watching

LEMMA BooksStep == TypeOK /\ BooksAreOld /\ Next => BooksAreOld'
<1> SUFFICES ASSUME TypeOK, BooksAreOld, Next
             PROVE  BooksAreOld'
  OBVIOUS
<1> USE ClaimsAssumption DEF registry, lane, world, history, LaneState, TypeOK, Idle, BooksAreOld, Watching
<1>1. ASSUME NEW l \in Lanes, Gate(l) PROVE BooksAreOld'
  BY <1>1 DEF Gate, StartCall
<1>2. ASSUME NEW l \in Lanes, GateRefuses(l) PROVE BooksAreOld'
  BY <1>2 DEF GateRefuses
<1>3. ASSUME NEW l \in Lanes, StartOther(l) PROVE BooksAreOld'
  BY <1>3 DEF StartOther, StartCall
<1>4. ASSUME NEW l \in Lanes, AtApproval(l) PROVE BooksAreOld'
  BY <1>4 DEF AtApproval
<1>5. ASSUME NEW l \in Lanes, Write(l) PROVE BooksAreOld'
  BY <1>5 DEF Write, Change, Unseen
<1>6. ASSUME NEW l \in Lanes, CallFails(l) PROVE BooksAreOld'
  BY <1>6 DEF CallFails
<1>7. ASSUME NEW l \in Lanes, Settle(l) PROVE BooksAreOld'
  <2>1. CASE mode = "off"
    BY <1>7, <2>1 DEF Settle
  <2>2. CASE mode # "off"
    <3>1. /\ versions' = Noted(versions, call[l].paths, l)
          /\ known' = [known EXCEPT ![l] =
                 [p \in Paths |-> IF p \in call[l].paths THEN versions'[p].version ELSE @[p]]]
          /\ UNCHANGED <<runs, mode, modes>> /\ step' = [step EXCEPT ![l] = "idle"]
      BY <1>7, <2>2 DEF Settle
    <3>2. ASSUME NEW k \in Lanes, NEW p \in Paths PROVE known'[k][p] <= versions'[p].version
      <4>1. /\ versions'[p].version >= versions[p].version
            /\ versions[p].version \in Nat /\ versions'[p].version \in Nat
        BY <3>1, NotedGrows
      <4>2. known[k][p] <= versions[p].version /\ known[k][p] \in Nat \cup {-1}
        OBVIOUS
      <4>3. known'[k][p] \in {known[k][p], versions'[p].version}
        BY <3>1
      <4> QED
        BY <4>1, <4>2, <4>3
    <3> QED
      BY <3>1, <3>2
  <2> QED
    BY <2>1, <2>2
<1>8. ASSUME NEW l \in Lanes, SettleRead(l) PROVE BooksAreOld'
  BY <1>8 DEF SettleRead
<1>9. ASSUME NEW l \in Lanes, BeginShell(l) PROVE BooksAreOld'
  BY <1>9 DEF BeginShell
<1>10. ASSUME NEW l \in Lanes, SnapshotBefore(l) PROVE BooksAreOld'
  BY <1>10 DEF SnapshotBefore
<1>11. ASSUME NEW l \in Lanes, CommandWrites(l) PROVE BooksAreOld'
  BY <1>11 DEF CommandWrites, Change
<1>12. ASSUME NEW l \in Lanes, EndCommand(l) PROVE BooksAreOld'
  BY <1>12 DEF EndCommand
<1>13. ASSUME NEW l \in Lanes, SnapshotAfter(l) PROVE BooksAreOld'
  BY <1>13 DEF SnapshotAfter
<1>14. ASSUME NEW l \in Lanes, Attribute(l) PROVE BooksAreOld'
  <2>1. versions' = versions \/ versions' = Noted(versions, delta[l], l)
    BY <1>14 DEF Attribute
  <2>2. ASSUME NEW k \in Lanes, NEW p \in Paths PROVE known'[k][p] <= versions'[p].version
    <3>1. /\ versions'[p].version >= versions[p].version
          /\ versions[p].version \in Nat /\ versions'[p].version \in Nat
      BY <2>1, NotedGrows
    <3>2. known[k][p] <= versions[p].version /\ known[k][p] \in Nat \cup {-1} /\ known' = known
      BY <1>14 DEF Attribute
    <3> QED
      BY <3>1, <3>2
  <2> QED
    BY <1>14, <2>2 DEF Attribute
<1>15. ASSUME NEW l \in Lanes, LaneEnds(l) PROVE BooksAreOld'
  BY <1>15 DEF LaneEnds
<1>16. ASSUME NEW l \in Lanes, LaneResumes(l) PROVE BooksAreOld'
  BY <1>16 DEF LaneResumes
<1>17. ASSUME MainWrites PROVE BooksAreOld'
  BY <1>17 DEF MainWrites, Change, Unseen
<1>18. ASSUME MainSettles PROVE BooksAreOld'
  <2>1. versions' = versions \/ versions' = Noted(versions, {mainWrites}, "main")
    BY <1>18 DEF MainSettles
  <2>2. ASSUME NEW k \in Lanes, NEW p \in Paths PROVE known'[k][p] <= versions'[p].version
    <3>1. /\ versions'[p].version >= versions[p].version
          /\ versions[p].version \in Nat /\ versions'[p].version \in Nat
      BY <2>1, NotedGrows
    <3>2. known[k][p] <= versions[p].version /\ known[k][p] \in Nat \cup {-1} /\ known' = known
      BY <1>18 DEF MainSettles
    <3> QED
      BY <3>1, <3>2
  <2> QED
    BY <1>18, <2>2 DEF MainSettles
<1>19. ASSUME SetMode PROVE BooksAreOld'
  BY <1>19 DEF SetMode
<1>20. ASSUME Tick PROVE BooksAreOld'
  BY <1>20 DEF Tick
<1> QED
  BY <1>1, <1>2, <1>3, <1>4, <1>5, <1>6, <1>7, <1>8, <1>9, <1>10, <1>11, <1>12, <1>13, <1>14, <1>15, <1>16, <1>17, <1>18, <1>19, <1>20
     DEF Next, LaneStep

LEMMA NewsStep == TypeOK /\ BooksAreOld /\ NewsIsKept /\ Next => NewsIsKept'
<1> SUFFICES ASSUME TypeOK, BooksAreOld, NewsIsKept, Next
             PROVE  NewsIsKept'
  OBVIOUS
<1> USE ClaimsAssumption DEF registry, lane, world, history, LaneState, TypeOK, Idle, BooksAreOld, Watching, NewsIsKept, Behind, Pending
<1>1. ASSUME NEW l \in Lanes, Gate(l) PROVE NewsIsKept'
  BY <1>1 DEF Gate, StartCall
<1>2. ASSUME NEW l \in Lanes, GateRefuses(l) PROVE NewsIsKept'
  BY <1>2 DEF GateRefuses
<1>3. ASSUME NEW l \in Lanes, StartOther(l) PROVE NewsIsKept'
  BY <1>3 DEF StartOther, StartCall
<1>4. ASSUME NEW l \in Lanes, AtApproval(l) PROVE NewsIsKept'
  <2>1. step[l] = "asking" /\ UNCHANGED <<versions, known, runs, mode, modes, mainWrites, unseen>>
    BY <1>4 DEF AtApproval
  <2>2. \A m \in Lanes \ {l} : step'[m] = step[m] /\ call'[m] = call[m]
    BY <1>4 DEF AtApproval
  <2>3. ASSUME NEW k \in Lanes, NEW p, Pending(k, p) PROVE Pending(k, p)'
    BY <2>1, <2>2, <2>3
  <2> QED
    BY <2>1, <2>3
<1>5. ASSUME NEW l \in Lanes, Write(l) PROVE NewsIsKept'
  BY <1>5 DEF Write, Change, Unseen
<1>6. ASSUME NEW l \in Lanes, CallFails(l) PROVE NewsIsKept'
  BY <1>6 DEF CallFails
<1>7. ASSUME NEW l \in Lanes, Settle(l) PROVE NewsIsKept'
  <2> SUFFICES ASSUME NEW k \in Lanes, mode' = "enforce", modes' = 0, runs'[k] = 0,
                      NEW p \in unseen'[k]
               PROVE  known'[k][p] >= 0 /\ (Behind(k, p)' \/ Pending(k, p)')
    OBVIOUS
  <2>1. /\ step[l] = "written"
        /\ versions' = Noted(versions, call[l].paths, l)
        /\ known' = [known EXCEPT ![l] =
               [q \in Paths |-> IF q \in call[l].paths THEN versions'[q].version ELSE @[q]]]
        /\ unseen' = [unseen EXCEPT ![l] = @ \ call[l].paths]
        /\ step' = [step EXCEPT ![l] = "idle"]
        /\ call' = [call EXCEPT ![l] = NoCall]
        /\ UNCHANGED <<runs, mode, modes, mainWrites>>
    BY <1>7 DEF Settle
  <2>2. p \in unseen[k] /\ p \in Paths /\ (k = l => p \notin call[l].paths)
    BY <2>1
  <2>3. known'[k][p] = known[k][p] /\ known[k][p] >= 0 /\ known[k][p] \in Nat
        /\ (Behind(k, p) \/ Pending(k, p))
    <3>1. known'[k][p] = known[k][p]
      <4>1. CASE k = l
        BY <2>1, <2>2, <4>1 DEF TypeOK
      <4>2. CASE k # l
        BY <2>1, <2>2, <4>2 DEF TypeOK
      <4> QED
        BY <4>1, <4>2
    <3>2. mode = "enforce" /\ modes = 0 /\ runs[k] = 0
      BY <2>1
    <3>3. known[k][p] >= 0 /\ (Behind(k, p) \/ Pending(k, p))
      BY <2>2, <3>2
    <3>4. known[k][p] \in Nat \cup {-1}
      BY <2>2 DEF TypeOK
    <3> QED
      BY <3>1, <3>3, <3>4
  <2>4. /\ p \in call[l].paths => versions'[p].version = versions[p].version + 1 /\ versions'[p].by = l
        /\ p \notin call[l].paths => versions'[p] = versions[p]
        /\ versions[p].version \in Nat /\ known[k][p] <= versions[p].version
    BY <2>1, <2>2, NotedGrows
  <2>5. CASE p \in call[l].paths
    BY <2>2, <2>3, <2>4, <2>5
  <2>6. CASE p \notin call[l].paths
    <3>1. CASE Behind(k, p)
      BY <2>3, <2>4, <2>6, <3>1
    <3>2. CASE Pending(k, p)
      BY <2>1, <2>6, <3>2
    <3> QED
      BY <2>3, <3>1, <3>2
  <2> QED
    BY <2>5, <2>6
<1>8. ASSUME NEW l \in Lanes, SettleRead(l) PROVE NewsIsKept'
  BY <1>8 DEF SettleRead
<1>9. ASSUME NEW l \in Lanes, BeginShell(l) PROVE NewsIsKept'
  <2>1. step[l] = "asking" /\ UNCHANGED <<versions, known, call, mode, modes, mainWrites, unseen>>
    BY <1>9 DEF BeginShell
  <2>2. /\ step'[l] \in {"command", "shell"} /\ \A m \in Lanes \ {l} : step'[m] = step[m]
        /\ \A m \in Lanes : runs'[m] = 0 => runs[m] = 0
    BY <1>9 DEF BeginShell
  <2>3. ASSUME NEW k \in Lanes, NEW p, Pending(k, p) PROVE Pending(k, p)'
    BY <2>1, <2>2, <2>3
  <2> QED
    BY <2>1, <2>2, <2>3
<1>10. ASSUME NEW l \in Lanes, SnapshotBefore(l) PROVE NewsIsKept'
  BY <1>10 DEF SnapshotBefore
<1>11. ASSUME NEW l \in Lanes, CommandWrites(l) PROVE NewsIsKept'
  BY <1>11 DEF CommandWrites, Change
<1>12. ASSUME NEW l \in Lanes, EndCommand(l) PROVE NewsIsKept'
  BY <1>12 DEF EndCommand
<1>13. ASSUME NEW l \in Lanes, SnapshotAfter(l) PROVE NewsIsKept'
  BY <1>13 DEF SnapshotAfter
<1>14. ASSUME NEW l \in Lanes, Attribute(l) PROVE NewsIsKept'
  <2> SUFFICES ASSUME NEW k \in Lanes, mode' = "enforce", modes' = 0, runs'[k] = 0,
                      NEW p \in unseen'[k]
               PROVE  known'[k][p] >= 0 /\ (Behind(k, p)' \/ Pending(k, p)')
    OBVIOUS
  <2>1. /\ step[l] = "diffing" /\ step' = [step EXCEPT ![l] = "idle"]
        /\ call' = [call EXCEPT ![l] = NoCall]
        /\ versions' = versions \/ versions' = Noted(versions, delta[l], l)
        /\ UNCHANGED <<known, runs, mode, modes, mainWrites, unseen>>
    BY <1>14 DEF Attribute
  <2>2. k # l /\ p \in unseen[k] /\ p \in Paths
    BY <2>1
  <2>3. known[k][p] >= 0 /\ known[k][p] \in Nat /\ (Behind(k, p) \/ Pending(k, p))
    BY <2>1, <2>2
  <2>4. /\ versions[p].version \in Nat /\ versions'[p].version \in Nat
        /\ versions'[p] = versions[p] \/ (versions'[p].version > versions[p].version /\ versions'[p].by = l)
    BY <2>1, <2>2, NotedGrows
  <2>5. CASE Behind(k, p)
    BY <2>1, <2>2, <2>3, <2>4, <2>5
  <2>6. CASE Pending(k, p)
    BY <2>1, <2>2, <2>6
  <2> QED
    BY <2>1, <2>3, <2>5, <2>6
<1>15. ASSUME NEW l \in Lanes, LaneEnds(l) PROVE NewsIsKept'
  BY <1>15 DEF LaneEnds
<1>16. ASSUME NEW l \in Lanes, LaneResumes(l) PROVE NewsIsKept'
  BY <1>16 DEF LaneResumes
<1>17. ASSUME MainWrites PROVE NewsIsKept'
  <2> SUFFICES ASSUME NEW k \in Lanes, mode' = "enforce", modes' = 0, runs'[k] = 0,
                      NEW p \in unseen'[k]
               PROVE  known'[k][p] >= 0 /\ (Behind(k, p)' \/ Pending(k, p)')
    OBVIOUS
  <2>1. /\ mainWrites = "none"
        /\ UNCHANGED <<versions, known, runs, mode, modes, step, call>>
    BY <1>17 DEF MainWrites
  <2>2. PICK q \in Files : mainWrites' = q /\ Unseen({q}, "main")
    BY <1>17 DEF MainWrites
  <2>3. p \in unseen[k] \/ (p = q /\ known[k][p] >= 0)
    BY <2>2 DEF Unseen
  <2>4. CASE p \in unseen[k]
    <3>1. known[k][p] >= 0 /\ (Behind(k, p) \/ Pending(k, p))
      BY <2>1, <2>4
    <3>2. p \in Paths /\ mainWrites # p
      BY <2>1, <2>4
    <3>3. CASE Behind(k, p)
      BY <2>1, <3>1, <3>3
    <3>4. CASE Pending(k, p)
      BY <2>1, <3>1, <3>2, <3>4
    <3> QED
      BY <3>1, <3>3, <3>4
  <2>5. CASE p = q /\ known[k][p] >= 0
    BY <2>1, <2>2, <2>5
  <2> QED
    BY <2>3, <2>4, <2>5
<1>18. ASSUME MainSettles PROVE NewsIsKept'
  <2> SUFFICES ASSUME NEW k \in Lanes, mode' = "enforce", modes' = 0, runs'[k] = 0,
                      NEW p \in unseen'[k]
               PROVE  known'[k][p] >= 0 /\ (Behind(k, p)' \/ Pending(k, p)')
    OBVIOUS
  <2>1. /\ versions' = Noted(versions, {mainWrites}, "main")
        /\ UNCHANGED <<known, runs, mode, modes, step, call, unseen>>
    BY <1>18 DEF MainSettles
  <2>2. known[k][p] >= 0 /\ known[k][p] \in Nat /\ p \in Paths /\ (Behind(k, p) \/ Pending(k, p))
    BY <2>1
  <2>3. /\ p = mainWrites => versions'[p].version = versions[p].version + 1 /\ versions'[p].by = "main"
        /\ p # mainWrites => versions'[p] = versions[p]
        /\ versions[p].version \in Nat /\ known[k][p] <= versions[p].version
    BY <2>1, <2>2, NotedGrows
  <2>4. CASE p = mainWrites
    BY <2>1, <2>2, <2>3, <2>4
  <2>5. CASE p # mainWrites
    BY <2>1, <2>2, <2>3, <2>5
  <2> QED
    BY <2>4, <2>5
<1>19. ASSUME SetMode PROVE NewsIsKept'
  BY <1>19 DEF SetMode
<1>20. ASSUME Tick PROVE NewsIsKept'
  BY <1>20 DEF Tick
<1> QED
  BY <1>1, <1>2, <1>3, <1>4, <1>5, <1>6, <1>7, <1>8, <1>9, <1>10, <1>11, <1>12, <1>13, <1>14, <1>15, <1>16, <1>17, <1>18, <1>19, <1>20
     DEF Next, LaneStep

-----------------------------------------------------------------------------
(* The theorems.                                                           *)

\* Both invariants hold in every reachable state.
THEOREM InvariantsHold == Spec => [](ClaimInvariant /\ ShellInvariant)
<1>1. Init => ClaimInvariant /\ ShellInvariant
  BY TypeInit, ClaimInit, ShellInit DEF ClaimInvariant, ShellInvariant
<1>2. ClaimInvariant /\ ShellInvariant /\ Next => (ClaimInvariant /\ ShellInvariant)'
  BY TypeStep, GatedStep, DisjointStep, ClaimedStep, RegisteredStep, BothMarkedStep, ReportedStep
     DEF ClaimInvariant, ShellInvariant
<1>3. ClaimInvariant /\ ShellInvariant /\ UNCHANGED vars => (ClaimInvariant /\ ShellInvariant)'
  BY DEF ClaimInvariant, ShellInvariant, TypeOK, GatedOnlyInCall, ClaimsDisjoint, Disjoint, Claimed,
         MidWrite, Registered, BothMarked, Reported, vars, registry, lane, world, history
<1> QED
  BY <1>1, <1>2, <1>3, PTL DEF Spec

\* Every reachable state is well typed.
THEOREM ClaimsTypeCorrect == Spec => []TypeOK
  BY InvariantsHold, PTL DEF ClaimInvariant

\* No two lanes ever hold claims that overlap, in any mode and whatever lapses or widens.
THEOREM ClaimsNeverOverlap == Spec => []ClaimsDisjoint
  BY InvariantsHold, PTL DEF ClaimInvariant

\* Two lanes let through in enforce never write into each other's paths while their leases run.
THEOREM WritesAreExclusive == Spec => []ExclusiveWithinLease
<1>1. ClaimInvariant => ExclusiveWithinLease
  <2> SUFFICES ASSUME ClaimInvariant, NEW l \in Lanes, NEW m \in Lanes, l # m, MidWrite(l), MidWrite(m),
                      NEW p \in call[l].paths, NEW q \in call[m].paths
               PROVE  ~ Overlap(p, call[l].prefix, q, call[m].prefix)
    BY DEF ExclusiveWithinLease
  <2>1. p \in Paths /\ q \in Paths /\ claims[p].holder = l /\ claims[q].holder = m
    BY HeldIsFresh DEF ClaimInvariant
  <2>2. (call[l].prefix => claims[p].prefix) /\ (call[m].prefix => claims[q].prefix)
    BY DEF ClaimInvariant, Claimed
  <2>3. ~ Overlap(p, claims[p].prefix, q, claims[q].prefix)
    BY <2>1, ClaimsAssumption DEF ClaimInvariant, ClaimsDisjoint, Disjoint
  <2> QED
    BY <2>2, <2>3 DEF Overlap
<1> QED
  BY <1>1, InvariantsHold, PTL

\* What another lane's watched command changed is never put on a lane.
THEOREM AttributionIsSeparate == Spec => CommandsNotMixed
<1>1. ShellInvariant /\ [Next]_vars =>
        [\A l \in Lanes : (shellChanged'[l] \ shellChanged[l]) \cap foreign[l] = {} \/ ranOff[l]]_vars
  <2> SUFFICES ASSUME ShellInvariant, Next, NEW l \in Lanes, ~ ranOff[l]
               PROVE  (shellChanged'[l] \ shellChanged[l]) \cap foreign[l] = {}
    OBVIOUS
  <2> USE DEF registry, lane, world, history, LaneState, ShellInvariant
  <2>1. shellChanged'[l] = shellChanged[l] \/ Attribute(l)
    BY DEF Next, LaneStep, Gate, GateRefuses, StartOther, StartCall, AtApproval, Write, CallFails, Settle,
           SettleRead, BeginShell, SnapshotBefore, CommandWrites, EndCommand, SnapshotAfter, Attribute,
           LaneEnds, LaneResumes, MainWrites, MainSettles, SetMode, Tick, TypeOK
  <2>2. CASE Attribute(l)
    BY <2>2 DEF Attribute, Diffed, BothMarked, TypeOK
  <2> QED
    BY <2>1, <2>2
<1> QED
  BY <1>1, InvariantsHold, PTL DEF Spec, CommandsNotMixed

\* A receipt that says the commands were covered names all they changed.
THEOREM CoverageIsHonest == Spec => []CoveredMeansReported
<1>1. ShellInvariant => CoveredMeansReported
  BY DEF ShellInvariant, TypeOK, Reported, CoveredMeansReported
<1> QED
  BY <1>1, InvariantsHold, PTL

\* No lane without commands writes over a file that changed since its own copy was noted.
THEOREM OverwritesKnowTheFile == Spec => NoStaleOverwrite
<1>1. Init => CopyInvariant
  BY TypeInit, CopyInit DEF CopyInvariant
<1>2. CopyInvariant /\ Next => (BooksAreOld /\ NewsIsKept)'
  BY BooksStep, NewsStep DEF CopyInvariant
<1>3. CopyInvariant /\ UNCHANGED vars => (BooksAreOld /\ NewsIsKept)'
  BY DEF CopyInvariant, BooksAreOld, NewsIsKept, Behind, Pending, vars, registry, lane, world, history
<1>4. ASSUME CopyInvariant, Next, NEW l \in Lanes,
             step[l] # "writing", step'[l] = "writing", call'[l].tool = "overwrite",
             mode = "enforce", modes = 0, runs[l] = 0,
             mainWrites = "none", \A m \in Lanes : step[m] # "written"
      PROVE  call'[l].paths \cap unseen[l] = {}
  <2> USE DEF registry, lane, world, history, LaneState, CopyInvariant, TypeOK
  <2>1. Gate(l) \/ AtApproval(l)
    <3>1. ASSUME NEW k \in Lanes, k # l, LaneStep(k) PROVE step'[l] = step[l]
      <4>1. CASE Gate(k) \/ StartOther(k)
        BY <1>4, <3>1, <4>1 DEF Gate, StartOther, StartCall
      <4>2. CASE GateRefuses(k) \/ LaneEnds(k) \/ LaneResumes(k)
        BY <1>4, <3>1, <4>2 DEF GateRefuses, LaneEnds, LaneResumes
      <4>3. CASE AtApproval(k)
        BY <1>4, <3>1, <4>3 DEF AtApproval, Idle
      <4>4. CASE Write(k) \/ CallFails(k) \/ Settle(k) \/ SettleRead(k)
        BY <1>4, <3>1, <4>4 DEF Write, CallFails, Settle, SettleRead, Idle
      <4>5. CASE BeginShell(k) \/ SnapshotBefore(k) \/ CommandWrites(k)
        BY <1>4, <3>1, <4>5 DEF BeginShell, SnapshotBefore, CommandWrites
      <4>6. CASE EndCommand(k) \/ SnapshotAfter(k) \/ Attribute(k)
        BY <1>4, <3>1, <4>6 DEF EndCommand, SnapshotAfter, Attribute, Idle
      <4> QED
        BY <3>1, <4>1, <4>2, <4>3, <4>4, <4>5, <4>6 DEF LaneStep
    <3>2. ASSUME MainWrites \/ MainSettles \/ SetMode \/ Tick PROVE step'[l] = step[l]
      BY <1>4, <3>2 DEF MainWrites, MainSettles, SetMode, Tick
    <3>3. LaneStep(l) \/ step'[l] = step[l]
      <4>1. CASE \E k \in Lanes : LaneStep(k)
        BY <3>1, <4>1
      <4> QED
        BY <1>4, <3>2, <4>1 DEF Next
    <3>4. CASE GateRefuses(l) \/ StartOther(l) \/ LaneEnds(l) \/ LaneResumes(l)
      BY <1>4, <3>4 DEF GateRefuses, StartOther, StartCall, LaneEnds, LaneResumes
    <3>5. CASE Write(l) \/ CallFails(l) \/ Settle(l) \/ SettleRead(l)
      BY <1>4, <3>5 DEF Write, CallFails, Settle, SettleRead, Idle
    <3>6. CASE BeginShell(l) \/ SnapshotBefore(l) \/ CommandWrites(l)
      BY <1>4, <3>6 DEF BeginShell, SnapshotBefore, CommandWrites
    <3>7. CASE EndCommand(l) \/ SnapshotAfter(l) \/ Attribute(l)
      BY <1>4, <3>7 DEF EndCommand, SnapshotAfter, Attribute, Idle
    <3> QED
      BY <1>4, <3>3, <3>4, <3>5, <3>6, <3>7 DEF LaneStep
  <2>2. Stale(l, "overwrite", call'[l].paths) = {}
    <3>1. CASE Gate(l)
      BY <1>4, <3>1 DEF Gate, StartCall, Refused
    <3>2. CASE AtApproval(l)
      <4>1. PICK prefix, paths :
              \/ step' = [step EXCEPT ![l] = "idle"]
              \/ /\ ~ Refused(claims, l, call[l].tool, paths, prefix)
                 /\ call' = [call EXCEPT ![l] = [tool |-> @.tool, paths |-> paths, prefix |-> prefix]]
        BY <3>2 DEF AtApproval, Idle
      <4>2. step' # [step EXCEPT ![l] = "idle"]
        BY <1>4
      <4>3. call'[l] = [tool |-> call[l].tool, paths |-> paths, prefix |-> prefix]
        BY <1>4, <4>1, <4>2
      <4>4. ~ Refused(claims, l, "overwrite", paths, prefix) /\ call'[l].paths = paths
        BY <1>4, <4>1, <4>2, <4>3
      <4> QED
        BY <1>4, <4>4 DEF Refused
    <3> QED
      BY <2>1, <3>1, <3>2
  <2>3. ASSUME NEW p \in unseen[l] PROVE known[l][p] >= 0 /\ Behind(l, p)
    <3>1. p \in Paths
      BY <1>4
    <3>2. known[l][p] >= 0 /\ (Behind(l, p) \/ Pending(l, p))
      BY <1>4 DEF NewsIsKept
    <3> QED
      BY <1>4, <3>1, <3>2, ClaimsAssumption DEF Pending
  <2> QED
    BY <2>2, <2>3 DEF Stale, Behind
<1>5. CopyInvariant /\ [Next]_vars =>
        [\A l \in Lanes :
           /\ step[l] # "writing" /\ step'[l] = "writing"
           /\ call'[l].tool = "overwrite"
           /\ mode = "enforce" /\ modes = 0 /\ runs[l] = 0
           /\ mainWrites = "none" /\ \A m \in Lanes : step[m] # "written"
           => call'[l].paths \cap unseen[l] = {}]_vars
  BY <1>4
<1> QED
  BY <1>1, <1>2, <1>3, <1>5, ClaimsTypeCorrect, PTL DEF Spec, CopyInvariant, NoStaleOverwrite
=============================================================================
