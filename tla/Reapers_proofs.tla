--------------------------- MODULE Reapers_proofs ---------------------------
(***************************************************************************)
(* What Reapers.tla promises, for any pools, prefixes, listings, limits    *)
(* and faults.  Each property joins what somebody saw to what happened     *)
(* since; it is inductive once the step between looking and deciding is    *)
(* part of it, and those additions are the five predicates below.          *)
(***************************************************************************)
EXTENDS Reapers, TLAPS

\* Until the reaper begins, who is online was heard of by both of the tick's
\* answers or is known as left out.
Heard ==
  \A p \in Pools : pc[p] \in {"listed", "recorded"} =>
    \A c \in Containers :
      life[c] \in {"listening", "working"} =>
        c \in late.online[p] \cup (running[p] \cap Alive(listing[p]))

\* A suspect that waits for jobs, or has one, is one they left out.
SuspectsOnline ==
  \A p \in Pools : \A c \in suspects[p] :
    life[c] \in {"listening", "working"} => c \in late.online[p]

\* Until the listing is here, what runs was counted or is known as missed.
Counted == \A p \in Pools : pc[p] = "counted" => Up \subseteq running[p] \cup late.up[p]

\* Until the lane looks, what is protected is excluded or was protected late.
Excluded == cleanup = "submitted" => protected \subseteq exclude \cup late.protect

\* The rows, open or committed, miss a job only if it is late, hidden or lost.
RowsTell ==
  \A c \in Containers :
    life[c] = "working" /\ c \notin busyRows \cap saved => c \in late.busy

-----------------------------------------------------------------------------
(* Types.                                                                  *)

(* Nothing has been started or looked at.                                  *)
LEMMA InitTyped == Init => TypeOK
  BY ReapersAssumption DEF Init, TypeOK, NothingLate, LateRecords, NotListed, Words, LifeValues

(* No step of a runner, a reaper or the operator leaves the types.         *)
LEMMA StepTyped == ASSUME TypeOK, [Next]_vars PROVE TypeOK'
<1>1. ASSUME NEW c \in Containers, Starts(c) PROVE TypeOK'
  <2>1. late' \in LateRecords
    BY <1>1, TypeOK DEF Starts, TypeOK, LateRecords
  <2>2. life' \in [Containers -> LifeValues]
    BY <1>1, TypeOK DEF Starts, Moves, TypeOK, LifeValues
  <2>q. QED
    BY <1>1, <2>1, <2>2, TypeOK DEF Starts, Moves, TypeOK, tickVars, rowVars, cleanupVars
<1>2. ASSUME NEW c \in Containers, Registers(c) PROVE TypeOK'
  BY <1>2, ReapersAssumption, TypeOK DEF Registers, Moves, TypeOK, LifeValues, Up, tickVars, rowVars, cleanupVars
<1>3. ASSUME NEW c \in Containers, Connects(c) PROVE TypeOK'
  <2>1. late' \in LateRecords
    <3>1. PICK f \in [Pools -> SUBSET Containers], g \in [Pools -> SUBSET Containers] :
            late' = [late EXCEPT !.online = f, !.came = g]
      <4>1. late \in LateRecords
        BY TypeOK DEF TypeOK
      <4>2. /\ [p \in Pools |-> late.online[p] \cup {c}] \in [Pools -> SUBSET Containers]
            /\ [p \in Pools |-> IF pc[p] \in {"listed", "recorded"}
                                THEN late.came[p] \cup {c} ELSE late.came[p]]
                 \in [Pools -> SUBSET Containers]
        BY <4>1 DEF LateRecords
      <4>q. QED
        BY <1>3, <4>2 DEF Connects
    <3>2. late \in LateRecords
      BY TypeOK DEF TypeOK
    <3>q. QED
      BY <3>1, <3>2 DEF LateRecords
  <2>2. life' \in [Containers -> LifeValues]
    BY <1>3, TypeOK DEF Connects, Moves, TypeOK, LifeValues
  <2>q. QED
    BY <1>3, <2>1, <2>2, TypeOK DEF Connects, Moves, TypeOK, tickVars, rowVars, cleanupVars
<1>4. ASSUME NEW c \in Containers, TakesJob(c) PROVE TypeOK'
  <2>1. late' \in LateRecords
    BY <1>4, TypeOK DEF TakesJob, TypeOK, LateRecords
  <2>2. life' \in [Containers -> LifeValues]
    BY <1>4, TypeOK DEF TakesJob, Moves, TypeOK, LifeValues
  <2>q. QED
    BY <1>4, <2>1, <2>2, TypeOK DEF TakesJob, Moves, TypeOK, tickVars, rowVars, cleanupVars
<1>5. ASSUME NEW c \in Containers, JobEnds(c) PROVE TypeOK'
  BY <1>5, ReapersAssumption, TypeOK DEF JobEnds, Moves, TypeOK, LifeValues, Up, tickVars, rowVars, cleanupVars
<1>6. ASSUME NEW c \in Containers, Dies(c) PROVE TypeOK'
  BY <1>6, ReapersAssumption, TypeOK DEF Dies, Moves, TypeOK, LifeValues, Up, tickVars, rowVars, cleanupVars
<1>7. ASSUME TimePasses PROVE TypeOK'
  BY <1>7, ReapersAssumption, TypeOK DEF TimePasses, TypeOK, LifeValues, Up, tickVars, rowVars, cleanupVars
<1>8. ASSUME NEW p \in Pools, CountRunning(p) PROVE TypeOK'
  <2>1. PICK names \in Ps(p) :
          /\ running' = [running EXCEPT ![p] = names]
          /\ late' = [late EXCEPT !.up[p] = Up \ names]
    BY <1>8 DEF CountRunning
  <2>2. names \in SUBSET Containers /\ Up \in SUBSET Containers
    BY ReapersAssumption DEF Ps, Up
  <2>3. late' \in LateRecords
    BY <2>1, <2>2, TypeOK DEF TypeOK, LateRecords
  <2>4. life' \in [Containers -> LifeValues]
    BY <1>8, TypeOK DEF CountRunning, TypeOK, LifeValues
  <2>5. running' \in [Pools -> SUBSET Containers]
    BY <2>1, <2>2, TypeOK DEF TypeOK
  <2>6. \A q \in Pools : pc'[q] \notin {"counted", "listed", "recorded"} => running'[q] = {}
    BY <1>8, <2>1, TypeOK DEF CountRunning, TypeOK
  <2>q. QED
    BY <1>8, <2>3, <2>4, <2>5, <2>6, TypeOK DEF CountRunning, TypeOK, tickVars, rowVars, cleanupVars
<1>9. ASSUME NEW p \in Pools, ListingFails(p) PROVE TypeOK'
  BY <1>9, ReapersAssumption, TypeOK DEF ListingFails, TypeOK, LifeValues, Up, tickVars, rowVars, cleanupVars
<1>10. ASSUME NEW p \in Pools, ListRunners(p) PROVE TypeOK'
  <2>1. PICK f \in Listings(p) :
          /\ listing' = [listing EXCEPT ![p] = f]
          /\ offline' = [offline EXCEPT ![p] = Offline(p, f)]
          /\ late' = [late EXCEPT
               !.online[p] = (@ \cap toKill[p]) \cup
                 ({c \in Containers : life[c] \in {"listening", "working"}}
                    \ (running[p] \cap Alive(f)))]
    BY <1>10 DEF ListRunners
  <2>2. f \in [Containers -> Words] /\ Offline(p, f) \in SUBSET Containers
    BY DEF Listings, Offline, Said
  <2>3. late' \in LateRecords
    BY <2>1, TypeOK DEF TypeOK, LateRecords
  <2>4. /\ listing' \in [Pools -> [Containers -> Words]]
        /\ \A q \in Pools \ {p} : listing'[q] = listing[q]
    BY <2>1, <2>2, TypeOK DEF TypeOK
  <2>5. offline' \in [Pools -> SUBSET Containers] /\ \A q \in Pools \ {p} : offline'[q] = offline[q]
    BY <2>1, <2>2, TypeOK DEF TypeOK
  <2>6. /\ pc' = [pc EXCEPT ![p] = "listed"] /\ pc[p] = "counted"
        /\ UNCHANGED <<life, age, gitea, left, running, suspects, toKill, rowVars,
                       protected, cleanupVars, stopping>>
    BY <1>10 DEF ListRunners
  <2>7. \A q \in Pools :
          /\ pc'[q] \notin {"counted", "listed", "recorded"} => running'[q] = {}
          /\ pc'[q] \notin {"listed", "recorded"} => listing'[q] = NotListed
          /\ pc'[q] # "looking" => suspects'[q] = {}
          /\ pc'[q] \in {"idle", "counted"} => offline'[q] = {}
    BY <2>4, <2>5, <2>6, TypeOK DEF TypeOK
  <2>q. QED
    BY <2>3, <2>4, <2>5, <2>6, <2>7, TypeOK DEF TypeOK, rowVars, cleanupVars
<1>11. ASSUME NEW p \in Pools, EndLooking(p) PROVE TypeOK'
  BY <1>11, ReapersAssumption, TypeOK DEF EndLooking, TypeOK, LifeValues, Up, tickVars, rowVars, cleanupVars
<1>12. ASSUME NEW p \in Pools, EndTick(p) PROVE TypeOK'
  BY <1>12, ReapersAssumption, TypeOK DEF EndTick, TypeOK, LifeValues, Up, tickVars, rowVars, cleanupVars
<1>13. ASSUME NEW p \in Pools, NEW c \in Containers, Look(p, c) PROVE TypeOK'
  <2>1. pc[p] = "looking" /\ suspects' = [suspects EXCEPT ![p] = @ \ {c}]
    BY <1>13 DEF Look
  <2>2. \/ toKill' = toKill /\ late' = late
        \/ toKill' = [toKill EXCEPT ![p] = @ \cup {c}] /\ late' = [late EXCEPT !.job = @ \ {c}]
    BY <1>13 DEF Look
  <2>3. late' \in LateRecords
    <3>1. late \in LateRecords
      BY TypeOK DEF TypeOK
    <3>2. [late EXCEPT !.job = @ \ {c}] \in LateRecords
      BY <3>1 DEF LateRecords
    <3>q. QED
      BY <2>2, <3>1, <3>2
  <2>4. toKill' \in [Pools -> SUBSET Containers]
    BY <2>2, TypeOK DEF TypeOK
  <2>5. /\ suspects' \in [Pools -> SUBSET Containers]
        /\ \A q \in Pools : pc[q] # "looking" => suspects'[q] = {}
    BY <2>1, TypeOK DEF TypeOK
  <2>q. QED
    BY <1>13, <2>3, <2>4, <2>5, TypeOK DEF Look, TypeOK, rowVars, cleanupVars
<1>14. ASSUME NEW p \in Pools, NEW c \in Containers, KillStuck(p, c) PROVE TypeOK'
  BY <1>14, ReapersAssumption, TypeOK DEF KillStuck, Removal, Removed, TypeOK, LifeValues, Up, tickVars, rowVars, cleanupVars
<1>15. ASSUME NEW p \in Pools, NEW c \in Containers, Deregister(p, c) PROVE TypeOK'
  BY <1>15, ReapersAssumption, TypeOK DEF Deregister, TypeOK, LifeValues, Up, tickVars, rowVars, cleanupVars
<1>16. ASSUME SubmitCleanup PROVE TypeOK'
  BY <1>16, ReapersAssumption, TypeOK DEF SubmitCleanup, TypeOK, LateRecords, LifeValues, Up, tickVars, rowVars, cleanupVars
<1>17. ASSUME FindAged PROVE TypeOK'
  BY <1>17, ReapersAssumption, TypeOK DEF FindAged, TypeOK, LifeValues, Up, tickVars, rowVars, cleanupVars
<1>18. ASSUME NEW c \in Containers, KillAged(c) PROVE TypeOK'
  BY <1>18, ReapersAssumption, TypeOK DEF KillAged, Removal, Removed, TypeOK, LifeValues, Up, tickVars, rowVars, cleanupVars
<1>19. ASSUME EndCleanup PROVE TypeOK'
  BY <1>19, ReapersAssumption, TypeOK DEF EndCleanup, TypeOK, LifeValues, Up, tickVars, rowVars, cleanupVars
<1>20. ASSUME NEW c \in Containers, Protect(c) PROVE TypeOK'
  BY <1>20, ReapersAssumption, TypeOK DEF Protect, TypeOK, LateRecords, LifeValues, Up, tickVars, rowVars, cleanupVars
<1>21. ASSUME NEW c \in Containers, Unprotect(c) PROVE TypeOK'
  BY <1>21, ReapersAssumption, TypeOK DEF Unprotect, TypeOK, LifeValues, Up, tickVars, rowVars, cleanupVars
<1>22. ASSUME NEW c \in Containers, StopRequest(c) PROVE TypeOK'
  BY <1>22, ReapersAssumption, TypeOK DEF StopRequest, MayStop, TypeOK, LifeValues, Up, tickVars, rowVars, cleanupVars
<1>23. ASSUME NEW c \in Containers, StopContainer(c) PROVE TypeOK'
  BY <1>23, ReapersAssumption, TypeOK DEF StopContainer, Removal, Removed, TypeOK, LifeValues, Up, tickVars, rowVars, cleanupVars
<1>24. ASSUME NEW c \in Containers, ConfirmedStop(c) PROVE TypeOK'
  BY <1>24, ReapersAssumption, TypeOK DEF ConfirmedStop, Removal, Removed, TypeOK, LifeValues, Up, tickVars, rowVars, cleanupVars
<1>25. ASSUME NEW p \in Pools, ScaleDown(p) PROVE TypeOK'
  BY <1>25, ReapersAssumption, TypeOK DEF ScaleDown, Ps, MayStop, TypeOK, LifeValues, Up, tickVars, rowVars, cleanupVars
<1>26. CASE UNCHANGED vars
  BY <1>26, ReapersAssumption, TypeOK DEF vars, TypeOK, LifeValues, Up, tickVars, rowVars, cleanupVars
<1>27. ASSUME NEW p \in Pools, RecordStatus(p) PROVE TypeOK'
  BY <1>27, ReapersAssumption, TypeOK DEF RecordStatus, Said, SaysBusy, TypeOK, LateRecords, LifeValues, Up, tickVars, rowVars, cleanupVars
<1>28. ASSUME NEW p \in Pools, RecordFails(p) PROVE TypeOK'
  BY <1>28, ReapersAssumption, TypeOK DEF RecordFails, Said, SaysBusy, TypeOK, LateRecords, LifeValues, Up, tickVars, rowVars, cleanupVars
<1>29. ASSUME NEW p \in Pools, FindStuck(p) PROVE TypeOK'
  <2>1. PICK names \in Ps(p) : suspects' = [suspects EXCEPT ![p] = Suspects(p, names)]
    BY <1>29 DEF FindStuck
  <2>2. Suspects(p, names) \in SUBSET Containers
    BY ReapersAssumption DEF Ps, Suspects, Up
  <2>3. /\ pc[p] = "recorded" /\ pc' = [pc EXCEPT ![p] = "looking"]
        /\ running' = [running EXCEPT ![p] = {}]
        /\ listing' = [listing EXCEPT ![p] = NotListed]
        /\ late' = [late EXCEPT !.came[p] = {}]
        /\ UNCHANGED <<life, age, gitea, left, toKill, offline, rowVars, protected,
                       cleanupVars, stopping>>
    BY <1>29 DEF FindStuck
  <2>4. late' \in LateRecords
    BY <2>3, TypeOK DEF TypeOK, LateRecords
  <2>5. NotListed \in [Containers -> Words]
    BY DEF NotListed, Words
  <2>6. /\ running' \in [Pools -> SUBSET Containers]
        /\ listing' \in [Pools -> [Containers -> Words]]
        /\ suspects' \in [Pools -> SUBSET Containers]
    BY <2>1, <2>2, <2>3, <2>5, TypeOK DEF TypeOK
  <2>7. \A q \in Pools :
          /\ pc'[q] \notin {"counted", "listed", "recorded"} => running'[q] = {}
          /\ pc'[q] \notin {"listed", "recorded"} => listing'[q] = NotListed
          /\ pc'[q] # "looking" => suspects'[q] = {}
          /\ pc'[q] \in {"idle", "counted"} => offline'[q] = {}
    BY <2>1, <2>3, TypeOK DEF TypeOK
  <2>q. QED
    BY <2>3, <2>4, <2>6, <2>7, TypeOK DEF TypeOK, rowVars, cleanupVars
<1>30. ASSUME StoreSettles PROVE TypeOK'
  BY <1>30, ReapersAssumption, TypeOK DEF StoreSettles, TypeOK, LifeValues, Up, tickVars, rowVars, cleanupVars
<1>q. QED
  BY <1>1, <1>2, <1>3, <1>4, <1>5, <1>6, <1>7, <1>8, <1>9, <1>10, <1>11, <1>12, <1>13, <1>14, <1>15, <1>16, <1>17, <1>18, <1>19, <1>20, <1>21, <1>22, <1>23, <1>24, <1>25, <1>26, <1>27, <1>28, <1>29, <1>30 DEF Next, Runner, Operator, Cleanup, Tick

(* The variables keep their types, and what a tick has gathered (counted   *)
(* names, suspects, offline runners) is gone once its step is over.        *)
THEOREM Typing == Spec => []TypeOK
<1>1. Init => TypeOK
  BY InitTyped
<1>2. TypeOK /\ [Next]_vars => TypeOK'
  BY StepTyped
<1>q. QED
  BY <1>1, <1>2, PTL DEF Spec

-----------------------------------------------------------------------------
(* A stuck runner that is online.                                          *)

InvOnline == StuckSparesOnline /\ SuspectsOnline /\ Heard

(* A suspect was offline when the forge was asked, through every step      *)
(* between the listing and the kill.                                       *)
LEMMA StepOnline == ASSUME TypeOK, InvOnline, [Next]_vars PROVE InvOnline'
<1>1. ASSUME NEW c \in Containers, Starts(c) PROVE InvOnline'
  BY <1>1, TypeOK, InvOnline DEF Starts, Moves, InvOnline, StuckSparesOnline, SuspectsOnline, Heard, TypeOK, Up, tickVars, rowVars, cleanupVars
<1>2. ASSUME NEW c \in Containers, Registers(c) PROVE InvOnline'
  BY <1>2, TypeOK, InvOnline DEF Registers, Moves, InvOnline, StuckSparesOnline, SuspectsOnline, Heard, TypeOK, Up, tickVars, rowVars, cleanupVars
<1>3. ASSUME NEW c \in Containers, Connects(c) PROVE InvOnline'
  BY <1>3, TypeOK, InvOnline DEF Connects, Moves, InvOnline, StuckSparesOnline, SuspectsOnline, Heard, TypeOK, Up, tickVars, rowVars, cleanupVars
<1>4. ASSUME NEW c \in Containers, TakesJob(c) PROVE InvOnline'
  BY <1>4, TypeOK, InvOnline DEF TakesJob, Moves, InvOnline, StuckSparesOnline, SuspectsOnline, Heard, TypeOK, Up, tickVars, rowVars, cleanupVars
<1>5. ASSUME NEW c \in Containers, JobEnds(c) PROVE InvOnline'
  BY <1>5, TypeOK, InvOnline DEF JobEnds, Moves, InvOnline, StuckSparesOnline, SuspectsOnline, Heard, TypeOK, Up, tickVars, rowVars, cleanupVars
<1>6. ASSUME NEW c \in Containers, Dies(c) PROVE InvOnline'
  BY <1>6, TypeOK, InvOnline DEF Dies, Moves, InvOnline, StuckSparesOnline, SuspectsOnline, Heard, TypeOK, Up, tickVars, rowVars, cleanupVars
<1>7. ASSUME TimePasses PROVE InvOnline'
  BY <1>7, TypeOK, InvOnline DEF TimePasses, InvOnline, StuckSparesOnline, SuspectsOnline, Heard, TypeOK, Up, tickVars, rowVars, cleanupVars
<1>8. ASSUME NEW p \in Pools, CountRunning(p) PROVE InvOnline'
  BY <1>8, TypeOK, InvOnline DEF CountRunning, Ps, InvOnline, StuckSparesOnline, SuspectsOnline, Heard, TypeOK, Up, tickVars, rowVars, cleanupVars
<1>9. ASSUME NEW p \in Pools, ListingFails(p) PROVE InvOnline'
  BY <1>9, TypeOK, InvOnline DEF ListingFails, InvOnline, StuckSparesOnline, SuspectsOnline, Heard, TypeOK, Up, tickVars, rowVars, cleanupVars
<1>10. ASSUME NEW p \in Pools, ListRunners(p) PROVE InvOnline'
  <2>1. PICK f \in Listings(p) :
          /\ listing' = [listing EXCEPT ![p] = f]
          /\ late' = [late EXCEPT
               !.online[p] = (@ \cap toKill[p]) \cup
                 ({c \in Containers : life[c] \in {"listening", "working"}}
                    \ (running[p] \cap Alive(f)))]
    BY <1>10 DEF ListRunners
  <2>2. /\ pc[p] = "counted" /\ pc' = [pc EXCEPT ![p] = "listed"]
        /\ UNCHANGED <<life, running, suspects, toKill>>
    BY <1>10 DEF ListRunners
  <2>3. suspects[p] = {} /\ \A q \in Pools \ {p} : pc'[q] = pc[q]
    BY <2>2, TypeOK DEF TypeOK
  <2>4. listing'[p] = f /\ \A q \in Pools \ {p} : listing'[q] = listing[q]
    BY <2>1, TypeOK DEF TypeOK
  <2>5. /\ late'.online[p] = (late.online[p] \cap toKill[p]) \cup
             ({c \in Containers : life[c] \in {"listening", "working"}}
                \ (running[p] \cap Alive(f)))
        /\ \A q \in Pools \ {p} : late'.online[q] = late.online[q]
    BY <2>1, TypeOK DEF TypeOK, LateRecords
  <2>6. StuckSparesOnline'
    BY <2>2, <2>5, InvOnline DEF InvOnline, StuckSparesOnline
  <2>7. SuspectsOnline'
    BY <2>2, <2>3, <2>5, InvOnline DEF InvOnline, SuspectsOnline
  <2>8. ASSUME NEW q \in Pools, pc'[q] \in {"listed", "recorded"},
               NEW c \in Containers, life'[c] \in {"listening", "working"}
        PROVE  c \in late'.online[q] \cup (running'[q] \cap Alive(listing'[q]))
    <3>1. CASE q = p
      BY <3>1, <2>2, <2>4, <2>5, <2>8
    <3>2. CASE q # p
      BY <3>2, <2>2, <2>3, <2>4, <2>5, <2>8, InvOnline DEF InvOnline, Heard
    <3>q. QED
      BY <3>1, <3>2
  <2>9. Heard'
    BY <2>8 DEF Heard, Alive, Said
  <2>q. QED
    BY <2>6, <2>7, <2>9 DEF InvOnline
<1>11. ASSUME NEW p \in Pools, EndLooking(p) PROVE InvOnline'
  BY <1>11, TypeOK, InvOnline DEF EndLooking, InvOnline, StuckSparesOnline, SuspectsOnline, Heard, TypeOK, Up, tickVars, rowVars, cleanupVars
<1>12. ASSUME NEW p \in Pools, EndTick(p) PROVE InvOnline'
  BY <1>12, TypeOK, InvOnline DEF EndTick, InvOnline, StuckSparesOnline, SuspectsOnline, Heard, TypeOK, Up, tickVars, rowVars, cleanupVars
<1>13. ASSUME NEW p \in Pools, NEW c \in Containers, Look(p, c) PROVE InvOnline'
  <2>1. /\ late'.online = late.online
        /\ UNCHANGED <<life, pc, running, listing>>
    BY <1>13, TypeOK DEF Look, TypeOK, LateRecords
  <2>2. \A q \in Pools : /\ suspects'[q] \subseteq suspects[q]
                        /\ toKill'[q] \subseteq toKill[q] \cup suspects[q]
    BY <1>13, TypeOK DEF Look, TypeOK
  <2>q. QED
    BY <2>1, <2>2, InvOnline DEF InvOnline, StuckSparesOnline, SuspectsOnline, Heard
<1>14. ASSUME NEW p \in Pools, NEW c \in Containers, KillStuck(p, c) PROVE InvOnline'
  BY <1>14, TypeOK, InvOnline DEF KillStuck, Removal, Removed, InvOnline, StuckSparesOnline, SuspectsOnline, Heard, TypeOK, Up, tickVars, rowVars, cleanupVars
<1>15. ASSUME NEW p \in Pools, NEW c \in Containers, Deregister(p, c) PROVE InvOnline'
  BY <1>15, TypeOK, InvOnline DEF Deregister, InvOnline, StuckSparesOnline, SuspectsOnline, Heard, TypeOK, Up, tickVars, rowVars, cleanupVars
<1>16. ASSUME SubmitCleanup PROVE InvOnline'
  BY <1>16, TypeOK, InvOnline DEF SubmitCleanup, InvOnline, StuckSparesOnline, SuspectsOnline, Heard, TypeOK, Up, tickVars, rowVars, cleanupVars
<1>17. ASSUME FindAged PROVE InvOnline'
  BY <1>17, TypeOK, InvOnline DEF FindAged, InvOnline, StuckSparesOnline, SuspectsOnline, Heard, TypeOK, Up, tickVars, rowVars, cleanupVars
<1>18. ASSUME NEW c \in Containers, KillAged(c) PROVE InvOnline'
  BY <1>18, TypeOK, InvOnline DEF KillAged, Removal, Removed, InvOnline, StuckSparesOnline, SuspectsOnline, Heard, TypeOK, Up, tickVars, rowVars, cleanupVars
<1>19. ASSUME EndCleanup PROVE InvOnline'
  BY <1>19, TypeOK, InvOnline DEF EndCleanup, InvOnline, StuckSparesOnline, SuspectsOnline, Heard, TypeOK, Up, tickVars, rowVars, cleanupVars
<1>20. ASSUME NEW c \in Containers, Protect(c) PROVE InvOnline'
  BY <1>20, TypeOK, InvOnline DEF Protect, InvOnline, StuckSparesOnline, SuspectsOnline, Heard, TypeOK, Up, tickVars, rowVars, cleanupVars
<1>21. ASSUME NEW c \in Containers, Unprotect(c) PROVE InvOnline'
  BY <1>21, TypeOK, InvOnline DEF Unprotect, InvOnline, StuckSparesOnline, SuspectsOnline, Heard, TypeOK, Up, tickVars, rowVars, cleanupVars
<1>22. ASSUME NEW c \in Containers, StopRequest(c) PROVE InvOnline'
  BY <1>22, TypeOK, InvOnline DEF StopRequest, MayStop, InvOnline, StuckSparesOnline, SuspectsOnline, Heard, TypeOK, Up, tickVars, rowVars, cleanupVars
<1>23. ASSUME NEW c \in Containers, StopContainer(c) PROVE InvOnline'
  BY <1>23, TypeOK, InvOnline DEF StopContainer, Removal, Removed, InvOnline, StuckSparesOnline, SuspectsOnline, Heard, TypeOK, Up, tickVars, rowVars, cleanupVars
<1>24. ASSUME NEW c \in Containers, ConfirmedStop(c) PROVE InvOnline'
  BY <1>24, TypeOK, InvOnline DEF ConfirmedStop, Removal, Removed, InvOnline, StuckSparesOnline, SuspectsOnline, Heard, TypeOK, Up, tickVars, rowVars, cleanupVars
<1>25. ASSUME NEW p \in Pools, ScaleDown(p) PROVE InvOnline'
  BY <1>25, TypeOK, InvOnline DEF ScaleDown, Ps, MayStop, InvOnline, StuckSparesOnline, SuspectsOnline, Heard, TypeOK, Up, tickVars, rowVars, cleanupVars
<1>26. CASE UNCHANGED vars
  BY <1>26, TypeOK, InvOnline DEF vars, InvOnline, StuckSparesOnline, SuspectsOnline, Heard, TypeOK, Up, tickVars, rowVars, cleanupVars
<1>27. ASSUME NEW p \in Pools, RecordStatus(p) PROVE InvOnline'
  BY <1>27, TypeOK, InvOnline DEF RecordStatus, Said, SaysBusy, InvOnline, StuckSparesOnline, SuspectsOnline, Heard, TypeOK, Up, tickVars, rowVars, cleanupVars
<1>28. ASSUME NEW p \in Pools, RecordFails(p) PROVE InvOnline'
  BY <1>28, TypeOK, InvOnline DEF RecordFails, Said, SaysBusy, InvOnline, StuckSparesOnline, SuspectsOnline, Heard, TypeOK, Up, tickVars, rowVars, cleanupVars
<1>29. ASSUME NEW p \in Pools, FindStuck(p) PROVE InvOnline'
  BY <1>29, TypeOK, InvOnline DEF FindStuck, Ps, Suspects, InvOnline, StuckSparesOnline, SuspectsOnline, Heard, TypeOK, Up, tickVars, rowVars, cleanupVars
<1>30. ASSUME StoreSettles PROVE InvOnline'
  BY <1>30, TypeOK, InvOnline DEF StoreSettles, InvOnline, StuckSparesOnline, SuspectsOnline, Heard, TypeOK, Up, tickVars, rowVars, cleanupVars
<1>q. QED
  BY <1>1, <1>2, <1>3, <1>4, <1>5, <1>6, <1>7, <1>8, <1>9, <1>10, <1>11, <1>12, <1>13, <1>14, <1>15, <1>16, <1>17, <1>18, <1>19, <1>20, <1>21, <1>22, <1>23, <1>24, <1>25, <1>26, <1>27, <1>28, <1>29, <1>30 DEF Next, Runner, Operator, Cleanup, Tick

(* Who was heard of online is not suspected, nor condemned.                *)
LEMMA OnlineInvariant == Spec => []InvOnline
<1>1. Init => InvOnline
  BY DEF Init, InvOnline, StuckSparesOnline, SuspectsOnline, Heard
<1>2. TypeOK /\ InvOnline /\ [Next]_vars => InvOnline'
  BY StepOnline
<1>q. QED
  BY <1>1, <1>2, Typing, PTL DEF Spec

(* A runner that waits for jobs, or has one, is condemned as stuck only if *)
(* it came online after the tick's listing or one of the tick's two        *)
(* answers left it out.                                                    *)
THEOREM OnlineSpared == Spec => []StuckSparesOnline
<1>1. InvOnline => StuckSparesOnline
  BY DEF InvOnline
<1>q. QED
  BY <1>1, OnlineInvariant, PTL

-----------------------------------------------------------------------------
(* A stuck runner that took a job.                                         *)

(* What the stuck reaper is about to kill had no job when it looked.       *)
LEMMA StepJobs == ASSUME TypeOK, InvOnline, StuckSparesJobs, [Next]_vars PROVE StuckSparesJobs'
<1>1. ASSUME NEW c \in Containers, Starts(c) PROVE StuckSparesJobs'
  BY <1>1, TypeOK, StuckSparesJobs DEF Starts, Moves, StuckSparesJobs, TypeOK, Up, tickVars, rowVars, cleanupVars
<1>2. ASSUME NEW c \in Containers, Registers(c) PROVE StuckSparesJobs'
  BY <1>2, TypeOK, StuckSparesJobs DEF Registers, Moves, StuckSparesJobs, TypeOK, Up, tickVars, rowVars, cleanupVars
<1>3. ASSUME NEW c \in Containers, Connects(c) PROVE StuckSparesJobs'
  BY <1>3, TypeOK, StuckSparesJobs DEF Connects, Moves, StuckSparesJobs, TypeOK, Up, tickVars, rowVars, cleanupVars
<1>4. ASSUME NEW c \in Containers, TakesJob(c) PROVE StuckSparesJobs'
  BY <1>4, TypeOK, StuckSparesJobs DEF TakesJob, Moves, StuckSparesJobs, TypeOK, Up, tickVars, rowVars, cleanupVars
<1>5. ASSUME NEW c \in Containers, JobEnds(c) PROVE StuckSparesJobs'
  BY <1>5, TypeOK, StuckSparesJobs DEF JobEnds, Moves, StuckSparesJobs, TypeOK, Up, tickVars, rowVars, cleanupVars
<1>6. ASSUME NEW c \in Containers, Dies(c) PROVE StuckSparesJobs'
  BY <1>6, TypeOK, StuckSparesJobs DEF Dies, Moves, StuckSparesJobs, TypeOK, Up, tickVars, rowVars, cleanupVars
<1>7. ASSUME TimePasses PROVE StuckSparesJobs'
  BY <1>7, TypeOK, StuckSparesJobs DEF TimePasses, StuckSparesJobs, TypeOK, Up, tickVars, rowVars, cleanupVars
<1>8. ASSUME NEW p \in Pools, CountRunning(p) PROVE StuckSparesJobs'
  BY <1>8, TypeOK, StuckSparesJobs DEF CountRunning, Ps, StuckSparesJobs, TypeOK, Up, tickVars, rowVars, cleanupVars
<1>9. ASSUME NEW p \in Pools, ListingFails(p) PROVE StuckSparesJobs'
  BY <1>9, TypeOK, StuckSparesJobs DEF ListingFails, StuckSparesJobs, TypeOK, Up, tickVars, rowVars, cleanupVars
<1>10. ASSUME NEW p \in Pools, ListRunners(p) PROVE StuckSparesJobs'
  BY <1>10, TypeOK, StuckSparesJobs DEF ListRunners, Ps, Listings, Offline, Said, Alive, StuckSparesJobs, TypeOK, Up, tickVars, rowVars, cleanupVars
<1>11. ASSUME NEW p \in Pools, EndLooking(p) PROVE StuckSparesJobs'
  BY <1>11, TypeOK, StuckSparesJobs DEF EndLooking, StuckSparesJobs, TypeOK, Up, tickVars, rowVars, cleanupVars
<1>12. ASSUME NEW p \in Pools, EndTick(p) PROVE StuckSparesJobs'
  BY <1>12, TypeOK, StuckSparesJobs DEF EndTick, StuckSparesJobs, TypeOK, Up, tickVars, rowVars, cleanupVars
<1>13. ASSUME NEW p \in Pools, NEW c \in Containers, Look(p, c) PROVE StuckSparesJobs'
  <2>1. c \in suspects[p] /\ life' = life /\ gitea' = gitea
    BY <1>13 DEF Look
  <2>2. CASE toKill' = toKill /\ late' = late
    BY <2>1, <2>2, StuckSparesJobs DEF StuckSparesJobs
  <2>3. CASE /\ Jobless(c)
             /\ toKill' = [toKill EXCEPT ![p] = @ \cup {c}]
             /\ late' = [late EXCEPT !.job = @ \ {c}]
    <3>1. late'.job = late.job \ {c} /\ late'.online = late.online
      BY <2>3, TypeOK DEF TypeOK, LateRecords
    <3>2. life[c] = "working" => c \in gitea
      BY <2>3 DEF Jobless
    <3>3. life[c] = "working" => c \in late.online[p]
      BY <2>1, InvOnline DEF InvOnline, SuspectsOnline
    <3>4. ASSUME NEW q \in Pools, c \in toKill[q], life[c] = "working"
          PROVE  c \in late.online[q]
      BY <3>4, InvOnline DEF InvOnline, StuckSparesOnline
    <3>5. \A q \in Pools : toKill'[q] = IF q = p THEN toKill[q] \cup {c} ELSE toKill[q]
      BY <2>3, TypeOK DEF TypeOK
    <3>6. ASSUME NEW q \in Pools, NEW d \in toKill'[q], life'[d] = "working"
          PROVE  d \in late'.job \/ (d \in gitea' /\ d \in late'.online[q])
      <4>1. CASE d = c
        BY <4>1, <2>1, <3>1, <3>2, <3>3, <3>4, <3>5, <3>6
      <4>2. CASE d # c
        BY <4>2, <2>1, <3>1, <3>5, <3>6, StuckSparesJobs DEF StuckSparesJobs
      <4>q. QED
        BY <4>1, <4>2
    <3>q. QED
      BY <3>6 DEF StuckSparesJobs
  <2>q. QED
    BY <1>13, <2>2, <2>3 DEF Look
<1>14. ASSUME NEW p \in Pools, NEW c \in Containers, KillStuck(p, c) PROVE StuckSparesJobs'
  BY <1>14, TypeOK, StuckSparesJobs DEF KillStuck, Removal, Removed, StuckSparesJobs, TypeOK, Up, tickVars, rowVars, cleanupVars
<1>15. ASSUME NEW p \in Pools, NEW c \in Containers, Deregister(p, c) PROVE StuckSparesJobs'
  BY <1>15, TypeOK, StuckSparesJobs DEF Deregister, StuckSparesJobs, TypeOK, Up, tickVars, rowVars, cleanupVars
<1>16. ASSUME SubmitCleanup PROVE StuckSparesJobs'
  BY <1>16, TypeOK, StuckSparesJobs DEF SubmitCleanup, StuckSparesJobs, TypeOK, Up, tickVars, rowVars, cleanupVars
<1>17. ASSUME FindAged PROVE StuckSparesJobs'
  BY <1>17, TypeOK, StuckSparesJobs DEF FindAged, StuckSparesJobs, TypeOK, Up, tickVars, rowVars, cleanupVars
<1>18. ASSUME NEW c \in Containers, KillAged(c) PROVE StuckSparesJobs'
  BY <1>18, TypeOK, StuckSparesJobs DEF KillAged, Removal, Removed, StuckSparesJobs, TypeOK, Up, tickVars, rowVars, cleanupVars
<1>19. ASSUME EndCleanup PROVE StuckSparesJobs'
  BY <1>19, TypeOK, StuckSparesJobs DEF EndCleanup, StuckSparesJobs, TypeOK, Up, tickVars, rowVars, cleanupVars
<1>20. ASSUME NEW c \in Containers, Protect(c) PROVE StuckSparesJobs'
  BY <1>20, TypeOK, StuckSparesJobs DEF Protect, StuckSparesJobs, TypeOK, Up, tickVars, rowVars, cleanupVars
<1>21. ASSUME NEW c \in Containers, Unprotect(c) PROVE StuckSparesJobs'
  BY <1>21, TypeOK, StuckSparesJobs DEF Unprotect, StuckSparesJobs, TypeOK, Up, tickVars, rowVars, cleanupVars
<1>22. ASSUME NEW c \in Containers, StopRequest(c) PROVE StuckSparesJobs'
  BY <1>22, TypeOK, StuckSparesJobs DEF StopRequest, MayStop, StuckSparesJobs, TypeOK, Up, tickVars, rowVars, cleanupVars
<1>23. ASSUME NEW c \in Containers, StopContainer(c) PROVE StuckSparesJobs'
  BY <1>23, TypeOK, StuckSparesJobs DEF StopContainer, Removal, Removed, StuckSparesJobs, TypeOK, Up, tickVars, rowVars, cleanupVars
<1>24. ASSUME NEW c \in Containers, ConfirmedStop(c) PROVE StuckSparesJobs'
  BY <1>24, TypeOK, StuckSparesJobs DEF ConfirmedStop, Removal, Removed, StuckSparesJobs, TypeOK, Up, tickVars, rowVars, cleanupVars
<1>25. ASSUME NEW p \in Pools, ScaleDown(p) PROVE StuckSparesJobs'
  BY <1>25, TypeOK, StuckSparesJobs DEF ScaleDown, Ps, MayStop, StuckSparesJobs, TypeOK, Up, tickVars, rowVars, cleanupVars
<1>26. CASE UNCHANGED vars
  BY <1>26, TypeOK, StuckSparesJobs DEF vars, StuckSparesJobs, TypeOK, Up, tickVars, rowVars, cleanupVars
<1>27. ASSUME NEW p \in Pools, RecordStatus(p) PROVE StuckSparesJobs'
  BY <1>27, TypeOK, StuckSparesJobs DEF RecordStatus, Said, SaysBusy, StuckSparesJobs, TypeOK, Up, tickVars, rowVars, cleanupVars
<1>28. ASSUME NEW p \in Pools, RecordFails(p) PROVE StuckSparesJobs'
  BY <1>28, TypeOK, StuckSparesJobs DEF RecordFails, Said, SaysBusy, StuckSparesJobs, TypeOK, Up, tickVars, rowVars, cleanupVars
<1>29. ASSUME NEW p \in Pools, FindStuck(p) PROVE StuckSparesJobs'
  BY <1>29, TypeOK, StuckSparesJobs DEF FindStuck, Ps, Suspects, StuckSparesJobs, TypeOK, Up, tickVars, rowVars, cleanupVars
<1>30. ASSUME StoreSettles PROVE StuckSparesJobs'
  BY <1>30, TypeOK, StuckSparesJobs DEF StoreSettles, StuckSparesJobs, TypeOK, Up, tickVars, rowVars, cleanupVars
<1>q. QED
  BY <1>1, <1>2, <1>3, <1>4, <1>5, <1>6, <1>7, <1>8, <1>9, <1>10, <1>11, <1>12, <1>13, <1>14, <1>15, <1>16, <1>17, <1>18, <1>19, <1>20, <1>21, <1>22, <1>23, <1>24, <1>25, <1>26, <1>27, <1>28, <1>29, <1>30 DEF Next, Runner, Operator, Cleanup, Tick

(* A container condemned as stuck works only if it took its job after      *)
(* has_running_job looked, or if a Gitea job was between two steps and the *)
(* tick's answers had left the runner out, however many pools' prefixes    *)
(* match it.                                                               *)
THEOREM JobsSpared == Spec => []StuckSparesJobs
<1>1. Init => StuckSparesJobs
  BY DEF Init, StuckSparesJobs
<1>2. TypeOK /\ InvOnline /\ StuckSparesJobs /\ [Next]_vars => StuckSparesJobs'
  BY StepJobs
<1>q. QED
  BY <1>1, <1>2, Typing, OnlineInvariant, PTL DEF Spec

-----------------------------------------------------------------------------
(* Deregistration.                                                         *)

InvDead == DeregistersDead /\ Counted

(* Every container that is up was counted or came after docker ps, so a    *)
(* registration about to be deleted is a dead container's, or late.        *)
LEMMA StepDead == ASSUME TypeOK, InvDead, [Next]_vars PROVE InvDead'
<1>1. ASSUME NEW c \in Containers, Starts(c) PROVE InvDead'
  BY <1>1, TypeOK, InvDead DEF Starts, Moves, InvDead, DeregistersDead, Counted, TypeOK, Up, tickVars, rowVars, cleanupVars
<1>2. ASSUME NEW c \in Containers, Registers(c) PROVE InvDead'
  BY <1>2, TypeOK, InvDead DEF Registers, Moves, InvDead, DeregistersDead, Counted, TypeOK, Up, tickVars, rowVars, cleanupVars
<1>3. ASSUME NEW c \in Containers, Connects(c) PROVE InvDead'
  BY <1>3, TypeOK, InvDead DEF Connects, Moves, InvDead, DeregistersDead, Counted, TypeOK, Up, tickVars, rowVars, cleanupVars
<1>4. ASSUME NEW c \in Containers, TakesJob(c) PROVE InvDead'
  BY <1>4, TypeOK, InvDead DEF TakesJob, Moves, InvDead, DeregistersDead, Counted, TypeOK, Up, tickVars, rowVars, cleanupVars
<1>5. ASSUME NEW c \in Containers, JobEnds(c) PROVE InvDead'
  BY <1>5, TypeOK, InvDead DEF JobEnds, Moves, InvDead, DeregistersDead, Counted, TypeOK, Up, tickVars, rowVars, cleanupVars
<1>6. ASSUME NEW c \in Containers, Dies(c) PROVE InvDead'
  BY <1>6, TypeOK, InvDead DEF Dies, Moves, InvDead, DeregistersDead, Counted, TypeOK, Up, tickVars, rowVars, cleanupVars
<1>7. ASSUME TimePasses PROVE InvDead'
  BY <1>7, TypeOK, InvDead DEF TimePasses, InvDead, DeregistersDead, Counted, TypeOK, Up, tickVars, rowVars, cleanupVars
<1>8. ASSUME NEW p \in Pools, CountRunning(p) PROVE InvDead'
  <2>1. PICK names \in Ps(p) :
          /\ running' = [running EXCEPT ![p] = names]
          /\ late' = [late EXCEPT !.up[p] = Up \ names]
    BY <1>8 DEF CountRunning
  <2>2. /\ pc' = [pc EXCEPT ![p] = "counted"] /\ pc[p] = "idle" /\ offline' = offline
        /\ life' \in [Containers -> LifeValues]
        /\ \A c \in Containers : life'[c] \in {life[c], "gone"}
    BY <1>8, TypeOK DEF CountRunning, TypeOK, LifeValues
  <2>3. Up' \subseteq Up
    BY <2>2 DEF Up
  <2>4. late'.up[p] = Up \ names /\ \A q \in Pools \ {p} : late'.up[q] = late.up[q]
    BY <2>1, TypeOK DEF TypeOK, LateRecords
  <2>5. running'[p] = names /\ \A q \in Pools \ {p} : running'[q] = running[q]
    BY <2>1, TypeOK DEF TypeOK
  <2>6. offline[p] = {} /\ \A q \in Pools \ {p} : pc'[q] = pc[q]
    BY <2>2, TypeOK DEF TypeOK
  <2>7. DeregistersDead'
    BY <2>2, <2>3, <2>4, <2>6, InvDead DEF InvDead, DeregistersDead
  <2>8. Counted'
    BY <2>3, <2>4, <2>5, <2>6, InvDead DEF InvDead, Counted
  <2>q. QED
    BY <2>7, <2>8 DEF InvDead
<1>9. ASSUME NEW p \in Pools, ListingFails(p) PROVE InvDead'
  BY <1>9, TypeOK, InvDead DEF ListingFails, InvDead, DeregistersDead, Counted, TypeOK, Up, tickVars, rowVars, cleanupVars
<1>10. ASSUME NEW p \in Pools, ListRunners(p) PROVE InvDead'
  BY <1>10, TypeOK, InvDead DEF ListRunners, Ps, Listings, Offline, Said, Alive, InvDead, DeregistersDead, Counted, TypeOK, Up, tickVars, rowVars, cleanupVars
<1>11. ASSUME NEW p \in Pools, EndLooking(p) PROVE InvDead'
  BY <1>11, TypeOK, InvDead DEF EndLooking, InvDead, DeregistersDead, Counted, TypeOK, Up, tickVars, rowVars, cleanupVars
<1>12. ASSUME NEW p \in Pools, EndTick(p) PROVE InvDead'
  BY <1>12, TypeOK, InvDead DEF EndTick, InvDead, DeregistersDead, Counted, TypeOK, Up, tickVars, rowVars, cleanupVars
<1>13. ASSUME NEW p \in Pools, NEW c \in Containers, Look(p, c) PROVE InvDead'
  <2>1. /\ late'.busy = late.busy /\ late'.protect = late.protect
        /\ late'.up = late.up /\ late'.online = late.online
    BY <1>13, TypeOK DEF Look, TypeOK, LateRecords
  <2>q. QED
    BY <1>13, <2>1, InvDead DEF Look, InvDead, DeregistersDead, Counted, Up
<1>14. ASSUME NEW p \in Pools, NEW c \in Containers, KillStuck(p, c) PROVE InvDead'
  BY <1>14, TypeOK, InvDead DEF KillStuck, Removal, Removed, InvDead, DeregistersDead, Counted, TypeOK, Up, tickVars, rowVars, cleanupVars
<1>15. ASSUME NEW p \in Pools, NEW c \in Containers, Deregister(p, c) PROVE InvDead'
  BY <1>15, TypeOK, InvDead DEF Deregister, InvDead, DeregistersDead, Counted, TypeOK, Up, tickVars, rowVars, cleanupVars
<1>16. ASSUME SubmitCleanup PROVE InvDead'
  BY <1>16, TypeOK, InvDead DEF SubmitCleanup, InvDead, DeregistersDead, Counted, TypeOK, Up, tickVars, rowVars, cleanupVars
<1>17. ASSUME FindAged PROVE InvDead'
  BY <1>17, TypeOK, InvDead DEF FindAged, InvDead, DeregistersDead, Counted, TypeOK, Up, tickVars, rowVars, cleanupVars
<1>18. ASSUME NEW c \in Containers, KillAged(c) PROVE InvDead'
  BY <1>18, TypeOK, InvDead DEF KillAged, Removal, Removed, InvDead, DeregistersDead, Counted, TypeOK, Up, tickVars, rowVars, cleanupVars
<1>19. ASSUME EndCleanup PROVE InvDead'
  BY <1>19, TypeOK, InvDead DEF EndCleanup, InvDead, DeregistersDead, Counted, TypeOK, Up, tickVars, rowVars, cleanupVars
<1>20. ASSUME NEW c \in Containers, Protect(c) PROVE InvDead'
  BY <1>20, TypeOK, InvDead DEF Protect, InvDead, DeregistersDead, Counted, TypeOK, Up, tickVars, rowVars, cleanupVars
<1>21. ASSUME NEW c \in Containers, Unprotect(c) PROVE InvDead'
  BY <1>21, TypeOK, InvDead DEF Unprotect, InvDead, DeregistersDead, Counted, TypeOK, Up, tickVars, rowVars, cleanupVars
<1>22. ASSUME NEW c \in Containers, StopRequest(c) PROVE InvDead'
  BY <1>22, TypeOK, InvDead DEF StopRequest, MayStop, InvDead, DeregistersDead, Counted, TypeOK, Up, tickVars, rowVars, cleanupVars
<1>23. ASSUME NEW c \in Containers, StopContainer(c) PROVE InvDead'
  BY <1>23, TypeOK, InvDead DEF StopContainer, Removal, Removed, InvDead, DeregistersDead, Counted, TypeOK, Up, tickVars, rowVars, cleanupVars
<1>24. ASSUME NEW c \in Containers, ConfirmedStop(c) PROVE InvDead'
  BY <1>24, TypeOK, InvDead DEF ConfirmedStop, Removal, Removed, InvDead, DeregistersDead, Counted, TypeOK, Up, tickVars, rowVars, cleanupVars
<1>25. ASSUME NEW p \in Pools, ScaleDown(p) PROVE InvDead'
  BY <1>25, TypeOK, InvDead DEF ScaleDown, Ps, MayStop, InvDead, DeregistersDead, Counted, TypeOK, Up, tickVars, rowVars, cleanupVars
<1>26. CASE UNCHANGED vars
  BY <1>26, TypeOK, InvDead DEF vars, InvDead, DeregistersDead, Counted, TypeOK, Up, tickVars, rowVars, cleanupVars
<1>27. ASSUME NEW p \in Pools, RecordStatus(p) PROVE InvDead'
  BY <1>27, TypeOK, InvDead DEF RecordStatus, Said, SaysBusy, InvDead, DeregistersDead, Counted, TypeOK, Up, tickVars, rowVars, cleanupVars
<1>28. ASSUME NEW p \in Pools, RecordFails(p) PROVE InvDead'
  BY <1>28, TypeOK, InvDead DEF RecordFails, Said, SaysBusy, InvDead, DeregistersDead, Counted, TypeOK, Up, tickVars, rowVars, cleanupVars
<1>29. ASSUME NEW p \in Pools, FindStuck(p) PROVE InvDead'
  BY <1>29, TypeOK, InvDead DEF FindStuck, Ps, Suspects, InvDead, DeregistersDead, Counted, TypeOK, Up, tickVars, rowVars, cleanupVars
<1>30. ASSUME StoreSettles PROVE InvDead'
  BY <1>30, TypeOK, InvDead DEF StoreSettles, InvDead, DeregistersDead, Counted, TypeOK, Up, tickVars, rowVars, cleanupVars
<1>q. QED
  BY <1>1, <1>2, <1>3, <1>4, <1>5, <1>6, <1>7, <1>8, <1>9, <1>10, <1>11, <1>12, <1>13, <1>14, <1>15, <1>16, <1>17, <1>18, <1>19, <1>20, <1>21, <1>22, <1>23, <1>24, <1>25, <1>26, <1>27, <1>28, <1>29, <1>30 DEF Next, Runner, Operator, Cleanup, Tick

(* A tick deregisters a runner whose container is up only if the container *)
(* started after it counted, or its docker ps missed it.                   *)
THEOREM OnlyDeadDeregistered == Spec => []DeregistersDead
<1>1. Init => InvDead
  BY DEF Init, InvDead, DeregistersDead, Counted, Up
<1>2. TypeOK /\ InvDead /\ [Next]_vars => InvDead'
  BY StepDead
<1>3. InvDead => DeregistersDead
  BY DEF InvDead
<1>q. QED
  BY <1>1, <1>2, <1>3, Typing, PTL DEF Spec

-----------------------------------------------------------------------------
(* Protection.                                                             *)

InvProtected == AgedSparesProtected /\ Excluded

(* The cleanup lane's victims were not protected when the round resolved   *)
(* its set.                                                                *)
LEMMA StepProtected == ASSUME TypeOK, InvProtected, [Next]_vars PROVE InvProtected'
<1>1. ASSUME NEW c \in Containers, Starts(c) PROVE InvProtected'
  BY <1>1, TypeOK, InvProtected DEF Starts, Moves, InvProtected, AgedSparesProtected, Excluded, TypeOK, Up, tickVars, rowVars, cleanupVars
<1>2. ASSUME NEW c \in Containers, Registers(c) PROVE InvProtected'
  BY <1>2, TypeOK, InvProtected DEF Registers, Moves, InvProtected, AgedSparesProtected, Excluded, TypeOK, Up, tickVars, rowVars, cleanupVars
<1>3. ASSUME NEW c \in Containers, Connects(c) PROVE InvProtected'
  BY <1>3, TypeOK, InvProtected DEF Connects, Moves, InvProtected, AgedSparesProtected, Excluded, TypeOK, Up, tickVars, rowVars, cleanupVars
<1>4. ASSUME NEW c \in Containers, TakesJob(c) PROVE InvProtected'
  BY <1>4, TypeOK, InvProtected DEF TakesJob, Moves, InvProtected, AgedSparesProtected, Excluded, TypeOK, Up, tickVars, rowVars, cleanupVars
<1>5. ASSUME NEW c \in Containers, JobEnds(c) PROVE InvProtected'
  BY <1>5, TypeOK, InvProtected DEF JobEnds, Moves, InvProtected, AgedSparesProtected, Excluded, TypeOK, Up, tickVars, rowVars, cleanupVars
<1>6. ASSUME NEW c \in Containers, Dies(c) PROVE InvProtected'
  BY <1>6, TypeOK, InvProtected DEF Dies, Moves, InvProtected, AgedSparesProtected, Excluded, TypeOK, Up, tickVars, rowVars, cleanupVars
<1>7. ASSUME TimePasses PROVE InvProtected'
  BY <1>7, TypeOK, InvProtected DEF TimePasses, InvProtected, AgedSparesProtected, Excluded, TypeOK, Up, tickVars, rowVars, cleanupVars
<1>8. ASSUME NEW p \in Pools, CountRunning(p) PROVE InvProtected'
  BY <1>8, TypeOK, InvProtected DEF CountRunning, Ps, InvProtected, AgedSparesProtected, Excluded, TypeOK, Up, tickVars, rowVars, cleanupVars
<1>9. ASSUME NEW p \in Pools, ListingFails(p) PROVE InvProtected'
  BY <1>9, TypeOK, InvProtected DEF ListingFails, InvProtected, AgedSparesProtected, Excluded, TypeOK, Up, tickVars, rowVars, cleanupVars
<1>10. ASSUME NEW p \in Pools, ListRunners(p) PROVE InvProtected'
  BY <1>10, TypeOK, InvProtected DEF ListRunners, Ps, Listings, Offline, Said, Alive, InvProtected, AgedSparesProtected, Excluded, TypeOK, Up, tickVars, rowVars, cleanupVars
<1>11. ASSUME NEW p \in Pools, EndLooking(p) PROVE InvProtected'
  BY <1>11, TypeOK, InvProtected DEF EndLooking, InvProtected, AgedSparesProtected, Excluded, TypeOK, Up, tickVars, rowVars, cleanupVars
<1>12. ASSUME NEW p \in Pools, EndTick(p) PROVE InvProtected'
  BY <1>12, TypeOK, InvProtected DEF EndTick, InvProtected, AgedSparesProtected, Excluded, TypeOK, Up, tickVars, rowVars, cleanupVars
<1>13. ASSUME NEW p \in Pools, NEW c \in Containers, Look(p, c) PROVE InvProtected'
  <2>1. /\ late'.busy = late.busy /\ late'.protect = late.protect
        /\ late'.up = late.up /\ late'.online = late.online
    BY <1>13, TypeOK DEF Look, TypeOK, LateRecords
  <2>q. QED
    BY <1>13, <2>1, InvProtected DEF Look, InvProtected, AgedSparesProtected, Excluded, cleanupVars
<1>14. ASSUME NEW p \in Pools, NEW c \in Containers, KillStuck(p, c) PROVE InvProtected'
  BY <1>14, TypeOK, InvProtected DEF KillStuck, Removal, Removed, InvProtected, AgedSparesProtected, Excluded, TypeOK, Up, tickVars, rowVars, cleanupVars
<1>15. ASSUME NEW p \in Pools, NEW c \in Containers, Deregister(p, c) PROVE InvProtected'
  BY <1>15, TypeOK, InvProtected DEF Deregister, InvProtected, AgedSparesProtected, Excluded, TypeOK, Up, tickVars, rowVars, cleanupVars
<1>16. ASSUME SubmitCleanup PROVE InvProtected'
  BY <1>16, TypeOK, InvProtected DEF SubmitCleanup, InvProtected, AgedSparesProtected, Excluded, TypeOK, Up, tickVars, rowVars, cleanupVars
<1>17. ASSUME FindAged PROVE InvProtected'
  BY <1>17, TypeOK, InvProtected DEF FindAged, InvProtected, AgedSparesProtected, Excluded, TypeOK, Up, tickVars, rowVars, cleanupVars
<1>18. ASSUME NEW c \in Containers, KillAged(c) PROVE InvProtected'
  BY <1>18, TypeOK, InvProtected DEF KillAged, Removal, Removed, InvProtected, AgedSparesProtected, Excluded, TypeOK, Up, tickVars, rowVars, cleanupVars
<1>19. ASSUME EndCleanup PROVE InvProtected'
  BY <1>19, TypeOK, InvProtected DEF EndCleanup, InvProtected, AgedSparesProtected, Excluded, TypeOK, Up, tickVars, rowVars, cleanupVars
<1>20. ASSUME NEW c \in Containers, Protect(c) PROVE InvProtected'
  BY <1>20, TypeOK, InvProtected DEF Protect, InvProtected, AgedSparesProtected, Excluded, TypeOK, Up, tickVars, rowVars, cleanupVars
<1>21. ASSUME NEW c \in Containers, Unprotect(c) PROVE InvProtected'
  BY <1>21, TypeOK, InvProtected DEF Unprotect, InvProtected, AgedSparesProtected, Excluded, TypeOK, Up, tickVars, rowVars, cleanupVars
<1>22. ASSUME NEW c \in Containers, StopRequest(c) PROVE InvProtected'
  BY <1>22, TypeOK, InvProtected DEF StopRequest, MayStop, InvProtected, AgedSparesProtected, Excluded, TypeOK, Up, tickVars, rowVars, cleanupVars
<1>23. ASSUME NEW c \in Containers, StopContainer(c) PROVE InvProtected'
  BY <1>23, TypeOK, InvProtected DEF StopContainer, Removal, Removed, InvProtected, AgedSparesProtected, Excluded, TypeOK, Up, tickVars, rowVars, cleanupVars
<1>24. ASSUME NEW c \in Containers, ConfirmedStop(c) PROVE InvProtected'
  BY <1>24, TypeOK, InvProtected DEF ConfirmedStop, Removal, Removed, InvProtected, AgedSparesProtected, Excluded, TypeOK, Up, tickVars, rowVars, cleanupVars
<1>25. ASSUME NEW p \in Pools, ScaleDown(p) PROVE InvProtected'
  BY <1>25, TypeOK, InvProtected DEF ScaleDown, Ps, MayStop, InvProtected, AgedSparesProtected, Excluded, TypeOK, Up, tickVars, rowVars, cleanupVars
<1>26. CASE UNCHANGED vars
  BY <1>26, TypeOK, InvProtected DEF vars, InvProtected, AgedSparesProtected, Excluded, TypeOK, Up, tickVars, rowVars, cleanupVars
<1>27. ASSUME NEW p \in Pools, RecordStatus(p) PROVE InvProtected'
  BY <1>27, TypeOK, InvProtected DEF RecordStatus, Said, SaysBusy, InvProtected, AgedSparesProtected, Excluded, TypeOK, Up, tickVars, rowVars, cleanupVars
<1>28. ASSUME NEW p \in Pools, RecordFails(p) PROVE InvProtected'
  BY <1>28, TypeOK, InvProtected DEF RecordFails, Said, SaysBusy, InvProtected, AgedSparesProtected, Excluded, TypeOK, Up, tickVars, rowVars, cleanupVars
<1>29. ASSUME NEW p \in Pools, FindStuck(p) PROVE InvProtected'
  BY <1>29, TypeOK, InvProtected DEF FindStuck, Ps, Suspects, InvProtected, AgedSparesProtected, Excluded, TypeOK, Up, tickVars, rowVars, cleanupVars
<1>30. ASSUME StoreSettles PROVE InvProtected'
  BY <1>30, TypeOK, InvProtected DEF StoreSettles, InvProtected, AgedSparesProtected, Excluded, TypeOK, Up, tickVars, rowVars, cleanupVars
<1>q. QED
  BY <1>1, <1>2, <1>3, <1>4, <1>5, <1>6, <1>7, <1>8, <1>9, <1>10, <1>11, <1>12, <1>13, <1>14, <1>15, <1>16, <1>17, <1>18, <1>19, <1>20, <1>21, <1>22, <1>23, <1>24, <1>25, <1>26, <1>27, <1>28, <1>29, <1>30 DEF Next, Runner, Operator, Cleanup, Tick

(* The aged reaper kills a protected container only if it was protected    *)
(* after the main loop resolved the round's configuration.                 *)
THEOREM ProtectedSpared == Spec => []AgedSparesProtected
<1>1. Init => InvProtected
  BY DEF Init, InvProtected, AgedSparesProtected, Excluded
<1>2. TypeOK /\ InvProtected /\ [Next]_vars => InvProtected'
  BY StepProtected
<1>3. InvProtected => AgedSparesProtected
  BY DEF InvProtected
<1>q. QED
  BY <1>1, <1>2, <1>3, Typing, PTL DEF Spec

-----------------------------------------------------------------------------
(* An operator's stop.                                                     *)

InvStop == StopAsksFirst /\ RowsTell

(* A stop without confirmation was of a runner whose row did not say busy. *)
LEMMA StepStop == ASSUME TypeOK, InvStop, [Next]_vars PROVE InvStop'
<1>1. ASSUME NEW c \in Containers, Starts(c) PROVE InvStop'
  BY <1>1, TypeOK, InvStop DEF Starts, Moves, InvStop, StopAsksFirst, RowsTell, TypeOK, Up, tickVars, rowVars, cleanupVars
<1>2. ASSUME NEW c \in Containers, Registers(c) PROVE InvStop'
  BY <1>2, TypeOK, InvStop DEF Registers, Moves, InvStop, StopAsksFirst, RowsTell, TypeOK, Up, tickVars, rowVars, cleanupVars
<1>3. ASSUME NEW c \in Containers, Connects(c) PROVE InvStop'
  BY <1>3, TypeOK, InvStop DEF Connects, Moves, InvStop, StopAsksFirst, RowsTell, TypeOK, Up, tickVars, rowVars, cleanupVars
<1>4. ASSUME NEW c \in Containers, TakesJob(c) PROVE InvStop'
  BY <1>4, TypeOK, InvStop DEF TakesJob, Moves, InvStop, StopAsksFirst, RowsTell, TypeOK, Up, tickVars, rowVars, cleanupVars
<1>5. ASSUME NEW c \in Containers, JobEnds(c) PROVE InvStop'
  BY <1>5, TypeOK, InvStop DEF JobEnds, Moves, InvStop, StopAsksFirst, RowsTell, TypeOK, Up, tickVars, rowVars, cleanupVars
<1>6. ASSUME NEW c \in Containers, Dies(c) PROVE InvStop'
  BY <1>6, TypeOK, InvStop DEF Dies, Moves, InvStop, StopAsksFirst, RowsTell, TypeOK, Up, tickVars, rowVars, cleanupVars
<1>7. ASSUME TimePasses PROVE InvStop'
  BY <1>7, TypeOK, InvStop DEF TimePasses, InvStop, StopAsksFirst, RowsTell, TypeOK, Up, tickVars, rowVars, cleanupVars
<1>8. ASSUME NEW p \in Pools, CountRunning(p) PROVE InvStop'
  BY <1>8, TypeOK, InvStop DEF CountRunning, Ps, InvStop, StopAsksFirst, RowsTell, TypeOK, Up, tickVars, rowVars, cleanupVars
<1>9. ASSUME NEW p \in Pools, ListingFails(p) PROVE InvStop'
  BY <1>9, TypeOK, InvStop DEF ListingFails, InvStop, StopAsksFirst, RowsTell, TypeOK, Up, tickVars, rowVars, cleanupVars
<1>10. ASSUME NEW p \in Pools, ListRunners(p) PROVE InvStop'
  BY <1>10, TypeOK, InvStop DEF ListRunners, Ps, Listings, Offline, Said, Alive, InvStop, StopAsksFirst, RowsTell, TypeOK, Up, tickVars, rowVars, cleanupVars
<1>11. ASSUME NEW p \in Pools, EndLooking(p) PROVE InvStop'
  BY <1>11, TypeOK, InvStop DEF EndLooking, InvStop, StopAsksFirst, RowsTell, TypeOK, Up, tickVars, rowVars, cleanupVars
<1>12. ASSUME NEW p \in Pools, EndTick(p) PROVE InvStop'
  BY <1>12, TypeOK, InvStop DEF EndTick, InvStop, StopAsksFirst, RowsTell, TypeOK, Up, tickVars, rowVars, cleanupVars
<1>13. ASSUME NEW p \in Pools, NEW c \in Containers, Look(p, c) PROVE InvStop'
  <2>1. /\ late'.busy = late.busy /\ late'.protect = late.protect
        /\ late'.up = late.up /\ late'.online = late.online
    BY <1>13, TypeOK DEF Look, TypeOK, LateRecords
  <2>q. QED
    BY <1>13, <2>1, InvStop DEF Look, InvStop, StopAsksFirst, RowsTell, rowVars
<1>14. ASSUME NEW p \in Pools, NEW c \in Containers, KillStuck(p, c) PROVE InvStop'
  BY <1>14, TypeOK, InvStop DEF KillStuck, Removal, Removed, InvStop, StopAsksFirst, RowsTell, TypeOK, Up, tickVars, rowVars, cleanupVars
<1>15. ASSUME NEW p \in Pools, NEW c \in Containers, Deregister(p, c) PROVE InvStop'
  BY <1>15, TypeOK, InvStop DEF Deregister, InvStop, StopAsksFirst, RowsTell, TypeOK, Up, tickVars, rowVars, cleanupVars
<1>16. ASSUME SubmitCleanup PROVE InvStop'
  BY <1>16, TypeOK, InvStop DEF SubmitCleanup, InvStop, StopAsksFirst, RowsTell, TypeOK, Up, tickVars, rowVars, cleanupVars
<1>17. ASSUME FindAged PROVE InvStop'
  BY <1>17, TypeOK, InvStop DEF FindAged, InvStop, StopAsksFirst, RowsTell, TypeOK, Up, tickVars, rowVars, cleanupVars
<1>18. ASSUME NEW c \in Containers, KillAged(c) PROVE InvStop'
  BY <1>18, TypeOK, InvStop DEF KillAged, Removal, Removed, InvStop, StopAsksFirst, RowsTell, TypeOK, Up, tickVars, rowVars, cleanupVars
<1>19. ASSUME EndCleanup PROVE InvStop'
  BY <1>19, TypeOK, InvStop DEF EndCleanup, InvStop, StopAsksFirst, RowsTell, TypeOK, Up, tickVars, rowVars, cleanupVars
<1>20. ASSUME NEW c \in Containers, Protect(c) PROVE InvStop'
  BY <1>20, TypeOK, InvStop DEF Protect, InvStop, StopAsksFirst, RowsTell, TypeOK, Up, tickVars, rowVars, cleanupVars
<1>21. ASSUME NEW c \in Containers, Unprotect(c) PROVE InvStop'
  BY <1>21, TypeOK, InvStop DEF Unprotect, InvStop, StopAsksFirst, RowsTell, TypeOK, Up, tickVars, rowVars, cleanupVars
<1>22. ASSUME NEW c \in Containers, StopRequest(c) PROVE InvStop'
  BY <1>22, TypeOK, InvStop DEF StopRequest, MayStop, InvStop, StopAsksFirst, RowsTell, TypeOK, Up, tickVars, rowVars, cleanupVars
<1>23. ASSUME NEW c \in Containers, StopContainer(c) PROVE InvStop'
  BY <1>23, TypeOK, InvStop DEF StopContainer, Removal, Removed, InvStop, StopAsksFirst, RowsTell, TypeOK, Up, tickVars, rowVars, cleanupVars
<1>24. ASSUME NEW c \in Containers, ConfirmedStop(c) PROVE InvStop'
  BY <1>24, TypeOK, InvStop DEF ConfirmedStop, Removal, Removed, InvStop, StopAsksFirst, RowsTell, TypeOK, Up, tickVars, rowVars, cleanupVars
<1>25. ASSUME NEW p \in Pools, ScaleDown(p) PROVE InvStop'
  BY <1>25, TypeOK, InvStop DEF ScaleDown, Ps, MayStop, InvStop, StopAsksFirst, RowsTell, TypeOK, Up, tickVars, rowVars, cleanupVars
<1>26. CASE UNCHANGED vars
  BY <1>26, TypeOK, InvStop DEF vars, InvStop, StopAsksFirst, RowsTell, TypeOK, Up, tickVars, rowVars, cleanupVars
<1>27. ASSUME NEW p \in Pools, RecordStatus(p) PROVE InvStop'
  BY <1>27, TypeOK, InvStop DEF RecordStatus, Said, SaysBusy, InvStop, StopAsksFirst, RowsTell, TypeOK, Up, tickVars, rowVars, cleanupVars
<1>28. ASSUME NEW p \in Pools, RecordFails(p) PROVE InvStop'
  BY <1>28, TypeOK, InvStop DEF RecordFails, Said, SaysBusy, InvStop, StopAsksFirst, RowsTell, TypeOK, Up, tickVars, rowVars, cleanupVars
<1>29. ASSUME NEW p \in Pools, FindStuck(p) PROVE InvStop'
  BY <1>29, TypeOK, InvStop DEF FindStuck, Ps, Suspects, InvStop, StopAsksFirst, RowsTell, TypeOK, Up, tickVars, rowVars, cleanupVars
<1>30. ASSUME StoreSettles PROVE InvStop'
  BY <1>30, TypeOK, InvStop DEF StoreSettles, InvStop, StopAsksFirst, RowsTell, TypeOK, Up, tickVars, rowVars, cleanupVars
<1>q. QED
  BY <1>1, <1>2, <1>3, <1>4, <1>5, <1>6, <1>7, <1>8, <1>9, <1>10, <1>11, <1>12, <1>13, <1>14, <1>15, <1>16, <1>17, <1>18, <1>19, <1>20, <1>21, <1>22, <1>23, <1>24, <1>25, <1>26, <1>27, <1>28, <1>29, <1>30 DEF Next, Runner, Operator, Cleanup, Tick

(* A stop or scale-down nobody confirmed aborts a job only if, since the   *)
(* last listing of its pool that was written down, the job began, the      *)
(* forge hid it, or a failed write lost its row.                           *)
THEOREM StopAsks == Spec => []StopAsksFirst
<1>1. Init => InvStop
  BY DEF Init, InvStop, StopAsksFirst, RowsTell
<1>2. TypeOK /\ InvStop /\ [Next]_vars => InvStop'
  BY StepStop
<1>3. InvStop => StopAsksFirst
  BY DEF InvStop
<1>q. QED
  BY <1>1, <1>2, <1>3, Typing, PTL DEF Spec

=============================================================================
