------------------------ MODULE ConnectionServerProofs ------------------------
(***************************************************************************)
(* Admission and the shared session UUID for any number of peers, any      *)
(* connection limit and any number of login slots. AdmissionExact and      *)
(* SessionShared are inductive together: the UUID is forgotten when active *)
(* is 0, which means that no lease is alive only because active is exact.  *)
(*                                                                         *)
(* Most steps replace the record of one task; TaskChange says what that    *)
(* does to the three counts.                                               *)
(***************************************************************************)
EXTENDS ConnectionServer, FiniteSetTheorems, TLAPS

Stages == {"none", "handshake", "status", "login", "ended", "joinable"}
TaskRecords == [at : Stages, id : Nat, lease : BOOLEAN, slot : BOOLEAN,
                session : Uuids \cup {None}]

ServerInv == AdmissionExact /\ SessionShared

Weight(b) == IF b THEN 1 ELSE 0

(* A set that only changes at c changes its size by what c's membership    *)
(* changes.                                                                *)
LEMMA CountChange ==
  ASSUME NEW S \in SUBSET Sockets, NEW T \in SUBSET Sockets, NEW c \in Sockets,
         S \ {c} = T \ {c}
  PROVE  /\ Cardinality(S) \in Nat /\ Cardinality(T) \in Nat
         /\ Cardinality(T) + Weight(c \in S) = Cardinality(S) + Weight(c \in T)
<1>1. IsFiniteSet(S) /\ IsFiniteSet(T)
  BY ServerAssumption, FS_Subset
<1>2. Cardinality(S) \in Nat /\ Cardinality(T) \in Nat
  BY <1>1, FS_CardinalityType
<1>3. Cardinality(S \ {c}) = IF c \in S THEN Cardinality(S) - 1 ELSE Cardinality(S)
  BY <1>1, FS_RemoveElement
<1>4. Cardinality(T \ {c}) = IF c \in T THEN Cardinality(T) - 1 ELSE Cardinality(T)
  BY <1>1, FS_RemoveElement
<1> QED
  BY <1>2, <1>3, <1>4 DEF Weight

(* What a new record r for task c does to leases, slots and task records.  *)
LEMMA TaskChange ==
  ASSUME TypeOK, NEW c \in Sockets, NEW r \in TaskRecords,
         conn' = [conn EXCEPT ![c] = r]
  PROVE  /\ \A d \in Sockets \ {c} : conn'[d] = conn[d]
         /\ conn'[c] = r
         /\ conn' \in [Sockets -> TaskRecords]
         /\ Cardinality(Leases) \in Nat /\ Cardinality(Leases') \in Nat
         /\ Cardinality(Slots) \in Nat /\ Cardinality(Slots') \in Nat
         /\ Cardinality(Records) \in Nat /\ Cardinality(Records') \in Nat
         /\ Cardinality(Leases') + Weight(conn[c].lease)
              = Cardinality(Leases) + Weight(r.lease)
         /\ Cardinality(Slots') + Weight(conn[c].slot)
              = Cardinality(Slots) + Weight(r.slot)
         /\ Cardinality(Records') + Weight(conn[c].at # "none")
              = Cardinality(Records) + Weight(r.at # "none")
<1>1. conn \in [Sockets -> TaskRecords]
  BY DEF TypeOK, TaskRecords, Stages
<1>2. /\ \A d \in Sockets \ {c} : conn'[d] = conn[d]
      /\ conn'[c] = r
      /\ conn' \in [Sockets -> TaskRecords]
  BY <1>1
<1>3. /\ Leases \in SUBSET Sockets /\ Leases' \in SUBSET Sockets
      /\ Leases \ {c} = Leases' \ {c}
      /\ c \in Leases <=> conn[c].lease
      /\ c \in Leases' <=> r.lease
  BY <1>2 DEF Leases
<1>4. /\ Slots \in SUBSET Sockets /\ Slots' \in SUBSET Sockets
      /\ Slots \ {c} = Slots' \ {c}
      /\ c \in Slots <=> conn[c].slot
      /\ c \in Slots' <=> r.slot
  BY <1>2 DEF Slots
<1>5. /\ Records \in SUBSET Sockets /\ Records' \in SUBSET Sockets
      /\ Records \ {c} = Records' \ {c}
      /\ c \in Records <=> conn[c].at # "none"
      /\ c \in Records' <=> r.at # "none"
  BY <1>2 DEF Records
<1>6. /\ Cardinality(Leases) \in Nat /\ Cardinality(Leases') \in Nat
      /\ Cardinality(Leases') + Weight(conn[c].lease)
           = Cardinality(Leases) + Weight(r.lease)
  BY <1>3, CountChange DEF Weight
<1>7. /\ Cardinality(Slots) \in Nat /\ Cardinality(Slots') \in Nat
      /\ Cardinality(Slots') + Weight(conn[c].slot)
           = Cardinality(Slots) + Weight(r.slot)
  BY <1>4, CountChange DEF Weight
<1>8. /\ Cardinality(Records) \in Nat /\ Cardinality(Records') \in Nat
      /\ Cardinality(Records') + Weight(conn[c].at # "none")
           = Cardinality(Records) + Weight(r.at # "none")
  BY <1>5, CountChange DEF Weight
<1> QED
  BY <1>2, <1>6, <1>7, <1>8

Alive == {"handshake", "status", "login"}
Slotted == {"login", "ended"}

(* Record r replaces that of task c: the counters follow, a task that stays*)
(* keeps its identity, a new one gets the next.                            *)
Replaces(c, r) ==
  /\ conn' = [conn EXCEPT ![c] = r]
  /\ r.lease <=> r.at \in Alive
  /\ r.slot <=> r.at \in Slotted
  /\ active' \in Int /\ active' + Weight(conn[c].lease) = active + Weight(r.lease)
  /\ permits' \in Nat /\ permits' + Weight(r.slot) = permits + Weight(conn[c].slot)
  /\ \/ r.at = "none" /\ nextId' = nextId
     \/ conn[c].at # "none" /\ r.id = conn[c].id /\ nextId' = nextId
     \/ /\ conn[c].at = "none" /\ Cardinality(Records) < MaxConnections
        /\ r.id = nextId + 1 /\ nextId' = nextId + 1 /\ nextId < MaxId
  /\ run' \in {"top", "select", "aborting"} /\ shutdown' \in BOOLEAN
  /\ uuid' \in Uuids \cup {None}

(* Admission stays exact when one task changes like that.                  *)
LEMMA OneTask ==
  ASSUME AdmissionExact, NEW c \in Sockets, NEW r \in TaskRecords, Replaces(c, r)
  PROVE  AdmissionExact'
<1> USE ServerAssumption
<1>1. /\ TypeOK /\ Ownership
      /\ active = Cardinality(Leases) /\ permits + Cardinality(Slots) = MaxLogins
      /\ Cardinality(Records) <= MaxConnections
  BY DEF AdmissionExact
<1>2. /\ \A d \in Sockets \ {c} : conn'[d] = conn[d]
      /\ conn'[c] = r
      /\ conn' \in [Sockets -> TaskRecords]
      /\ Cardinality(Leases) \in Nat /\ Cardinality(Leases') \in Nat
      /\ Cardinality(Slots) \in Nat /\ Cardinality(Slots') \in Nat
      /\ Cardinality(Records) \in Nat /\ Cardinality(Records') \in Nat
      /\ Cardinality(Leases') + Weight(conn[c].lease)
           = Cardinality(Leases) + Weight(r.lease)
      /\ Cardinality(Slots') + Weight(conn[c].slot)
           = Cardinality(Slots) + Weight(r.slot)
      /\ Cardinality(Records') + Weight(conn[c].at # "none")
           = Cardinality(Records) + Weight(r.at # "none")
  BY <1>1, TaskChange DEF Replaces
<1>3. active \in Nat /\ permits \in Nat /\ nextId \in 0..MaxId /\ nextId' \in 0..MaxId
  BY <1>1 DEF TypeOK, Replaces
<1>w. /\ Weight(conn[c].lease) \in Nat /\ Weight(r.lease) \in Nat
      /\ Weight(conn[c].slot) \in Nat /\ Weight(r.slot) \in Nat
  BY DEF Weight
<1>a. /\ active' \in Int /\ active' + Weight(conn[c].lease) = active + Weight(r.lease)
      /\ permits' \in Nat /\ permits' + Weight(r.slot) = permits + Weight(conn[c].slot)
  BY DEF Replaces
<1>4. active' = Cardinality(Leases') /\ permits' + Cardinality(Slots') = MaxLogins
  BY <1>1, <1>2, <1>3, <1>w, <1>a
<1>5. Cardinality(Records') <= MaxConnections
  BY <1>1, <1>2 DEF Weight, Replaces
<1>6. Ownership'
  BY <1>1, <1>2 DEF Ownership, Alive, Slotted, Replaces
<1>7. active' \in 0..MaxConnections
  <2>1. Records' \in SUBSET Sockets /\ Leases' \in SUBSET Records'
    BY <1>6 DEF Ownership, Leases, Records
  <2>2. Cardinality(Leases') <= Cardinality(Records')
    BY <2>1, FS_Subset
  <2> QED
    BY <2>2, <1>2, <1>4, <1>5
<1>8. permits' \in 0..MaxLogins
  BY <1>2, <1>4, <1>a
<1>9. TypeOK'
  BY <1>2, <1>3, <1>7, <1>8 DEF TypeOK, TaskRecords, Stages, Replaces
<1>10. /\ \A d \in Records : conn[d].id \in 1..nextId
       /\ \A d, e \in Records : conn[d].id = conn[e].id => d = e
  BY DEF AdmissionExact
<1>11. \A d \in Records' : d # c => d \in Records /\ conn'[d] = conn[d]
  BY <1>2 DEF Records
<1>12. c \in Records' => /\ conn'[c].id \in 1..nextId'
                         /\ \A d \in Records \ {c} : conn[d].id # conn'[c].id
  BY <1>2, <1>3, <1>10 DEF Records, Replaces
<1>13. \A d \in Records' : conn'[d].id \in 1..nextId'
  BY <1>3, <1>10, <1>11, <1>12 DEF Replaces
<1>14. \A d, e \in Records' : conn'[d].id = conn'[e].id => d = e
  BY <1>10, <1>11, <1>12
<1> QED
  BY <1>4, <1>5, <1>6, <1>9, <1>13, <1>14 DEF AdmissionExact, Replaces

(* Steps that leave every task alone.                                      *)
LEMMA NoTask ==
  ASSUME AdmissionExact, UNCHANGED <<active, nextId, permits, conn>>,
         run' \in {"top", "select", "aborting"} \/ Records = {},
         run' \in {"top", "select", "aborting", "returned"},
         shutdown' \in BOOLEAN, uuid' \in Uuids \cup {None}
  PROVE  AdmissionExact'
  BY DEF AdmissionExact, TypeOK, Ownership, Leases, Slots, Records

(* The records the steps below put in place are records, and an action     *)
(* that finds a task has not returned.                                     *)
LEMMA RecordFacts ==
  ASSUME AdmissionExact, NEW c \in Sockets
  PROVE  /\ NoConn \in TaskRecords
         /\ conn[c] \in TaskRecords
         /\ run \in {"top", "select", "aborting", "returned"}
         /\ conn[c].at # "none" => run # "returned"
         /\ shutdown \in BOOLEAN /\ uuid \in Uuids \cup {None}
         /\ active \in Nat /\ permits \in Nat /\ nextId \in Nat
         /\ conn[c].lease <=> conn[c].at \in Alive
         /\ conn[c].slot <=> conn[c].at \in Slotted
  BY ServerAssumption DEF AdmissionExact, TypeOK, Ownership, Records, NoConn,
     TaskRecords, Stages, Alive, Slotted

(* A UUID that no task was told exists, so session_uuid tells one.         *)
LEMMA FreshUuid ==
  ASSUME AdmissionExact
  PROVE  (CHOOSE u \in Uuids : \A d \in Sockets : conn[d].session # u) \in Uuids
<1> DEFINE known == [d \in Sockets |-> conn[d].session]
<1>1. known \in [Sockets -> Uuids \cup {None}]
  BY DEF AdmissionExact, TypeOK
<1>2. \E u \in Uuids : \A d \in Sockets : known[d] # u
  BY <1>1, ServerAssumption
<1>3. \E u \in Uuids : \A d \in Sockets : conn[d].session # u
  BY <1>2
<1> QED
  BY <1>3

(* join_next, in the loop and after it: a finished task owned nothing.     *)
LEMMA JoinAdmission ==
  ASSUME AdmissionExact, NEW c \in Sockets, JoinNext(c) \/ JoinAborted(c)
  PROVE  AdmissionExact'
<1>1. /\ conn[c].at = "joinable" /\ conn' = [conn EXCEPT ![c] = NoConn]
      /\ run' \in {"top", "aborting"}
      /\ UNCHANGED <<shutdown, active, nextId, uuid, permits>>
  BY DEF JoinNext, JoinAborted, Joinable, population
<1>2. /\ Weight(conn[c].lease) = 0 /\ Weight(conn[c].slot) = 0
      /\ Weight(NoConn.lease) = 0 /\ Weight(NoConn.slot) = 0
  BY <1>1, RecordFacts DEF Weight, Alive, Slotted, NoConn
<1>3. /\ NoConn.at = "none" /\ ~NoConn.lease /\ ~NoConn.slot
      /\ NoConn.lease <=> NoConn.at \in Alive
      /\ NoConn.slot <=> NoConn.at \in Slotted
  BY DEF NoConn, Alive, Slotted
<1>a. active' \in Int /\ active' + Weight(conn[c].lease) = active + Weight(NoConn.lease)
  BY <1>1, <1>2, <1>3, RecordFacts
<1>b. permits' \in Nat /\ permits' + Weight(NoConn.slot) = permits + Weight(conn[c].slot)
  BY <1>1, <1>2, <1>3, RecordFacts
<1>c. /\ run' \in {"top", "select", "aborting"} /\ shutdown' \in BOOLEAN
      /\ uuid' \in Uuids \cup {None}
  BY <1>1, <1>2, <1>3, RecordFacts DEF Alive
<1>p. NoConn \in TaskRecords /\ Replaces(c, NoConn)
  BY <1>1, <1>2, <1>3, RecordFacts, <1>a, <1>b, <1>c DEF Replaces
<1> QED
  BY <1>p, OneTask

(* The accept arm.                                                         *)
LEMMA AcceptAdmission ==
  ASSUME AdmissionExact, NEW c \in Sockets, Accept(c)
  PROVE  AdmissionExact'
<1> DEFINE r == Admitted(nextId + 1)
<1>1. /\ conn[c] = NoConn /\ conn' = [conn EXCEPT ![c] = r]
      /\ Cardinality(Records) < MaxConnections /\ nextId < MaxId
      /\ nextId' = nextId + 1 /\ active' = active + 1
      /\ run' = "top" /\ UNCHANGED <<shutdown, uuid, permits>>
  BY DEF Accept
<1>n. active \in Nat /\ nextId \in Nat
  BY RecordFacts
<1>2. /\ r \in TaskRecords /\ r.at = "handshake" /\ r.id = nextId + 1
      /\ r.lease /\ ~r.slot
      /\ r.lease <=> r.at \in Alive
      /\ r.slot <=> r.at \in Slotted
  BY <1>n DEF Admitted, TaskRecords, Stages, Alive, Slotted
<1>3. conn[c].at = "none" /\ ~conn[c].lease /\ ~conn[c].slot
  BY <1>1 DEF NoConn
<1>4. /\ Weight(conn[c].lease) = 0 /\ Weight(conn[c].slot) = 0
      /\ Weight(r.lease) = 1 /\ Weight(r.slot) = 0
  BY <1>2, <1>3 DEF Weight
<1> HIDE DEF r
<1>a. active' \in Int /\ active' + Weight(conn[c].lease) = active + Weight(r.lease)
  BY <1>1, <1>4, <1>n
<1>b. permits' \in Nat /\ permits' + Weight(r.slot) = permits + Weight(conn[c].slot)
  BY <1>1, <1>2, <1>3, <1>4, RecordFacts
<1>c. /\ run' \in {"top", "select", "aborting"} /\ shutdown' \in BOOLEAN
      /\ uuid' \in Uuids \cup {None}
  BY <1>1, <1>2, <1>3, <1>4, RecordFacts DEF Alive
<1>p. r \in TaskRecords /\ Replaces(c, r)
  BY <1>1, <1>2, <1>3, <1>4, RecordFacts, <1>a, <1>b, <1>c DEF Replaces
<1> QED
  BY <1>p, OneTask

(* A live task's future is dropped with what it owns.                      *)
LEMMA GoneAdmission ==
  ASSUME AdmissionExact, NEW c \in Sockets, conn[c].at \in Alive, Gone(c),
         UNCHANGED <<run, shutdown>>
  PROVE  AdmissionExact'
<1> DEFINE r == [conn[c] EXCEPT !.at = "joinable", !.lease = FALSE, !.slot = FALSE]
<1>1. conn' = [conn EXCEPT ![c] = r] /\ active' = active - 1 /\ UNCHANGED <<nextId, uuid>>
  BY RecordFacts DEF Gone, AdmissionExact, TypeOK, TaskRecords
<1>n. active \in Nat
  BY RecordFacts
<1>2. /\ r \in TaskRecords /\ r.at = "joinable" /\ r.id = conn[c].id
      /\ ~r.lease /\ ~r.slot
      /\ r.lease <=> r.at \in Alive
      /\ r.slot <=> r.at \in Slotted
  BY RecordFacts DEF TaskRecords, Stages, Alive, Slotted
<1>3. /\ conn[c].lease /\ conn[c].at # "none"
      /\ Weight(conn[c].lease) = 1 /\ Weight(r.lease) = 0 /\ Weight(r.slot) = 0
  BY <1>2, RecordFacts DEF Weight, Alive
<1>4. permits' \in Nat /\ permits' + Weight(r.slot) = permits + Weight(conn[c].slot)
  BY <1>3, RecordFacts DEF Gone, Weight
<1> HIDE DEF r
<1>a. active' \in Int /\ active' + Weight(conn[c].lease) = active + Weight(r.lease)
  <2>1. active' = active - 1
    BY <1>1
  <2>2. Weight(conn[c].lease) = 1 /\ Weight(r.lease) = 0
    BY <1>3
  <2> QED
    BY <2>1, <2>2, <1>n
<1>b. permits' \in Nat /\ permits' + Weight(r.slot) = permits + Weight(conn[c].slot)
  BY <1>1, <1>2, <1>3, <1>4, RecordFacts
<1>c. /\ run' \in {"top", "select", "aborting"} /\ shutdown' \in BOOLEAN
      /\ uuid' \in Uuids \cup {None}
  BY <1>1, <1>2, <1>3, <1>4, RecordFacts DEF Alive
<1>p. r \in TaskRecords /\ Replaces(c, r)
  BY <1>1, <1>2, <1>3, <1>4, RecordFacts, <1>a, <1>b, <1>c DEF Replaces
<1> QED
  BY <1>p, OneTask

(* Handshake, status, session UUID, the end of run_login, the slot, and an *)
(* abort.                                                                  *)
LEMMA TaskAdmission ==
  ASSUME AdmissionExact, NEW c \in Sockets, Task(c) \/ Abort(c)
  PROVE  AdmissionExact'
<1>1. CASE (Handshake(c) /\ Gone(c)) \/ StatusEnds(c) \/ Abort(c)
  BY <1>1, GoneAdmission DEF Handshake, StatusEnds, Abort, Alive, Live
<1>2. CASE Handshake(c) /\ ~Gone(c)
  <2>1. PICK at \in {"status", "login"} :
          /\ conn[c].at = "handshake"
          /\ \/ /\ at = "status" /\ permits' = permits
                /\ conn' = [conn EXCEPT ![c].at = "status"]
             \/ /\ at = "login" /\ permits > 0 /\ permits' = permits - 1
                /\ conn' = [conn EXCEPT ![c].at = "login", ![c].slot = TRUE]
          /\ UNCHANGED <<run, shutdown, active, nextId, uuid>>
    BY <1>2 DEF Handshake, population
  <2> DEFINE r == [conn[c] EXCEPT !.at = at, !.slot = (at = "login")]
  <2>2. ~conn[c].slot /\ conn[c].lease /\ conn[c].slot \in BOOLEAN
    BY <2>1, RecordFacts DEF Alive, Slotted, TaskRecords
  <2>3. conn' = [conn EXCEPT ![c] = r]
    BY <2>1, <2>2, RecordFacts DEF TaskRecords
  <2>4. /\ r \in TaskRecords /\ r.at = at /\ r.id = conn[c].id
        /\ r.lease /\ (r.slot <=> at = "login")
        /\ r.lease <=> r.at \in Alive
        /\ r.slot <=> r.at \in Slotted
    BY <2>1, <2>2, RecordFacts DEF TaskRecords, Stages, Alive, Slotted
  <2>5. /\ Weight(conn[c].lease) = 1 /\ Weight(r.lease) = 1
        /\ Weight(conn[c].slot) = 0 /\ Weight(r.slot) = IF at = "login" THEN 1 ELSE 0
    BY <2>2, <2>4 DEF Weight
  <2>6. permits' \in Nat /\ permits' + Weight(r.slot) = permits + Weight(conn[c].slot)
    BY <2>1, <2>5, RecordFacts
  <2> HIDE DEF r
  <2>n. active \in Nat
    BY RecordFacts
  <2>a. active' \in Int /\ active' + Weight(conn[c].lease) = active + Weight(r.lease)
    BY <2>1, <2>5, <2>n
  <2>b. permits' \in Nat /\ permits' + Weight(r.slot) = permits + Weight(conn[c].slot)
    BY <2>1, <2>3, <2>4, <2>5, <2>6, RecordFacts
  <2>c. /\ run' \in {"top", "select", "aborting"} /\ shutdown' \in BOOLEAN
        /\ uuid' \in Uuids \cup {None}
    BY <2>1, <2>3, <2>4, <2>5, <2>6, RecordFacts DEF Alive
  <2>p. r \in TaskRecords /\ Replaces(c, r)
    BY <2>1, <2>3, <2>4, <2>5, <2>6, RecordFacts, <2>a, <2>b, <2>c DEF Replaces
  <2> QED
    BY <2>p, OneTask
<1>3. CASE session_uuid(c)
  <2>1. /\ conn[c].at = "login" /\ conn' = [conn EXCEPT ![c].session = uuid']
        /\ UNCHANGED <<run, shutdown, active, nextId, permits>>
    BY <1>3 DEF session_uuid
  <2>2. uuid' \in Uuids
    BY <1>3, FreshUuid, RecordFacts DEF session_uuid
  <2> DEFINE r == [conn[c] EXCEPT !.session = uuid']
  <2>3. conn' = [conn EXCEPT ![c] = r]
    BY <2>1, RecordFacts DEF TaskRecords
  <2>4. /\ r \in TaskRecords /\ r.at = conn[c].at /\ r.id = conn[c].id
        /\ r.lease = conn[c].lease /\ r.slot = conn[c].slot
    BY <2>2, RecordFacts DEF TaskRecords
  <2>5. /\ Weight(r.lease) = Weight(conn[c].lease) /\ Weight(conn[c].lease) \in Nat
        /\ Weight(r.slot) = Weight(conn[c].slot) /\ Weight(conn[c].slot) \in Nat
    BY <2>4 DEF Weight
  <2> HIDE DEF r
  <2>a. active' \in Int /\ active' + Weight(conn[c].lease) = active + Weight(r.lease)
    BY <2>1, <2>2, <2>3, <2>4, <2>5, RecordFacts
  <2>b. permits' \in Nat /\ permits' + Weight(r.slot) = permits + Weight(conn[c].slot)
    BY <2>1, <2>2, <2>3, <2>4, <2>5, RecordFacts
  <2>c. /\ run' \in {"top", "select", "aborting"} /\ shutdown' \in BOOLEAN
        /\ uuid' \in Uuids \cup {None}
    BY <2>1, <2>2, <2>3, <2>4, <2>5, RecordFacts DEF Alive
  <2>p. r \in TaskRecords /\ Replaces(c, r)
    BY <2>1, <2>2, <2>3, <2>4, <2>5, RecordFacts, <2>a, <2>b, <2>c DEF Replaces
  <2> QED
    BY <2>p, OneTask
<1>4. CASE LoginReturns(c)
  <2>1. /\ conn[c].at = "login" /\ active' = active - 1
        /\ conn' = [conn EXCEPT ![c].at = "ended", ![c].lease = FALSE]
        /\ UNCHANGED <<run, shutdown, nextId, uuid, permits>>
    BY <1>4 DEF LoginReturns
  <2> DEFINE r == [conn[c] EXCEPT !.at = "ended", !.lease = FALSE]
  <2>2. conn' = [conn EXCEPT ![c] = r]
    BY <2>1, RecordFacts DEF TaskRecords
  <2>3. conn[c].lease /\ conn[c].slot
    BY <2>1, RecordFacts DEF Alive, Slotted
  <2>4. /\ r \in TaskRecords /\ r.at = "ended" /\ r.id = conn[c].id
        /\ ~r.lease /\ r.slot
        /\ r.lease <=> r.at \in Alive
        /\ r.slot <=> r.at \in Slotted
    BY <2>3, RecordFacts DEF TaskRecords, Stages, Alive, Slotted
  <2>5. /\ Weight(conn[c].lease) = 1 /\ Weight(r.lease) = 0
        /\ Weight(conn[c].slot) = 1 /\ Weight(r.slot) = 1
    BY <2>3, <2>4 DEF Weight
  <2> HIDE DEF r
  <2>a. active' \in Int /\ active' + Weight(conn[c].lease) = active + Weight(r.lease)
    BY <2>1, <2>2, <2>4, <2>5, RecordFacts
  <2>b. permits' \in Nat /\ permits' + Weight(r.slot) = permits + Weight(conn[c].slot)
    BY <2>1, <2>2, <2>4, <2>5, RecordFacts
  <2>c. /\ run' \in {"top", "select", "aborting"} /\ shutdown' \in BOOLEAN
        /\ uuid' \in Uuids \cup {None}
    BY <2>1, <2>2, <2>4, <2>5, RecordFacts DEF Alive
  <2>p. r \in TaskRecords /\ Replaces(c, r)
    BY <2>1, <2>2, <2>4, <2>5, RecordFacts, <2>a, <2>b, <2>c DEF Replaces
  <2> QED
    BY <2>p, OneTask
<1>5. CASE SlotReturns(c)
  <2>1. /\ conn[c].at = "ended" /\ permits' = permits + 1
        /\ conn' = [conn EXCEPT ![c].at = "joinable", ![c].slot = FALSE]
        /\ UNCHANGED <<run, shutdown, active, nextId, uuid>>
    BY <1>5 DEF SlotReturns, population
  <2> DEFINE r == [conn[c] EXCEPT !.at = "joinable", !.slot = FALSE]
  <2>2. conn' = [conn EXCEPT ![c] = r]
    BY <2>1, RecordFacts DEF TaskRecords
  <2>3. ~conn[c].lease /\ conn[c].slot
    BY <2>1, RecordFacts DEF Alive, Slotted
  <2>4. /\ r \in TaskRecords /\ r.at = "joinable" /\ r.id = conn[c].id
        /\ ~r.lease /\ ~r.slot
        /\ r.lease <=> r.at \in Alive
        /\ r.slot <=> r.at \in Slotted
    BY <2>3, RecordFacts DEF TaskRecords, Stages, Alive, Slotted
  <2>5. /\ Weight(conn[c].lease) = 0 /\ Weight(r.lease) = 0
        /\ Weight(conn[c].slot) = 1 /\ Weight(r.slot) = 0
    BY <2>3, <2>4 DEF Weight
  <2> HIDE DEF r
  <2>a. active' \in Int /\ active' + Weight(conn[c].lease) = active + Weight(r.lease)
    BY <2>1, <2>2, <2>4, <2>5, RecordFacts
  <2>b. permits' \in Nat /\ permits' + Weight(r.slot) = permits + Weight(conn[c].slot)
    BY <2>1, <2>2, <2>4, <2>5, RecordFacts
  <2>c. /\ run' \in {"top", "select", "aborting"} /\ shutdown' \in BOOLEAN
        /\ uuid' \in Uuids \cup {None}
    BY <2>1, <2>2, <2>4, <2>5, RecordFacts DEF Alive
  <2>p. r \in TaskRecords /\ Replaces(c, r)
    BY <2>1, <2>2, <2>4, <2>5, RecordFacts, <2>a, <2>b, <2>c DEF Replaces
  <2> QED
    BY <2>p, OneTask
<1> QED
  BY <1>1, <1>2, <1>3, <1>4, <1>5 DEF Task

(* The drain at the top of the loop: finished tasks go, which held nothing.*)
LEMMA TopAdmission ==
  ASSUME AdmissionExact, Top
  PROVE  AdmissionExact'
<1>1. /\ TypeOK /\ Ownership
      /\ shutdown \in BOOLEAN /\ uuid \in Uuids \cup {None}
      /\ run' \in {"select", "aborting"} /\ UNCHANGED <<shutdown, active, nextId, uuid, permits>>
  BY DEF AdmissionExact, TypeOK, Top, population
<1>2. CASE UNCHANGED conn
  BY <1>1, <1>2, NoTask
<1>3. CASE conn' = [c \in Sockets |-> IF c \in Joinable THEN NoConn ELSE conn[c]]
  <2>1. \A c \in Sockets :
          (conn'[c] = NoConn /\ conn[c].at = "joinable") \/ conn'[c] = conn[c]
    BY <1>3 DEF Joinable
  <2>2. Leases' = Leases /\ Slots' = Slots
    BY <1>1, <2>1 DEF Ownership, Leases, Slots, NoConn
  <2>3. Records' \in SUBSET Records /\ \A c \in Records' : conn'[c] = conn[c]
    BY <2>1 DEF Records, NoConn
  <2>4. Records \in SUBSET Sockets
    BY DEF Records
  <2>5. Cardinality(Records') <= Cardinality(Records) /\ Cardinality(Records') \in Nat
    <3>1. IsFiniteSet(Records)
      BY <2>4, ServerAssumption, FS_Subset
    <3> QED
      BY <3>1, <2>3, FS_Subset, FS_CardinalityType
  <2>6. NoConn \in TaskRecords
    BY ServerAssumption DEF NoConn, TaskRecords, Stages
  <2>7. conn' \in [Sockets -> TaskRecords]
    BY <1>1, <1>3, <2>6 DEF TypeOK, TaskRecords, Stages
  <2>8. TypeOK'
    BY <1>1, <2>7 DEF TypeOK, TaskRecords, Stages
  <2>9. Ownership'
    BY <1>1, <2>1 DEF Ownership, NoConn
  <2>10. Cardinality(Records') <= MaxConnections
    <3>1. Cardinality(Records) \in Nat /\ Cardinality(Records) <= MaxConnections
      BY <2>4, ServerAssumption, FS_Subset, FS_CardinalityType DEF AdmissionExact
    <3> QED
      BY <3>1, <2>5, ServerAssumption
  <2>11. active' = Cardinality(Leases') /\ permits' + Cardinality(Slots') = MaxLogins
    BY <1>1, <2>2 DEF AdmissionExact
  <2>12. /\ \A c \in Records' : conn'[c].id \in 1..nextId'
         /\ \A c, d \in Records' : conn'[c].id = conn'[d].id => c = d
    BY <1>1, <2>3 DEF AdmissionExact
  <2> QED
    BY <1>1, <2>8, <2>9, <2>10, <2>11, <2>12 DEF AdmissionExact
<1> QED
  BY <1>2, <1>3 DEF Top

(* Every step keeps admission exact.                                       *)
LEMMA AdmissionStep ==
  ASSUME AdmissionExact, [Next]_vars
  PROVE  AdmissionExact'
<1>0. /\ run \in {"top", "select", "aborting", "returned"} /\ shutdown \in BOOLEAN
      /\ uuid \in Uuids \cup {None} /\ (run = "returned" => Records = {})
  BY DEF AdmissionExact, TypeOK
<1>1. CASE UNCHANGED vars
  BY <1>0, <1>1, NoTask DEF vars, population
<1>2. CASE Top
  BY <1>2, TopAdmission
<1>3. CASE maintain
  BY <1>0, <1>3, NoTask DEF maintain
<1>4. CASE Refuse \/ Break \/ Shutdown
  BY <1>0, <1>4, NoTask DEF Refuse, Break, Shutdown, population
<1>5. CASE Return
  BY <1>0, <1>5, NoTask DEF Return, population
<1>6. ASSUME NEW c \in Sockets, JoinNext(c) \/ JoinAborted(c)
      PROVE  AdmissionExact'
  BY <1>6, JoinAdmission
<1>7. ASSUME NEW c \in Sockets, Accept(c)
      PROVE  AdmissionExact'
  BY <1>7, AcceptAdmission
<1>8. ASSUME NEW c \in Sockets, Task(c) \/ Abort(c)
      PROVE  AdmissionExact'
  BY <1>8, TaskAdmission
<1> QED
  BY <1>1, <1>2, <1>3, <1>4, <1>5, <1>6, <1>7, <1>8 DEF Next

(* A step under the same UUID that tells nobody anything.                  *)
LEMMA SessionStable ==
  ASSUME SessionShared, uuid' = uuid,
         \A c \in Sockets : conn'[c].lease =>
            \/ conn'[c].session = None
            \/ conn[c].lease /\ conn'[c].session = conn[c].session
  PROVE  SessionShared'
  BY DEF SessionShared, Leases

(* Every step keeps the session UUID shared.                               *)
LEMMA SessionStep ==
  ASSUME AdmissionExact, SessionShared, [Next]_vars
  PROVE  SessionShared'
<1>0. conn \in [Sockets -> TaskRecords]
  BY DEF AdmissionExact, TypeOK, TaskRecords, Stages
<1>1. CASE UNCHANGED <<uuid, conn>>
  BY <1>1, SessionStable
<1>2. CASE Top
  BY <1>0, <1>2, SessionStable DEF Top, population, NoConn
<1>3. CASE maintain
  <2>1. CASE active = 0
    <3>1. Leases = {}
      <4>1. Leases \in SUBSET Sockets /\ Cardinality(Leases) = 0
        BY <2>1 DEF AdmissionExact, Leases
      <4>2. IsFiniteSet(Leases)
        BY <4>1, ServerAssumption, FS_Subset
      <4> QED
        BY <4>1, <4>2, FS_EmptySet
    <3>2. Leases' = {}
      BY <1>3, <3>1 DEF maintain, Leases
    <3> QED
      BY <3>2 DEF SessionShared
  <2>2. CASE active # 0
    BY <1>3, <2>2, SessionStable DEF maintain
  <2> QED
    BY <2>1, <2>2
<1>4. ASSUME NEW c \in Sockets, JoinNext(c) \/ JoinAborted(c)
      PROVE  SessionShared'
  BY <1>0, <1>4, SessionStable DEF JoinNext, JoinAborted, population, NoConn
<1>5. ASSUME NEW c \in Sockets, Accept(c)
      PROVE  SessionShared'
  <2>1. uuid' = uuid /\ conn' = [conn EXCEPT ![c] = Admitted(nextId + 1)]
    BY <1>5 DEF Accept
  <2>2. Admitted(nextId + 1).session = None
    BY DEF Admitted
  <2> QED
    BY <1>0, <2>1, <2>2, SessionStable
<1>6. ASSUME NEW c \in Sockets, session_uuid(c)
      PROVE  SessionShared'
  <2>1. /\ conn' = [conn EXCEPT ![c].session = uuid']
        /\ uuid # None => uuid' = uuid
    BY <1>6 DEF session_uuid
  <2>2. conn'[c].session = uuid'
    BY <1>0, <2>1 DEF TaskRecords
  <2>3. \A d \in Sockets \ {c} : conn'[d] = conn[d]
    BY <1>0, <2>1
  <2>4. \A d \in Leases' \ {c} : conn'[d].session # None => conn'[d].session = uuid'
    BY <2>1, <2>3 DEF SessionShared, Leases
  <2> QED
    BY <2>2, <2>4 DEF SessionShared, Leases
<1>7. ASSUME NEW c \in Sockets, Task(c) \/ Abort(c), ~session_uuid(c)
      PROVE  SessionShared'
  <2> DEFINE Quiet == \A d \in Sockets : conn'[d].lease =>
                        conn[d].lease /\ conn'[d].session = conn[d].session
  <2>1. ASSUME Gone(c) PROVE Quiet /\ uuid' = uuid
    BY <1>0, <2>1 DEF Gone, TaskRecords
  <2>2. ASSUME Handshake(c) PROVE Quiet /\ uuid' = uuid
    BY <1>0, <2>1, <2>2 DEF Handshake, population, TaskRecords
  <2>3. ASSUME LoginReturns(c) PROVE Quiet /\ uuid' = uuid
    BY <1>0, <2>3 DEF LoginReturns, TaskRecords
  <2>4. ASSUME SlotReturns(c) PROVE Quiet /\ uuid' = uuid
    BY <1>0, <2>4 DEF SlotReturns, population, TaskRecords
  <2>5. Quiet /\ uuid' = uuid
    BY <1>7, <2>1, <2>2, <2>3, <2>4 DEF Task, StatusEnds, Abort
  <2> QED
    BY <2>5, SessionStable
<1> QED
  BY <1>1, <1>2, <1>3, <1>4, <1>5, <1>6, <1>7
     DEF Next, Refuse, Break, Return, Shutdown, population, vars

(* No task yet, nothing admitted.                                          *)
LEMMA ServerInit ==
  ASSUME Init
  PROVE  ServerInv
<1>1. Leases = {} /\ Slots = {} /\ Records = {}
  BY DEF Init, Leases, Slots, Records, NoConn
<1>2. NoConn \in TaskRecords
  BY ServerAssumption DEF NoConn, TaskRecords, Stages
<1>3. TypeOK
  <2>1. conn \in [Sockets -> TaskRecords]
    BY <1>2 DEF Init
  <2>2. active \in 0..MaxConnections /\ nextId \in 0..MaxId /\ permits \in 0..MaxLogins
    <3>1. active = 0 /\ nextId = 0 /\ permits = MaxLogins
      BY DEF Init
    <3> QED
      BY <3>1, ServerAssumption
  <2>3. run \in {"top", "select", "aborting", "returned"} /\ uuid \in Uuids \cup {None}
    BY DEF Init
  <2>4. shutdown \in BOOLEAN
    BY DEF Init
  <2> QED
    BY <2>1, <2>2, <2>3, <2>4 DEF TypeOK, TaskRecords, Stages
<1>4. Ownership
  BY DEF Init, Ownership, NoConn
<1> QED
  BY <1>1, <1>3, <1>4, FS_EmptySet, ServerAssumption
     DEF Init, ServerInv, AdmissionExact, SessionShared

(* The inductive invariant of the accept loop and its connections.         *)
THEOREM ServerInvariant == Spec => []ServerInv
<1>1. Init => ServerInv
  BY ServerInit
<1>2. ServerInv /\ [Next]_vars => ServerInv'
  BY AdmissionStep, SessionStep DEF ServerInv
<1> QED
  BY <1>1, <1>2, PTL DEF Spec

(* For every number of peers and every limit: leases and login slots are   *)
(* counted exactly whatever order tasks end, are aborted and are joined    *)
(* in, identities differ, and run returns only when all is back.           *)
THEOREM AdmissionSafety == Spec => []AdmissionExact
<1>1. ServerInv => AdmissionExact
  BY DEF ServerInv
<1> QED
  BY <1>1, ServerInvariant, PTL

(* For every number of peers: connections that are alive together were     *)
(* told one session UUID.                                                  *)
THEOREM SessionSafety == Spec => []SessionShared
<1>1. ServerInv => SessionShared
  BY DEF ServerInv
<1> QED
  BY <1>1, ServerInvariant, PTL
=============================================================================
