-------------------------- MODULE ConnectionProofs --------------------------
(***************************************************************************)
(* Proofs about one connection, in three layers of induction:              *)
(*                                                                         *)
(*  - TransportInv: task, stream, ciphers and the frame that is being      *)
(*    written agree at every await (WritesSound);                          *)
(*  - AnswersConserved, above it: every answer the server waits for is in  *)
(*    one place, by counting the places of the two sequences;              *)
(*  - ModesInv, above both: client and server switch encryption,           *)
(*    compression and protocol at the same frame (FramesReadable).         *)
(*                                                                         *)
(* In the first two layers, what the task itself keeps (Control) is shown  *)
(* apart from what is around it, since most steps change only one of them. *)
(***************************************************************************)
EXTENDS Connection, FiniteSetTheorems, TLAPS

(* The types of what the task itself keeps.                                *)
TaskTypes ==
  /\ pc \in {"receive", "key", "auth", "write", "loop", "read", "farewell", "closed"}
  /\ phase \in {"Hello", "Key", "CheckingKey", "Authenticating", "Verifying",
                "WritingFinished", "AwaitingAcknowledgement", "Accepted", "Closed"}
  /\ (write # None) = Writing
  /\ stage \in {"Initializing", "AwaitingKnownPacks", "SendingRegistries",
                "SendingTags", "AwaitingSpawn", "Closed"}
  /\ cursor \in 0..(Tags + 1)
  /\ elapsed \in 0..Interval /\ age \in 0..Interval
  /\ queued \in BOOLEAN /\ pending \in BOOLEAN

(* What the task itself keeps, wherever its stream is.                     *)
Control ==
  /\ TaskTypes /\ write \in Writes \cup {None}
  /\ PhaseOfTask /\ ContentOrder
  /\ Writing => ~write.frame.whole

(* The task stands at an await at which the transport has the stream.      *)
AtRest == pc # "closed" /\ (Writing => write.stage = "start")

(* Numbers of the constants.                                               *)
LEMMA Limits ==
  /\ Registries \in Nat \ {0} /\ TickLimit \in Nat \ {0} /\ Interval \in Nat \ {0}
  /\ MaxStrays \in Nat /\ Tags \in Nat /\ Tags >= 4
<1>1. Registries \in Nat \ {0} /\ TickLimit \in Nat \ {0} /\ Interval \in Nat \ {0}
  BY ConnectionAssumption
<1> QED
  BY <1>1, ConnectionAssumption DEF Tags

(* A packet about to be written.                                           *)
LEMMA StartingFacts ==
  ASSUME NEW k \in LoginKinds \cup {"Content", "KeepAlive", "Disconnect"}, NEW n \in Nat
  PROVE  /\ Starting(k, n) \in Writes /\ Starting(k, n) # None
         /\ Starting(k, n).stage = "start" /\ Starting(k, n).frame.kind = k
         /\ Starting(k, n).frame.n = n /\ ~Starting(k, n).frame.whole
<1>1. [kind |-> k, n |-> n, enc |-> FALSE, comp |-> FALSE, whole |-> FALSE] \in Frames
  BY DEF Frames
<1>2. Starting(k, n) \in Writes
  BY <1>1 DEF Starting, Writes
<1>3. Starting(k, n) # None
  BY <1>2, NoneAssumption
<1> QED
  BY <1>2, <1>3 DEF Starting

(* What the transport's invariant says of the task.                        *)
LEMMA ControlHolds == TransportInv => Control
BY DEF TransportInv, Control, TaskTypes, Shapes, TypeOK, TornTracked

(* The disconnect packet, from any phase.                                  *)
LEMMA FarewellControl ==
  ASSUME Control, NEW p, Farewell(p), pc # "closed",
         \/ p = phase
         \/ p = "Closed" /\ ~Accepted
         \/ p = "Verifying" /\ phase \in {"Hello", "Authenticating", "Verifying"}
  PROVE  Control' /\ AtRest'
<1> USE DEF Farewell, Control
<1>1. p \in {"Hello", "Key", "CheckingKey", "Authenticating", "Verifying",
             "WritingFinished", "AwaitingAcknowledgement", "Accepted", "Closed"}
  BY DEF TaskTypes
<1>2. /\ write' \in Writes /\ write' # None /\ write'.stage = "start" /\ ~write'.frame.whole
      /\ write'.frame.kind = IF p = "Accepted" THEN "Disconnect" ELSE "LoginDisconnect"
  BY StartingFacts DEF LoginKinds
<1>3. PhaseOfTask'
  BY <1>2 DEF PhaseOfTask, Accepted
<1>4. ContentOrder'
  BY <1>2 DEF ContentOrder, Accepted, PhaseOfTask
<1>5. TaskTypes'
  BY <1>1, <1>2 DEF TaskTypes, Writing
<1> QED
  BY <1>2, <1>3, <1>4, <1>5 DEF AtRest

(* Login Finished, or a farewell because no session UUID can be made.      *)
LEMMA PublishControl ==
  ASSUME Control, Publish, pc # "closed", phase \in {"Hello", "Authenticating", "Verifying"}
  PROVE  Control' /\ AtRest' /\ phase' \in {"Verifying", "WritingFinished"}
<1>1. CASE Farewell("Verifying")
  BY <1>1, FarewellControl DEF Farewell
<1>2. CASE ~Farewell("Verifying")
  <2>1. /\ pc' = "write" /\ phase' = "WritingFinished" /\ write' = Starting("Finished", 0)
        /\ UNCHANGED configuration
    BY <1>2 DEF Publish
  <2>2. /\ write' \in Writes /\ write' # None /\ write'.stage = "start" /\ ~write'.frame.whole
        /\ write'.frame.kind = "Finished"
    BY <2>1, StartingFacts DEF LoginKinds
  <2>3. PhaseOfTask' /\ TaskTypes'
    BY <2>1, <2>2 DEF PhaseOfTask, TaskTypes, Accepted, Writing, configuration, Control
  <2>4. ContentOrder'
    BY <2>1, <2>2 DEF ContentOrder, Control, configuration
  <2> QED
    BY <2>1, <2>2, <2>3, <2>4 DEF Control, AtRest
<1> QED
  BY <1>1, <1>2

(* A verified profile: the access check, then compression or the end.      *)
LEMMA VerifiedControl ==
  ASSUME Control, Verified, pc # "closed", phase \in {"Hello", "Authenticating"}
  PROVE  Control' /\ AtRest' /\ phase' \in {"Verifying", "WritingFinished"}
<1>1. CASE Farewell("Verifying")
  BY <1>1, FarewellControl DEF Farewell
<1>2. CASE Publish
  BY <1>2, PublishControl
<1>3. CASE ~Farewell("Verifying") /\ ~Publish
  <2>1. /\ pc' = "write" /\ phase' = "Verifying" /\ write' = Starting("SetCompression", 0)
        /\ UNCHANGED configuration
    BY <1>3 DEF Verified
  <2>2. /\ write' \in Writes /\ write' # None /\ write'.stage = "start" /\ ~write'.frame.whole
        /\ write'.frame.kind = "SetCompression"
    BY <2>1, StartingFacts DEF LoginKinds
  <2>3. PhaseOfTask' /\ TaskTypes'
    BY <2>1, <2>2 DEF PhaseOfTask, TaskTypes, Accepted, Writing, configuration, Control
  <2>4. ContentOrder'
    BY <2>1, <2>2 DEF ContentOrder, Control, configuration
  <2> QED
    BY <2>1, <2>2, <2>3, <2>4 DEF Control, AtRest
<1> QED
  BY <1>1, <1>2, <1>3

(* A piece of configuration or a keepalive is out.                         *)
LEMMA OutboundControl ==
  ASSUME Control, pc = "write", write.frame.kind \in {"Content", "KeepAlive"},
         outbound_written(write.frame.kind), pc' = "loop", write' = None, phase' = phase
  PROVE  Control' /\ AtRest'
<1>0. /\ Accepted /\ write.frame.kind \in {"Content", "KeepAlive"}
      /\ write.frame.kind = "Content" =>
           stage \in {"Initializing", "SendingRegistries", "SendingTags"}
      /\ Tags \in Nat /\ Tags >= 4 /\ cursor \in 0..(Tags + 1)
  BY Limits DEF Control, PhaseOfTask, ContentOrder, TaskTypes
<1>1. CASE write.frame.kind = "Content"
  <2>1. /\ cursor' = cursor + 1 /\ UNCHANGED <<queued, pending, elapsed, age>>
        /\ stage' = CASE cursor' = 3 -> "AwaitingKnownPacks"
                      [] cursor' = Tags -> "SendingTags"
                      [] cursor' = Tags + 1 -> "AwaitingSpawn"
                      [] OTHER -> stage
    BY <1>1 DEF outbound_written
  <2>2. /\ stage = "Initializing" => cursor < 3
        /\ stage = "SendingRegistries" => cursor >= 3 /\ cursor < Tags
        /\ stage = "SendingTags" => cursor = Tags
    BY <1>0 DEF Control, ContentOrder
  <2>3. \/ cursor' = 3 /\ stage' = "AwaitingKnownPacks"
        \/ cursor' = Tags /\ stage' = "SendingTags"
        \/ cursor' = Tags + 1 /\ stage' = "AwaitingSpawn"
        \/ cursor' < 3 /\ stage' = "Initializing"
        \/ cursor' > 3 /\ cursor' < Tags /\ stage' = "SendingRegistries"
    BY <1>0, <1>1, <2>1, <2>2
  <2>4. cursor' \in 0..(Tags + 1)
    BY <1>0, <1>1, <2>1, <2>2
  <2>5. ContentOrder'
    BY <1>0, <2>1, <2>3, <2>4 DEF ContentOrder, Control, Accepted
  <2>6. TaskTypes'
    <3>1. stage' \in {"Initializing", "AwaitingKnownPacks", "SendingRegistries",
                      "SendingTags", "AwaitingSpawn", "Closed"}
      BY <2>3
    <3> QED
      BY <2>1, <2>4, <3>1 DEF TaskTypes, Control, Writing
  <2>7. PhaseOfTask'
    BY <1>0 DEF PhaseOfTask, Accepted
  <2> QED
    BY <2>5, <2>6, <2>7 DEF Control, AtRest, Writing
<1>2. CASE write.frame.kind = "KeepAlive"
  <2>1. queued' = FALSE /\ pending' = TRUE /\ elapsed' = age /\ UNCHANGED <<stage, cursor, age>>
    BY <1>2 DEF outbound_written
  <2>2. ContentOrder'
    BY <1>0, <2>1 DEF ContentOrder, Control, Accepted
  <2>3. TaskTypes'
    <3>1. elapsed' \in 0..Interval /\ age' \in 0..Interval /\ queued' \in BOOLEAN /\ pending' \in BOOLEAN
      BY <2>1 DEF TaskTypes, Control
    <3>2. (write' # None) = Writing'
      BY DEF Writing
    <3> QED
      BY <2>1, <3>1, <3>2 DEF TaskTypes, Control
  <2>4. PhaseOfTask'
    BY <1>0 DEF PhaseOfTask, Accepted
  <2> QED
    BY <2>2, <2>3, <2>4 DEF Control, AtRest, Writing
<1> QED
  BY <1>0, <1>1, <1>2

(* What follows a written packet.                                          *)
LEMMA AfterWriteControl ==
  ASSUME Control, pc = "write", AfterWrite(write.frame.kind)
  PROVE  /\ Control' /\ AtRest'
         /\ phase' = phase \/ phase \in {"Verifying", "WritingFinished"}
         /\ phase = "Key" => phase' = "Key"
<1>0. \/ write.frame.kind = "Challenge" /\ phase = "Key"
      \/ write.frame.kind = "SetCompression" /\ phase = "Verifying"
      \/ write.frame.kind = "Finished" /\ phase = "WritingFinished"
      \/ write.frame.kind \in {"Content", "KeepAlive"} /\ Accepted
  BY DEF Control, PhaseOfTask
<1>1. CASE write.frame.kind = "Challenge" /\ phase = "Key"
  <2>1. pc' = "receive" /\ write' = None /\ phase' = phase /\ UNCHANGED configuration
    BY <1>1 DEF AfterWrite
  <2> QED
    BY <1>1, <2>1 DEF Control, AtRest, TaskTypes, PhaseOfTask, ContentOrder, Accepted,
                      Writing, configuration
<1>2. CASE write.frame.kind = "SetCompression" /\ phase = "Verifying"
  <2>1. Publish
    BY <1>2 DEF AfterWrite
  <2> QED
    BY <1>2, <2>1, PublishControl
<1>3. CASE write.frame.kind = "Finished" /\ phase = "WritingFinished"
  <2>1. /\ pc' = "receive" /\ write' = None /\ phase' = "AwaitingAcknowledgement"
        /\ UNCHANGED configuration
    BY <1>3 DEF AfterWrite
  <2> QED
    BY <1>3, <2>1 DEF Control, AtRest, TaskTypes, PhaseOfTask, ContentOrder, Accepted,
                      Writing, configuration
<1>4. CASE write.frame.kind \in {"Content", "KeepAlive"} /\ Accepted
  <2>1. pc' = "loop" /\ write' = None /\ phase' = phase /\ outbound_written(write.frame.kind)
    BY <1>4 DEF AfterWrite
  <2> QED
    BY <1>4, <2>1, OutboundControl DEF Accepted
<1> QED
  BY <1>0, <1>1, <1>2, <1>3, <1>4

(* What a login packet does.                                               *)
LEMMA LoginControl ==
  ASSUME Control, pc = "receive", NEW kind, OnLoginPacket(kind)
  PROVE  /\ Control' /\ AtRest'
         /\ \/ phase' \in {phase, "Key", "CheckingKey"}
            \/ phase' \in {"Verifying", "WritingFinished"} /\ ~online
            \/ phase = "AwaitingAcknowledgement" /\ phase' = "Accepted"
<1>1. CASE Farewell(phase)
  BY <1>1, FarewellControl DEF Farewell
<1>2. CASE phase = "Hello" /\ ~online /\ Verified
  BY <1>2, VerifiedControl
<1>3. CASE /\ phase = "Hello" /\ pc' = "write" /\ phase' = "Key"
           /\ write' = Starting("Challenge", 0) /\ UNCHANGED configuration
  <2>2. /\ write' \in Writes /\ write' # None /\ write'.stage = "start" /\ ~write'.frame.whole
        /\ write'.frame.kind = "Challenge"
    BY <1>3, StartingFacts DEF LoginKinds
  <2>3. PhaseOfTask' /\ TaskTypes'
    BY <1>3, <2>2 DEF PhaseOfTask, TaskTypes, Accepted, Writing, configuration, Control
  <2>4. ContentOrder'
    BY <1>3, <2>2 DEF ContentOrder, Control, configuration
  <2> QED
    BY <1>3, <2>2, <2>3, <2>4 DEF Control, AtRest
<1>4. CASE phase = "Key" /\ pc' = "key" /\ phase' = "CheckingKey" /\ UNCHANGED <<write, configuration>>
  BY <1>4 DEF Control, AtRest, TaskTypes, PhaseOfTask, ContentOrder, Accepted, Writing, configuration
<1>5. CASE /\ phase = "AwaitingAcknowledgement" /\ pc' = "loop" /\ phase' = "Accepted"
           /\ UNCHANGED <<write, configuration>>
  BY <1>5 DEF Control, AtRest, TaskTypes, PhaseOfTask, ContentOrder, Accepted, Writing, configuration
<1> QED
  BY <1>1, <1>2, <1>3, <1>4, <1>5 DEF OnLoginPacket

(* What a configuration packet does.                                       *)
LEMMA ConfigurationControl ==
  ASSUME Control, pc = "read", NEW kind, on_packet(kind)
  PROVE  Control' /\ AtRest' /\ phase' = phase
<1>1. CASE Farewell(phase)
  BY <1>1, FarewellControl DEF Farewell
<1>2. CASE ~Farewell(phase)
  <2>1. /\ pc' = "loop" /\ UNCHANGED <<phase, write, cursor, queued, elapsed, age>>
        /\ \/ UNCHANGED <<stage, pending>>
           \/ stage = "AwaitingKnownPacks" /\ stage' = "SendingRegistries" /\ UNCHANGED pending
           \/ pending' = FALSE /\ UNCHANGED stage
    BY <1>2 DEF on_packet
  <2>2. Accepted /\ Tags \in Nat /\ Tags >= 4
    BY Limits DEF Control, PhaseOfTask
  <2>3. ContentOrder'
    BY <2>1, <2>2 DEF Control, ContentOrder, Accepted
  <2>4. TaskTypes'
    <3>1. /\ pending' \in BOOLEAN
          /\ stage' \in {"Initializing", "AwaitingKnownPacks", "SendingRegistries",
                         "SendingTags", "AwaitingSpawn", "Closed"}
      BY <2>1 DEF Control, TaskTypes
    <3>2. (write' # None) = Writing'
      BY <2>1 DEF Control, TaskTypes, Writing
    <3> QED
      BY <2>1, <3>1, <3>2 DEF Control, TaskTypes
  <2>5. PhaseOfTask' /\ write' \in Writes \cup {None} /\ ~Writing'
    BY <2>1, <2>2 DEF Control, PhaseOfTask, Accepted, Writing
  <2> QED
    BY <2>1, <2>3, <2>4, <2>5 DEF Control, AtRest
<1> QED
  BY <1>1, <1>2

(* What a turn of the configuration loop does.                             *)
LEMMA LoopControl ==
  ASSUME Control, Loop
  PROVE  Control' /\ AtRest' /\ phase' = phase
<1>0. pc = "loop" /\ Accepted /\ cursor \in Nat
  BY Limits DEF Loop, Control, PhaseOfTask, TaskTypes
<1>1. CASE Farewell(phase)
  BY <1>0, <1>1, FarewellControl DEF Farewell
<1>2. CASE ~Farewell(phase)
  <2> DEFINE keepalive == queued \/ elapsed = Interval
  <2>1. /\ ~(elapsed = Interval /\ pending)
        /\ queued' = keepalive /\ age' \in {0, age}
        /\ \/ /\ keepalive
              /\ pc' = "write" /\ write' = Starting("KeepAlive", 0)
           \/ /\ ~keepalive /\ stage \in {"Initializing", "SendingRegistries", "SendingTags"}
              /\ pc' = "write" /\ write' = Starting("Content", cursor)
           \/ pc' = "read" /\ UNCHANGED write
        /\ UNCHANGED <<phase, stage, cursor, pending, elapsed>>
    BY <1>2 DEF Loop
  <2>2. queued' => ~pending'
    BY <2>1 DEF Control, ContentOrder
  <2>3. age' \in 0..Interval /\ queued' \in BOOLEAN
    BY <2>1, Limits DEF Control, TaskTypes
  <2> HIDE DEF keepalive
  <2>4. CASE keepalive /\ pc' = "write" /\ write' = Starting("KeepAlive", 0)
    <3>1. /\ write' \in Writes /\ write' # None /\ write'.stage = "start"
          /\ ~write'.frame.whole /\ write'.frame.kind = "KeepAlive"
      BY <2>4, StartingFacts
    <3> QED
      BY <1>0, <2>1, <2>2, <2>3, <2>4, <3>1
         DEF Control, AtRest, TaskTypes, PhaseOfTask, ContentOrder, Accepted, Writing
  <2>5. CASE /\ stage \in {"Initializing", "SendingRegistries", "SendingTags"}
             /\ pc' = "write" /\ write' = Starting("Content", cursor)
    <3>1. /\ write' \in Writes /\ write' # None /\ write'.stage = "start"
          /\ ~write'.frame.whole /\ write'.frame.kind = "Content" /\ write'.frame.n = cursor
      BY <1>0, <2>5, StartingFacts
    <3> QED
      BY <1>0, <2>1, <2>2, <2>3, <2>5, <3>1
         DEF Control, AtRest, TaskTypes, PhaseOfTask, ContentOrder, Accepted, Writing
  <2>6. CASE pc' = "read" /\ UNCHANGED write
    BY <1>0, <2>1, <2>2, <2>3, <2>6
       DEF Control, AtRest, TaskTypes, PhaseOfTask, ContentOrder, Accepted, Writing
  <2> QED
    BY <2>1, <2>4, <2>5, <2>6
<1> QED
  BY <1>1, <1>2

-----------------------------------------------------------------------------
(* The types of everything around the task.                                *)
Surroundings ==
  /\ online \in BOOLEAN /\ compress \in BOOLEAN /\ shutdown \in BOOLEAN
  /\ ticks \in 0..TickLimit
  /\ stream \in {"held", "writing", "none"}
  /\ encryptor \in {"held", "none"} /\ decryptor \in {"held", "none"}
  /\ compression \in BOOLEAN
  /\ reading \in Reads /\ (reading.stage = "idle" <=> reading.frame = None)
  /\ inbox \in Seq(Answers) /\ wire \in Seq(Frames) /\ client \in Clients /\ strays \in Nat

(* Every frame on the wire is completely written.                          *)
AllWhole == \A i \in DOMAIN wire : wire[i].whole

(* Shapes, in the parts that steps change separately.                      *)
LEMMA ShapesParts == Shapes <=> TaskTypes /\ Surroundings /\ write \in Writes \cup {None}
BY DEF Shapes, TaskTypes, Surroundings, TypeOK, Reads

(* The same after a step.                                                  *)
LEMMA ShapesNext ==
  ASSUME TaskTypes', Surroundings', write' \in Writes \cup {None}
  PROVE  Shapes'
BY DEF Shapes, TaskTypes, Surroundings, TypeOK, Reads

(* What the invariant says of the task and of what is around it.           *)
LEMMA Parts ==
  ASSUME TransportInv
  PROVE  /\ Control /\ Surroundings /\ StreamOwned /\ CiphersPaired /\ TornTracked
         /\ stream = "held" => AllWhole
<1>1. Control /\ Surroundings
  BY ControlHolds, ShapesParts DEF TransportInv
<1>2. stream = "held" => AllWhole
  BY DEF TransportInv, TornTracked, TornIsLast, AllWhole
<1> QED
  BY <1>1, <1>2 DEF TransportInv

(* The invariant, where the transport has its stream.                      *)
LEMMA AtRestInv ==
  ASSUME Control', AtRest', Surroundings', stream' = "held", CiphersPaired', AllWhole'
  PROVE  TransportInv'
<1>1. Shapes'
  BY ShapesNext DEF Control
<1>2. StreamOwned'
  BY DEF AtRest, StreamOwned
<1>3. TornTracked'
  BY DEF AtRest, TornTracked, TornIsLast, AllWhole, Control
<1> QED
  BY <1>1, <1>2, <1>3 DEF TransportInv, Control

(* The end of the task.                                                    *)
LEMMA ShutInv ==
  ASSUME TransportInv, Shut, UNCHANGED <<services, shutdown, ticks>>,
         inbox' \in Seq(Answers), wire' \in Seq(Frames), client' \in Clients, strays' \in Nat,
         \A i \in DOMAIN wire' : ~wire'[i].whole => i = Len(wire')
  PROVE  TransportInv'
<1> USE Parts
<1>1. reading' \in Reads /\ reading'.stage = "idle" /\ reading'.frame = None
  BY DEF Shut, Idle, Reads
<1>2. Surroundings'
  BY <1>1 DEF Shut, Surroundings, services
<1>3. TaskTypes' /\ PhaseOfTask' /\ ContentOrder'
  <2>1. TaskTypes'
    <3>1. (write' # None) = Writing'
      BY DEF Shut, Writing
    <3>2. UNCHANGED <<cursor, elapsed, age>> /\ TaskTypes
      BY DEF Shut, Control
    <3> QED
      BY <3>1, <3>2 DEF Shut, TaskTypes
  <2>2. PhaseOfTask'
    BY DEF Shut, PhaseOfTask
  <2>3. ContentOrder'
    BY DEF Shut, ContentOrder
  <2> QED
    BY <2>1, <2>2, <2>3
<1>4. StreamOwned' /\ CiphersPaired'
  BY DEF Shut, StreamOwned, CiphersPaired, Writing
<1>5. TornTracked'
  BY DEF Shut, TornTracked, TornIsLast, Writing
<1>6. write' \in Writes \cup {None}
  BY DEF Shut
<1> QED
  BY <1>2, <1>3, <1>4, <1>5, <1>6, ShapesNext DEF TransportInv

(* A torn frame is the last one.                                           *)
LEMMA TornLast ==
  ASSUME TransportInv
  PROVE  /\ inbox \in Seq(Answers) /\ wire \in Seq(Frames) /\ client \in Clients /\ strays \in Nat
         /\ \A i \in DOMAIN wire : ~wire[i].whole => i = Len(wire)
BY DEF TransportInv, TornTracked, TornIsLast, Shapes

(* The task is dropped at an await, or fails with the transport.           *)
LEMMA EndsInv ==
  ASSUME TransportInv, Shut, UNCHANGED <<services, shutdown, ticks, peer>>
  PROVE  TransportInv'
<1>1. UNCHANGED <<inbox, wire, client, strays>>
  BY DEF peer
<1> QED
  BY <1>1, TornLast, ShutInv

(* An interrupted await ends the task, or leads to its farewell.           *)
LEMMA InterruptInv ==
  ASSUME TransportInv, NEW p \in {phase, "Closed"}, ~Accepted, pc \notin {"farewell", "closed"},
         Interrupt(p), UNCHANGED <<services, shutdown, ticks, peer>>
  PROVE  TransportInv'
<1>1. CASE stream # "held"
  BY <1>1, EndsInv DEF Interrupt
<1>2. CASE stream = "held"
  <2>1. Farewell(p) /\ UNCHANGED link
    BY <1>2 DEF Interrupt
  <2>2. Control' /\ AtRest'
    BY <2>1, Parts, FarewellControl
  <2>3. Surroundings' /\ AllWhole' /\ stream' = "held"
    BY <1>2, <2>1, Parts DEF Surroundings, AllWhole, link, peer, services
  <2>4. CiphersPaired'
    BY <1>2, <2>1, Parts DEF CiphersPaired, Sealed, link, Farewell, services
  <2> QED
    BY <2>2, <2>3, <2>4, AtRestInv
<1> QED
  BY <1>1, <1>2

(* The stream leaves the transport for the write.                          *)
LEMMA StartWriteInv == ASSUME TransportInv, StartWrite PROVE TransportInv'
<1> USE Parts
<1>0. write \in Writes /\ write # None
  BY DEF StartWrite, Control, TaskTypes
<1>1. /\ write' \in Writes /\ write' # None /\ write'.stage = "job" /\ ~write'.frame.whole
      /\ write'.frame.kind = write.frame.kind /\ write'.frame.n = write.frame.n
      /\ write'.frame.enc = (encryptor = "held") /\ write'.frame.comp = compression
  <2>1. [write.frame EXCEPT !.enc = encryptor = "held", !.comp = compression] \in Frames
    BY <1>0 DEF Writes, Frames, Surroundings
  <2>2. write' = [stage |-> "job",
                  frame |-> [write.frame EXCEPT !.enc = encryptor = "held", !.comp = compression]]
    BY <1>0 DEF StartWrite, Writes, Frames
  <2>3. write' \in Writes
    BY <2>1, <2>2 DEF Writes
  <2>4. write' # None
    BY <2>3, NoneAssumption
  <2>5. write.frame \in Frames /\ ~write.frame.whole
    BY <1>0 DEF Writes, Control, StartWrite
  <2>6. /\ write'.stage = "job"
        /\ write'.frame = [write.frame EXCEPT !.enc = encryptor = "held", !.comp = compression]
    BY <2>2
  <2> QED
    BY <2>3, <2>4, <2>5, <2>6 DEF Frames
<1>2. stream = "held" /\ AllWhole
  BY DEF StartWrite, StreamOwned
<1>3. Shapes'
  <2>1. TaskTypes'
    BY <1>0, <1>1 DEF TaskTypes, Control, StartWrite, Writing, login, configuration
  <2>2. Surroundings'
    BY DEF Surroundings, StartWrite, services, login, peer
  <2> QED
    BY <1>1, <2>1, <2>2, ShapesNext
<1>4. StreamOwned'
  BY <1>1 DEF StreamOwned, StartWrite, Writing
<1>5. PhaseOfTask' /\ ContentOrder'
  BY <1>1 DEF PhaseOfTask, ContentOrder, Control, StartWrite, Accepted, login, configuration
<1>6. CiphersPaired'
  BY <1>1, <1>2 DEF CiphersPaired, Sealed, StartWrite, services, login
<1>7. TornTracked'
  BY <1>1, <1>2 DEF TornTracked, TornIsLast, AllWhole, StartWrite, Writing, peer
<1> QED
  BY <1>3, <1>4, <1>5, <1>6, <1>7 DEF TransportInv

(* The frame that is being written.                                        *)
LEMMA WriteFacts ==
  ASSUME TransportInv, Writing
  PROVE  write \in Writes /\ write # None /\ write.frame \in Frames /\ ~write.frame.whole
BY Parts DEF Control, TaskTypes, Writes

(* The wire with one frame more.                                           *)
LEMMA Appended ==
  ASSUME NEW S, NEW q \in Seq(S), NEW f \in S
  PROVE  /\ Append(q, f) \in Seq(S) /\ Len(Append(q, f)) = Len(q) + 1
         /\ DOMAIN Append(q, f) = 1..(Len(q) + 1) /\ DOMAIN q = 1..Len(q)
         /\ \A i \in DOMAIN q : Append(q, f)[i] = q[i]
         /\ Append(q, f)[Len(q) + 1] = f /\ Append(q, f) # <<>>
OBVIOUS

(* The first bytes go out: all before them are whole.                      *)
LEMMA EncodedInv == ASSUME TransportInv, Encoded PROVE TransportInv'
<1> USE Parts
<1>0. /\ write \in Writes /\ write # None /\ write.frame \in Frames /\ ~write.frame.whole
      /\ Writing /\ write.stage = "job" /\ stream = "writing" /\ wire \in Seq(Frames)
  BY WriteFacts DEF Encoded, StreamOwned, Surroundings
<1>1. /\ write' \in Writes /\ write' # None /\ write'.stage = "socket" /\ write'.frame = write.frame
  <2>1. write' = [stage |-> "socket", frame |-> write.frame]
    BY <1>0 DEF Encoded, Writes
  <2>2. write' \in Writes
    BY <1>0, <2>1 DEF Writes
  <2> QED
    BY <2>1, <2>2, NoneAssumption
<1>2. AllWhole
  BY <1>0 DEF TornTracked, TornIsLast, AllWhole
<1>3. Shapes'
  <2>1. TaskTypes'
    BY <1>0, <1>1 DEF TaskTypes, Control, Encoded, Writing, login, configuration
  <2>2. wire' \in Seq(Frames)
    BY <1>0, Appended DEF Encoded
  <2>3. Surroundings'
    BY <2>2 DEF Surroundings, Encoded, services, login, link
  <2> QED
    BY <1>1, <2>1, <2>3, ShapesNext
<1>4. StreamOwned'
  BY <1>0, <1>1 DEF StreamOwned, Encoded, Writing, link
<1>5. PhaseOfTask' /\ ContentOrder'
  BY <1>1 DEF PhaseOfTask, ContentOrder, Control, Encoded, Accepted, login, configuration
<1>6. CiphersPaired'
  BY <1>0, <1>1 DEF CiphersPaired, Sealed, Encoded, services, login, link
<1>7. TornTracked'
  <2> DEFINE w == Append(wire, write.frame)
  <2>1. /\ wire' = w /\ DOMAIN w = 1..(Len(wire) + 1) /\ Len(w) = Len(wire) + 1 /\ w # <<>>
        /\ w[Len(wire) + 1] = write.frame /\ DOMAIN wire = 1..Len(wire)
        /\ \A i \in DOMAIN wire : w[i] = wire[i]
    BY <1>0, Appended DEF Encoded
  <2>2. Len(wire) \in Nat
    BY <1>0
  <2> HIDE DEF w
  <2>3. \A i \in DOMAIN w : ~w[i].whole => i = Len(w)
    BY <1>2, <2>1, <2>2 DEF AllWhole
  <2>4. stream' = "writing" /\ Writing'
    BY <1>0 DEF Encoded, link, Writing
  <2> QED
    BY <1>0, <1>1, <2>1, <2>3, <2>4 DEF TornTracked, TornIsLast
<1> QED
  BY <1>3, <1>4, <1>5, <1>6, <1>7 DEF TransportInv

(* A sequence with one element replaced.                                   *)
LEMMA Replaced ==
  ASSUME NEW S, NEW q \in Seq(S), NEW k \in 1..Len(q), NEW f \in S
  PROVE  /\ [q EXCEPT ![k] = f] \in Seq(S)
         /\ Len([q EXCEPT ![k] = f]) = Len(q) /\ DOMAIN [q EXCEPT ![k] = f] = 1..Len(q)
         /\ [q EXCEPT ![k] = f][k] = f
         /\ \A i \in 1..Len(q) : i # k => [q EXCEPT ![k] = f][i] = q[i]
<1> DEFINE r == [q EXCEPT ![k] = f]
<1>1. DOMAIN q = 1..Len(q) /\ Len(q) \in Nat /\ \A i \in 1..Len(q) : q[i] \in S
  OBVIOUS
<1>2. r \in [1..Len(q) -> S] /\ DOMAIN r = 1..Len(q)
  BY <1>1
<1>3. r \in Seq(S) /\ Len(r) = Len(q)
  BY <1>1, <1>2
<1> QED
  BY <1>1, <1>2, <1>3

(* The places before the last one.                                         *)
LEMMA BeforeLast ==
  ASSUME NEW n \in Nat
  PROVE  \A i : i \in 1..(n - 1) <=> i \in 1..n /\ i # n
OBVIOUS

(* The wire when the last byte is out.                                     *)
LastDone(q) == [q EXCEPT ![Len(q)].whole = TRUE]

(* Nothing else changes, and the last frame is whole.                      *)
LEMMA LastDoneFacts ==
  ASSUME NEW q \in Seq(Frames), q # <<>>
  PROVE  /\ LastDone(q) \in Seq(Frames) /\ Len(LastDone(q)) = Len(q)
         /\ DOMAIN LastDone(q) = 1..Len(q) /\ Len(q) \in Nat \ {0} /\ DOMAIN q = 1..Len(q)
         /\ LastDone(q)[Len(q)] = [q[Len(q)] EXCEPT !.whole = TRUE]
         /\ \A i \in 1..(Len(q) - 1) : LastDone(q)[i] = q[i]
<1> DEFINE f == [q[Len(q)] EXCEPT !.whole = TRUE]
<1>1. Len(q) \in Nat \ {0} /\ DOMAIN q = 1..Len(q) /\ Len(q) \in 1..Len(q)
  OBVIOUS
<1>2. q[Len(q)] \in Frames
  BY <1>1
<1>3. f \in Frames
  BY <1>2 DEF Frames
<1> DEFINE r == [q EXCEPT ![Len(q)] = f]
<1>4. LastDone(q) = r
  BY DEF LastDone
<1> HIDE DEF f
<1>5. \A i \in 1..(Len(q) - 1) : i \in 1..Len(q) /\ i # Len(q)
  BY <1>1, BeforeLast
<1>6. /\ r \in Seq(Frames) /\ Len(r) = Len(q) /\ DOMAIN r = 1..Len(q) /\ r[Len(q)] = f
      /\ \A i \in 1..Len(q) : i # Len(q) => r[i] = q[i]
  <2>1. r \in Seq(Frames)
    BY <1>1, <1>3, Replaced
  <2>2. Len(r) = Len(q) /\ DOMAIN r = 1..Len(q)
    BY <1>1, <1>3, Replaced
  <2>3. r[Len(q)] = f
    BY <1>1
  <2>4. \A i \in 1..Len(q) : i # Len(q) => r[i] = q[i]
    BY <1>1
  <2> QED
    BY <2>1, <2>2, <2>3, <2>4
<1> HIDE DEF r
<1>7. LastDone(q)[Len(q)] = [q[Len(q)] EXCEPT !.whole = TRUE]
  BY <1>4, <1>6 DEF f
<1> QED
  BY <1>1, <1>4, <1>5, <1>6, <1>7

(* Then every frame is whole, the one that was being written too.          *)
LEMMA WrittenWire ==
  ASSUME TransportInv, Writing, write.stage = "socket", wire' = LastDone(wire)
  PROVE  /\ wire' \in Seq(Frames) /\ Len(wire') = Len(wire) /\ DOMAIN wire' = 1..Len(wire)
         /\ Len(wire) \in Nat \ {0} /\ DOMAIN wire = 1..Len(wire)
         /\ wire[Len(wire)] = write.frame
         /\ wire'[Len(wire)] = [write.frame EXCEPT !.whole = TRUE]
         /\ \A i \in 1..(Len(wire) - 1) : wire'[i] = wire[i] /\ wire[i].whole
         /\ AllWhole'
<1>1. /\ wire \in Seq(Frames) /\ wire # <<>> /\ wire[Len(wire)] = write.frame
      /\ \A i \in DOMAIN wire : ~wire[i].whole => i = Len(wire)
  BY Parts DEF TornTracked, TornIsLast, Surroundings
<1>2. /\ wire' \in Seq(Frames) /\ Len(wire') = Len(wire) /\ DOMAIN wire' = 1..Len(wire)
      /\ Len(wire) \in Nat \ {0} /\ DOMAIN wire = 1..Len(wire)
      /\ wire'[Len(wire)] = [write.frame EXCEPT !.whole = TRUE]
      /\ \A i \in 1..(Len(wire) - 1) : wire'[i] = wire[i]
  <2>1. /\ LastDone(wire) \in Seq(Frames) /\ Len(LastDone(wire)) = Len(wire)
        /\ DOMAIN LastDone(wire) = 1..Len(wire) /\ Len(wire) \in Nat \ {0}
        /\ DOMAIN wire = 1..Len(wire)
        /\ LastDone(wire)[Len(wire)] = [wire[Len(wire)] EXCEPT !.whole = TRUE]
        /\ \A i \in 1..(Len(wire) - 1) : LastDone(wire)[i] = wire[i]
    BY <1>1, LastDoneFacts
  <2> QED
    BY <1>1, <2>1
<1>3. [write.frame EXCEPT !.whole = TRUE].whole
  BY WriteFacts DEF Frames
<1>4. \A i \in 1..(Len(wire) - 1) : wire[i].whole
  BY <1>1, <1>2
<1>5. AllWhole'
  <2>1. ASSUME NEW i \in DOMAIN wire' PROVE wire'[i].whole
    <3>1. CASE i = Len(wire)
      BY <1>2, <1>3, <3>1
    <3>2. CASE i # Len(wire)
      BY <1>2, <1>4, <2>1, <3>2, BeforeLast
    <3> QED
      BY <3>1, <3>2
  <2> QED
    BY <2>1 DEF AllWhole
<1> QED
  BY <1>1, <1>2, <1>4, <1>5

(* Stream and cipher come back, or the task is over.                       *)
LEMMA WrittenInv == ASSUME TransportInv, Written PROVE TransportInv'
<1> USE Parts
<1>0. /\ Writing /\ write.stage = "socket" /\ stream = "writing"
      /\ wire' = LastDone(wire)
      /\ UNCHANGED <<services, shutdown, ticks, inbox, client, strays>>
  BY DEF Written, StreamOwned, LastDone
<1>1. wire' \in Seq(Frames) /\ AllWhole'
  BY <1>0, WrittenWire
<1>2. CASE pc = "farewell"
  <2>1. Shut
    BY <1>2 DEF Written
  <2>2. inbox' \in Seq(Answers) /\ client' \in Clients /\ strays' \in Nat
    BY <1>0 DEF Surroundings
  <2>3. \A i \in DOMAIN wire' : ~wire'[i].whole => i = Len(wire')
    BY <1>1 DEF AllWhole
  <2> QED
    BY <1>0, <1>1, <2>1, <2>2, <2>3, ShutInv
<1>3. CASE pc = "write"
  <2>1. /\ stream' = "held" /\ encryptor' = CipherOf(write.frame) /\ UNCHANGED <<decryptor, reading>>
        /\ AfterWrite(write.frame.kind)
    BY <1>3 DEF Written
  <2>2. /\ Control' /\ AtRest'
        /\ phase' = phase \/ phase \in {"Verifying", "WritingFinished"}
    BY <1>3, <2>1, AfterWriteControl
  <2>3. compression' \in BOOLEAN
    <3>1. compression' \in {compression, TRUE}
      BY <1>3, <2>1 DEF AfterWrite, Control, PhaseOfTask
    <3> QED
      BY <3>1 DEF Surroundings
  <2>4. Surroundings'
    BY <1>0, <1>1, <2>1, <2>3 DEF Surroundings, services, CipherOf
  <2>5. CiphersPaired'
    <3>1. Sealed' = Sealed
      BY <1>0, <2>1, WriteFacts DEF Sealed, CipherOf, Frames
    <3>2. online' = online /\ stream # "none" /\ reading' = reading /\ decryptor' = decryptor
      BY <1>0, <2>1 DEF services
    <3> HIDE DEF Sealed
    <3> QED
      BY <2>2, <3>1, <3>2 DEF CiphersPaired
  <2> QED
    BY <1>1, <2>1, <2>2, <2>4, <2>5, AtRestInv
<1> QED
  BY <1>0, <1>2, <1>3 DEF Writing

(* Steps that leave the task where it is, and its write and configuration. *)
LEMMA SameControl ==
  ASSUME Control, UNCHANGED <<pc, phase, write, configuration>>
  PROVE  Control'
BY DEF Control, TaskTypes, PhaseOfTask, ContentOrder, Accepted, Writing, configuration

(* The invariant over a step that leaves the task, the stream and the wire *)
(* alone.                                                                  *)
LEMMA AroundInv ==
  ASSUME TransportInv, UNCHANGED <<pc, phase, write, configuration, stream, encryptor, wire>>,
         Surroundings', CiphersPaired'
  PROVE  TransportInv'
<1>1. Control'
  BY Parts, SameControl
<1>2. Shapes'
  BY <1>1, ShapesNext DEF Control
<1>3. StreamOwned'
  BY Parts DEF StreamOwned, Writing
<1>4. TornTracked'
  BY Parts DEF TornTracked, TornIsLast, Writing
<1> QED
  BY <1>1, <1>2, <1>3, <1>4 DEF TransportInv, Control

(* The read in progress.                                                   *)
LEMMA ReadingFacts ==
  ASSUME TransportInv
  PROVE  /\ reading \in Reads
         /\ reading.stage # "idle" => reading.frame \in Answers /\ reading.frame # None
  BY Parts DEF Surroundings, Reads

(* The first bytes of a frame come in.                                     *)
LEMMA ReadByteInv == ASSUME TransportInv, ReadByte PROVE TransportInv'
<1>0. inbox \in Seq(Answers) /\ inbox # <<>> /\ reading.stage = "idle" /\ stream = "held"
  BY Parts DEF ReadByte, Surroundings, StreamOwned, Reading
<1>1. Head(inbox) \in Answers /\ Tail(inbox) \in Seq(Answers) /\ Head(inbox) # None
  BY <1>0, NoneAssumption
<1>2. reading' = [stage |-> "prefix", frame |-> Head(inbox), comp |-> FALSE] /\ inbox' = Tail(inbox)
  BY DEF ReadByte, Idle
<1>3. reading' \in Reads /\ reading'.stage = "prefix" /\ reading'.frame # None
  BY <1>1, <1>2 DEF Reads
<1>4. Surroundings'
  BY <1>1, <1>2, <1>3, Parts DEF Surroundings, ReadByte, services, login
<1>5. CiphersPaired'
  BY <1>0, <1>3, Parts DEF CiphersPaired, Sealed, ReadByte, services, login
<1> QED
  BY <1>4, <1>5, AroundInv DEF ReadByte, login

(* Its header is complete, and was made with the cipher the server has.    *)
LEMMA ReadHeaderInv == ASSUME TransportInv, ReadHeader PROVE TransportInv'
<1>0. reading \in Reads /\ reading.stage = "prefix" /\ reading.frame \in Answers /\ reading.frame # None
  BY ReadingFacts DEF ReadHeader
<1>1. reading' = [stage |-> "body", frame |-> reading.frame, comp |-> compression]
  BY <1>0 DEF ReadHeader, Reads
<1>2. /\ reading' \in Reads /\ reading'.stage = "body" /\ reading'.frame # None
      /\ reading'.frame = reading.frame
  BY <1>0, <1>1, Parts DEF Reads, Surroundings
<1>3. Surroundings'
  BY <1>2, Parts DEF Surroundings, ReadHeader, services, login, peer
<1>4. CiphersPaired'
  BY <1>0, <1>2, Parts DEF CiphersPaired, Sealed, ReadHeader, services, login
<1> QED
  BY <1>3, <1>4, AroundInv DEF ReadHeader, login, peer

(* The job takes the decryptor along.                                      *)
LEMMA ReadBodyInv == ASSUME TransportInv, ReadBody PROVE TransportInv'
<1>0. /\ reading \in Reads /\ reading.stage = "body" /\ reading.frame \in Answers /\ reading.frame # None
      /\ stream = "held"
  BY ReadingFacts, Parts DEF ReadBody, StreamOwned, Reading
<1>1. reading' = [stage |-> "job", frame |-> reading.frame, comp |-> reading.comp]
  BY <1>0 DEF ReadBody, Reads
<1>2. /\ reading' \in Reads /\ reading'.stage = "job" /\ reading'.frame # None
      /\ reading'.frame = reading.frame
  BY <1>0, <1>1 DEF Reads
<1>3. Surroundings'
  BY <1>2, Parts DEF Surroundings, ReadBody, services, login, peer
<1>4. CiphersPaired'
  BY <1>0, <1>2, Parts DEF CiphersPaired, Sealed, ReadBody, services, login
<1> QED
  BY <1>3, <1>4, AroundInv DEF ReadBody, login, peer

(* A packet is delivered: the job gives the decryptor back.                *)
LEMMA DeliverInv == ASSUME TransportInv, Deliver PROVE TransportInv'
<1> USE Parts
<1>0. /\ reading \in Reads /\ reading.stage = "job" /\ reading.frame \in Answers
      /\ stream = "held" /\ pc \in {"receive", "auth", "read"}
      /\ reading' = Idle /\ decryptor' = CipherOf(reading.frame)
      /\ UNCHANGED <<services, shutdown, ticks, stream, encryptor, compression, peer>>
  BY ReadingFacts DEF Deliver, StreamOwned, Reading
<1>1. /\ Control' /\ AtRest'
      /\ \/ phase' \in {phase, "Key", "CheckingKey"}
         \/ ~online
         \/ phase = "AwaitingAcknowledgement"
  <2>1. CASE pc = "receive"
    BY <2>1, LoginControl DEF Deliver
  <2>2. CASE pc = "auth"
    BY <2>2, FarewellControl DEF Deliver, Farewell
  <2>3. CASE pc = "read"
    BY <2>3, ConfigurationControl DEF Deliver
  <2> QED
    BY <1>0, <2>1, <2>2, <2>3
<1>2. reading' \in Reads /\ reading'.stage = "idle" /\ reading'.frame = None
  BY <1>0 DEF Idle, Reads
<1>3. Surroundings' /\ AllWhole'
  BY <1>0, <1>2 DEF Surroundings, AllWhole, services, peer, CipherOf
<1>4. CiphersPaired'
  <2>1. reading.frame.enc \in BOOLEAN
    BY <1>0 DEF Answers
  <2>2. Sealed' = Sealed /\ (decryptor' = "held" <=> reading.frame.enc) /\ online' = online
    BY <1>0, <2>1 DEF Sealed, CipherOf, services
  <2> HIDE DEF Sealed
  <2> QED
    BY <1>0, <1>1, <1>2, <2>2 DEF CiphersPaired
<1> QED
  BY <1>0, <1>1, <1>3, <1>4, AtRestInv

(* The key job: both ciphers, or none.                                     *)
LEMMA KeyCheckedInv == ASSUME TransportInv, NEW ok \in BOOLEAN, KeyChecked(ok) PROVE TransportInv'
<1> USE Parts
<1>0. /\ pc = "key" /\ stream = "held" /\ phase = "CheckingKey"
      /\ UNCHANGED <<services, shutdown, ticks, stream, compression, reading, peer>>
  BY DEF KeyChecked, StreamOwned, Control, PhaseOfTask
<1>1. CASE Farewell(phase) /\ UNCHANGED <<encryptor, decryptor>>
  <2>1. Control' /\ AtRest'
    BY <1>0, <1>1, FarewellControl
  <2>2. Surroundings' /\ AllWhole'
    BY <1>0, <1>1 DEF Surroundings, AllWhole, services, peer
  <2>3. CiphersPaired'
    BY <1>0, <1>1 DEF CiphersPaired, Sealed, services, Farewell
  <2> QED
    BY <1>0, <2>1, <2>2, <2>3, AtRestInv
<1>2. CASE /\ reading = Idle /\ encryptor' = "held" /\ decryptor' = "held"
           /\ pc' = "auth" /\ phase' = "Authenticating" /\ UNCHANGED <<write, configuration>>
  <2>1. Control' /\ AtRest'
    BY <1>0, <1>2 DEF Control, AtRest, TaskTypes, PhaseOfTask, ContentOrder, Accepted, Writing,
                      configuration
  <2>2. Surroundings' /\ AllWhole'
    BY <1>0, <1>2 DEF Surroundings, AllWhole, services, peer
  <2>3. CiphersPaired'
    BY <1>0, <1>2 DEF CiphersPaired, Sealed, services, Idle
  <2> QED
    BY <1>0, <2>1, <2>2, <2>3, AtRestInv
<1> QED
  BY <1>1, <1>2 DEF KeyChecked

(* has_joined answers.                                                     *)
LEMMA AuthenticatedInv ==
  ASSUME TransportInv, NEW ok \in BOOLEAN, Authenticated(ok)
  PROVE  TransportInv'
<1> USE Parts
<1>0. /\ pc = "auth" /\ stream = "held" /\ phase = "Authenticating"
      /\ UNCHANGED link /\ UNCHANGED <<services, shutdown, ticks, peer>>
  BY DEF Authenticated, StreamOwned, Control, PhaseOfTask
<1>1. Control' /\ AtRest'
  BY <1>0, VerifiedControl, FarewellControl DEF Authenticated
<1>2. Surroundings' /\ AllWhole'
  BY <1>0 DEF Surroundings, AllWhole, services, peer, link
<1>3. CiphersPaired'
  BY <1>0 DEF CiphersPaired, Sealed, services, link
<1> QED
  BY <1>0, <1>1, <1>2, <1>3, AtRestInv DEF link

(* The login clock counts, or runs out.                                    *)
LEMMA TickInv == ASSUME TransportInv, Tick PROVE TransportInv'
<1>1. CASE ticks < TickLimit /\ ticks' = ticks + 1 /\ UNCHANGED <<pc, phase, transport, configuration>>
  <2>1. UNCHANGED <<stream, encryptor, decryptor, compression, reading, write, inbox, wire,
                    client, strays, online, compress, shutdown>>
    BY <1>1 DEF Tick, transport, peer, services
  <2>2. ticks' \in 0..TickLimit
    BY <1>1, Parts, Limits DEF Surroundings
  <2>3. Surroundings'
    BY <2>1, <2>2, Parts DEF Surroundings
  <2>4. CiphersPaired'
    BY <1>1, <2>1, Parts DEF CiphersPaired, Sealed
  <2> QED
    BY <1>1, <2>1, <2>3, <2>4, AroundInv
<1>2. CASE ticks = TickLimit /\ Interrupt("Closed") /\ UNCHANGED ticks
  <2>1. ~Accepted /\ pc \notin {"farewell", "closed"} /\ UNCHANGED <<services, shutdown, ticks, peer>>
    BY <1>2 DEF Tick, Clocked
  <2> QED
    BY <1>2, <2>1, InterruptInv
<1> QED
  BY <1>1, <1>2 DEF Tick

(* The shutdown is seen.                                                   *)
LEMMA StopInv == ASSUME TransportInv, Stop PROVE TransportInv'
<1>1. CASE Accepted
  BY <1>1, EndsInv DEF Stop
<1>2. CASE ~Accepted
  BY <1>2, InterruptInv DEF Stop
<1> QED
  BY <1>1, <1>2

(* The configuration loop turns.                                           *)
LEMMA LoopInv == ASSUME TransportInv, Loop PROVE TransportInv'
<1>1. Control' /\ AtRest' /\ phase' = phase
  BY Parts, LoopControl
<1>2. UNCHANGED <<services, shutdown, ticks, link, peer>> /\ stream = "held"
  BY Parts DEF Loop, StreamOwned
<1>3. Surroundings' /\ AllWhole'
  BY <1>2, Parts DEF Surroundings, AllWhole, services, peer, link
<1>4. CiphersPaired'
  BY <1>1, <1>2, Parts DEF CiphersPaired, Sealed, services, link
<1> QED
  BY <1>1, <1>2, <1>3, <1>4, AtRestInv DEF link

(* A keepalive is due: the loop turns, the read stays.                     *)
LEMMA KeepAliveDueInv == ASSUME TransportInv, KeepAliveDue PROVE TransportInv'
<1>0. /\ pc = "read" /\ pc' = "loop" /\ stream = "held" /\ Accepted
      /\ UNCHANGED <<services, shutdown, login, transport, configuration, peer>>
  BY Parts DEF KeepAliveDue, StreamOwned, Control, PhaseOfTask
<1>1. Control' /\ AtRest'
  BY <1>0, Parts DEF Control, AtRest, TaskTypes, PhaseOfTask, ContentOrder, Accepted, Writing,
                     configuration, transport, login
<1>2. Surroundings' /\ AllWhole'
  BY <1>0, Parts DEF Surroundings, AllWhole, services, peer, transport, login
<1>3. CiphersPaired'
  BY <1>0, Parts DEF CiphersPaired, Sealed, services, transport, login
<1> QED
  BY <1>0, <1>1, <1>2, <1>3, AtRestInv DEF transport

(* Time passes.                                                            *)
LEMMA AdvanceInv == ASSUME TransportInv, Advance PROVE TransportInv'
<1> USE Parts
<1>0. /\ elapsed' \in {elapsed, elapsed + 1} /\ (elapsed' = elapsed + 1 => elapsed < Interval)
      /\ age' \in {age, age + 1} /\ (age' = age + 1 => age < Interval)
      /\ UNCHANGED <<services, shutdown, pc, login, transport, stage, cursor, queued, pending, peer>>
  <2>1. elapsed \in Nat /\ age \in Nat /\ Interval \in Nat
    BY Limits DEF Control, TaskTypes
  <2> QED
    BY <2>1 DEF Advance
<1>1. elapsed' \in 0..Interval /\ age' \in 0..Interval
  BY <1>0, Limits DEF Control, TaskTypes
<1>2. Control'
  <2>1. UNCHANGED <<pc, phase, write, stage, cursor, queued, pending>>
    BY <1>0 DEF login, transport
  <2>2. TaskTypes'
    BY <1>1, <2>1 DEF Control, TaskTypes, Writing
  <2> QED
    BY <2>1, <2>2 DEF Control, PhaseOfTask, ContentOrder, Accepted, Writing
<1>3. Surroundings'
  BY <1>0 DEF Surroundings, services, peer, transport, login
<1>4. CiphersPaired'
  BY <1>0 DEF CiphersPaired, Sealed, services, transport, login
<1>5. Shapes'
  BY <1>2, <1>3, ShapesNext DEF Control
<1>6. StreamOwned' /\ TornTracked'
  BY <1>0 DEF StreamOwned, TornTracked, TornIsLast, Writing, transport, peer
<1> QED
  BY <1>2, <1>4, <1>5, <1>6 DEF TransportInv, Control

(* The client after frame f.                                               *)
After(c, f) ==
  [c EXCEPT !.garbled = @ \/ ~Readable(f),
            !.comp = @ \/ f.kind = "SetCompression",
            !.owes = @ \cup Asks(f),
            !.next = IF f.kind = "Content" THEN @ + 1 ELSE @]

(* It has switched, owes what it is asked for, and waits for the next      *)
(* piece.                                                                  *)
LEMMA Received ==
  ASSUME NEW c \in Clients, NEW f \in Frames
  PROVE  /\ After(c, f) \in Clients
         /\ After(c, f).protocol = c.protocol /\ After(c, f).enc = c.enc
         /\ After(c, f).comp = (c.comp \/ f.kind = "SetCompression")
         /\ After(c, f).owes = c.owes \cup Asks(f)
         /\ After(c, f).next = IF f.kind = "Content" THEN c.next + 1 ELSE c.next
         /\ After(c, f).garbled = (c.garbled \/ ~Readable(f))
<1> DEFINE garbled == c.garbled \/ ~Readable(f)
           comp == c.comp \/ f.kind = "SetCompression"
           owes == c.owes \cup Asks(f)
           next == IF f.kind = "Content" THEN c.next + 1 ELSE c.next
           r == [c EXCEPT !.garbled = garbled, !.comp = comp, !.owes = owes, !.next = next]
<1>2. After(c, f) = r
  BY DEF After
<1>3. Asks(f) \in SUBSET ReplyKinds
  BY DEF Asks, ReplyKinds
<1>4. owes \in SUBSET ReplyKinds
  BY <1>3 DEF Clients
<1>5. garbled \in BOOLEAN /\ comp \in BOOLEAN /\ next \in Nat
  BY DEF Clients
<1>6. c.protocol \in {"login", "configuration"} /\ c.enc \in BOOLEAN
  BY DEF Clients
<1> HIDE DEF garbled, comp, owes, next
<1>7. r \in Clients
  BY <1>4, <1>5, <1>6 DEF Clients
<1>8. /\ r.protocol = c.protocol /\ r.enc = c.enc /\ r.comp = comp /\ r.owes = owes
      /\ r.next = next /\ r.garbled = garbled
  BY DEF Clients
<1> HIDE DEF r
<1> QED
  BY <1>2, <1>7, <1>8 DEF garbled, comp, owes, next

(* The client takes a whole frame, so never the one being written.         *)
LEMMA ClientReceiveInv == ASSUME TransportInv, ClientReceive PROVE TransportInv'
<1> USE Parts
<1>0. /\ wire \in Seq(Frames) /\ wire # <<>> /\ Head(wire).whole /\ wire' = Tail(wire)
      /\ UNCHANGED <<services, shutdown, pc, login, transport, configuration, inbox, strays>>
  BY DEF ClientReceive, Surroundings
<1>1. /\ Len(wire) \in Nat \ {0} /\ Head(wire) = wire[1] /\ wire[1] \in Frames
      /\ wire' \in Seq(Frames) /\ Len(wire') = Len(wire) - 1
      /\ DOMAIN wire = 1..Len(wire) /\ DOMAIN wire' = 1..(Len(wire) - 1)
      /\ \A i \in 1..(Len(wire) - 1) : wire'[i] = wire[i + 1]
  BY <1>0
<1>2. client' \in Clients
  <2>1. client \in Clients
    BY DEF Surroundings
  <2>2. client' = After(client, wire[1])
    BY <1>1 DEF ClientReceive, After
  <2> QED
    BY <1>1, <2>1, <2>2, Received
<1>3. Surroundings'
  BY <1>0, <1>1, <1>2 DEF Surroundings, services, login, transport
<1>4. Control'
  BY <1>0, SameControl DEF login, transport
<1>5. Shapes'
  BY <1>3, <1>4, ShapesNext DEF Control
<1>6. StreamOwned' /\ CiphersPaired'
  BY <1>0 DEF StreamOwned, CiphersPaired, Sealed, Writing, services, login, transport
<1>7. TornTracked'
  <2>1. \A i \in DOMAIN wire' : ~wire'[i].whole =>
          i = Len(wire') /\ (stream' = "none" \/ (stream' = "writing" /\ write'.stage = "socket"))
    BY <1>0, <1>1 DEF TornTracked, TornIsLast, transport
  <2>2. ASSUME Writing, write.stage = "socket"
        PROVE  wire' # <<>> /\ wire'[Len(wire')] = write.frame
    <3>1. wire[Len(wire)] = write.frame /\ ~write.frame.whole
      BY <2>2 DEF TornTracked
    <3>2. Len(wire) # 1
      BY <1>0, <1>1, <3>1
    <3>3. Len(wire') \in 1..(Len(wire) - 1) /\ Len(wire') + 1 = Len(wire)
      BY <1>1, <3>2
    <3>4. wire'[Len(wire')] = wire[Len(wire)]
      BY <1>1, <3>3
    <3> QED
      BY <1>1, <3>1, <3>3, <3>4
  <2> QED
    BY <1>0, <2>1, <2>2 DEF TornTracked, TornIsLast, Writing, transport
<1> QED
  BY <1>4, <1>5, <1>6, <1>7 DEF TransportInv, Control

(* The client answers or says something else.                              *)
LEMMA ClientSendInv ==
  ASSUME TransportInv, NEW kind \in ReplyKinds \cup {"Unexpected", "Information"},
         (ClientReply(kind) /\ kind \in ReplyKinds) \/ ClientStray(kind)
  PROVE  TransportInv'
<1> USE Parts
<1>0. client \in Clients /\ inbox \in Seq(Answers) /\ strays \in Nat
  BY DEF Surroundings
<1>1. [kind |-> kind, enc |-> client.enc, comp |-> client.comp] \in Answers
  BY <1>0 DEF Clients, Answers
<1>2. inbox' \in Seq(Answers)
  BY <1>0, <1>1, Appended DEF ClientReply, ClientStray, Send
<1>3. client' \in Clients
  BY <1>0 DEF ClientReply, ClientStray, Clients
<1>4. strays' \in Nat
  BY <1>0 DEF ClientReply, ClientStray
<1>5. UNCHANGED <<services, shutdown, pc, login, transport, configuration, wire>>
  BY DEF ClientReply, ClientStray
<1>6. Surroundings'
  BY <1>2, <1>3, <1>4, <1>5 DEF Surroundings, services, login, transport
<1>7. CiphersPaired'
  BY <1>5 DEF CiphersPaired, Sealed, services, login, transport
<1> QED
  BY <1>5, <1>6, <1>7, AroundInv DEF login, transport

(* A step of somebody else, or the shutdown signal.                        *)
LEMMA ApartInv ==
  ASSUME TransportInv, Shutdown \/ UNCHANGED vars
  PROVE  TransportInv'
<1> USE Parts
<1>1. /\ UNCHANGED <<services, pc, login, transport, configuration, peer>>
      /\ shutdown' \in BOOLEAN
  BY DEF Shutdown, vars, Surroundings
<1>2. Surroundings' /\ CiphersPaired'
  BY <1>1 DEF Surroundings, CiphersPaired, Sealed, services, login, transport, peer
<1> QED
  BY <1>1, <1>2, AroundInv DEF login, transport, peer

-----------------------------------------------------------------------------
(* A connection that has been accepted.                                    *)
LEMMA TransportStart == Init => TransportInv
<1> SUFFICES ASSUME Init PROVE TransportInv
  OBVIOUS
<1>1. reading \in Reads /\ reading.stage = "idle" /\ reading.frame = None
  BY DEF Init, Idle, Reads
<1>2. client \in Clients /\ inbox \in Seq(Answers) /\ wire \in Seq(Frames)
  BY DEF Init, Clients, ReplyKinds
<1>3. Surroundings
  <2>1. ticks \in 0..TickLimit /\ strays \in Nat
    BY Limits DEF Init
  <2>2. online \in BOOLEAN /\ compress \in BOOLEAN /\ shutdown \in BOOLEAN /\ compression \in BOOLEAN
    BY DEF Init
  <2>3. stream = "held" /\ encryptor = "none" /\ decryptor = "none"
    BY DEF Init
  <2> QED
    BY <1>1, <1>2, <2>1, <2>2, <2>3 DEF Surroundings
<1>4. TaskTypes /\ write \in Writes \cup {None}
  <2>1. cursor \in 0..(Tags + 1) /\ elapsed \in 0..Interval /\ age \in 0..Interval
    BY Limits DEF Init
  <2>2. (write # None) = Writing
    BY DEF Init, Writing
  <2> QED
    BY <2>1, <2>2 DEF Init, TaskTypes
<1>5. StreamOwned /\ PhaseOfTask /\ ContentOrder
  BY DEF Init, StreamOwned, PhaseOfTask, ContentOrder, Writing, Accepted
<1>6. CiphersPaired /\ TornTracked
  BY <1>1 DEF Init, CiphersPaired, Sealed, TornTracked, TornIsLast, Writing
<1> QED
  BY <1>3, <1>4, <1>5, <1>6, ShapesParts DEF TransportInv

(* Every step keeps the invariant, whatever await it strikes.              *)
LEMMA TransportKept == TransportInv /\ [Next]_vars => TransportInv'
<1> SUFFICES ASSUME TransportInv, [Next]_vars PROVE TransportInv'
  OBVIOUS
<1>1. CASE WriteStep
  <2>1. WriteFails => TransportInv'
    BY EndsInv DEF WriteFails
  <2> QED
    BY <1>1, <2>1, StartWriteInv, EncodedInv, WrittenInv DEF WriteStep
<1>2. CASE ReadStep \/ ReadFails
  <2>1. ReadFails => TransportInv'
    BY EndsInv DEF ReadFails
  <2> QED
    BY <1>2, <2>1, ReadByteInv, ReadHeaderInv, ReadBodyInv, DeliverInv DEF ReadStep
<1>3. ASSUME NEW ok \in BOOLEAN, KeyChecked(ok) \/ Authenticated(ok) PROVE TransportInv'
  BY <1>3, KeyCheckedInv, AuthenticatedInv
<1>4. CASE Tick \/ Stop \/ Abort
  <2>1. Abort => TransportInv'
    BY EndsInv DEF Abort
  <2> QED
    BY <1>4, <2>1, TickInv, StopInv
<1>5. CASE Loop \/ KeepAliveDue \/ Advance
  BY <1>5, LoopInv, KeepAliveDueInv, AdvanceInv
<1>6. CASE ClientReceive
  BY <1>6, ClientReceiveInv
<1>7. ASSUME NEW kind \in ReplyKinds, ClientReply(kind) PROVE TransportInv'
  <2>1. kind \in ReplyKinds \cup {"Unexpected", "Information"}
    BY <1>7
  <2> QED
    BY <1>7, <2>1, ClientSendInv
<1>8. ASSUME NEW kind \in {"Unexpected", "Information"}, ClientStray(kind) PROVE TransportInv'
  BY <1>8, ClientSendInv
<1>9. CASE Shutdown \/ UNCHANGED vars
  BY <1>9, ApartInv
<1> QED
  BY <1>1, <1>2, <1>3, <1>4, <1>5, <1>6, <1>7, <1>8, <1>9 DEF Next

(* Task, transport, ciphers and wire of a connection agree at every await. *)
THEOREM TransportInvariant == Spec => []TransportInv
BY TransportStart, TransportKept, PTL DEF Spec

(* No byte follows half a frame, and no interrupted read or write costs an *)
(* open transport its cipher.                                              *)
THEOREM WritesSafety == Spec => []WritesSound
<1>1. TransportInv => WritesSound
  BY DEF TransportInv, WritesSound, TornTracked, CiphersKept, Shapes, CiphersPaired, Sealed
<1> QED
  BY <1>1, TransportInvariant, PTL
-----------------------------------------------------------------------------
(* Counting the tokens of AnswersConserved.                                *)

(* The places of a sequence that hold a member of G.                       *)
Places(q, G) == {i \in DOMAIN q : q[i] \in G}

(* There are finitely many.                                                *)
LEMMA PlacesFinite ==
  ASSUME NEW S, NEW q \in Seq(S), NEW G
  PROVE  IsFiniteSet(Places(q, G)) /\ Cardinality(Places(q, G)) \in Nat
<1>1. Len(q) \in Nat /\ DOMAIN q = 1..Len(q) /\ 1 \in Int /\ Len(q) \in Int
  OBVIOUS
<1>2. IsFiniteSet(1..Len(q))
  BY <1>1, FS_Interval
<1>3. Places(q, G) \in SUBSET (1..Len(q))
  BY <1>1 DEF Places
<1>4. IsFiniteSet(Places(q, G))
  BY <1>2, <1>3, FS_Subset
<1> QED
  BY <1>4, FS_CardinalityType

(* One more after an element is appended that is in G.                     *)
LEMMA PlacesAppend ==
  ASSUME NEW S, NEW q \in Seq(S), NEW e \in S, NEW G
  PROVE  Cardinality(Places(Append(q, e), G)) =
           Cardinality(Places(q, G)) + (IF e \in G THEN 1 ELSE 0)
<1> DEFINE r == Append(q, e)
           n == Len(q) + 1
<1>1. /\ DOMAIN r = 1..n /\ DOMAIN q = 1..Len(q) /\ r[n] = e
      /\ \A i \in DOMAIN q : r[i] = q[i]
  BY Appended
<1>2. Len(q) \in Nat
  OBVIOUS
<1>3. \A i : i \in 1..n <=> i \in 1..Len(q) \/ i = n
  BY <1>2
<1>4. n \notin DOMAIN q
  BY <1>1, <1>2
<1> HIDE DEF r, n
<1>5. CASE e \in G
  <2>1. Places(r, G) = Places(q, G) \cup {n} /\ n \notin Places(q, G)
    BY <1>1, <1>3, <1>4, <1>5 DEF Places
  <2> QED
    BY <1>5, <2>1, PlacesFinite, FS_AddElement DEF r
<1>6. CASE e \notin G
  <2>1. Places(r, G) = Places(q, G)
    BY <1>1, <1>3, <1>4, <1>6 DEF Places
  <2> QED
    BY <1>6, <2>1, PlacesFinite DEF r
<1> QED
  BY <1>5, <1>6

(* One less after the head is taken that is in G.                          *)
LEMMA PlacesTail ==
  ASSUME NEW S, NEW q \in Seq(S), q # <<>>, NEW G
  PROVE  Cardinality(Places(q, G)) =
           Cardinality(Places(Tail(q), G)) + (IF Head(q) \in G THEN 1 ELSE 0)
<1> DEFINE r == Tail(q)
           A == Places(r, G)
           B == Places(q, G) \ {1}
           f == [i \in A |-> i + 1]
<1>1. /\ Len(q) \in Nat \ {0} /\ DOMAIN q = 1..Len(q) /\ DOMAIN r = 1..(Len(q) - 1)
      /\ r \in Seq(S) /\ Head(q) = q[1]
      /\ \A i \in 1..(Len(q) - 1) : r[i] = q[i + 1]
  OBVIOUS
<1> HIDE DEF r
<1>2. \A i \in A : i \in Nat /\ i + 1 \in B
  BY <1>1 DEF Places
<1>3. \A j \in B : j - 1 \in A /\ (j - 1) + 1 = j
  <2> SUFFICES ASSUME NEW j \in B PROVE j - 1 \in A /\ (j - 1) + 1 = j
    OBVIOUS
  <2>1. j \in 1..Len(q) /\ j # 1 /\ q[j] \in G
    BY <1>1 DEF Places
  <2>2. j - 1 \in 1..(Len(q) - 1) /\ (j - 1) + 1 = j
    BY <1>1, <2>1
  <2>3. r[j - 1] = q[j]
    BY <1>1, <2>2
  <2> QED
    BY <1>1, <2>1, <2>2, <2>3 DEF Places
<1> HIDE DEF A, B
<1>4. f \in [A -> B] /\ \A i \in A : f[i] = i + 1
  BY <1>2
<1>5. f \in Injection(A, B)
  BY <1>2, <1>4 DEF Injection, IsInjective
<1>6. f \in Surjection(A, B)
  <2>1. \A j \in B : \E i \in A : f[i] = j
    BY <1>3, <1>4
  <2> QED
    BY <1>4, <2>1 DEF Surjection
<1> HIDE DEF f
<1>7. ExistsBijection(A, B)
  BY <1>5, <1>6 DEF ExistsBijection, Bijection
<1>8. IsFiniteSet(A) /\ Cardinality(A) \in Nat
  BY <1>1, PlacesFinite DEF A
<1>9. IsFiniteSet(B) /\ Cardinality(B) = Cardinality(A)
  BY <1>7, <1>8, FS_Bijection
<1>10. IsFiniteSet(Places(q, G)) /\ Cardinality(Places(q, G)) \in Nat
  BY PlacesFinite
<1>11. Cardinality(B) = IF 1 \in Places(q, G) THEN Cardinality(Places(q, G)) - 1
                        ELSE Cardinality(Places(q, G))
  BY <1>10, FS_RemoveElement DEF B
<1>12. 1 \in Places(q, G) <=> Head(q) \in G
  BY <1>1 DEF Places
<1> QED
  BY <1>8, <1>9, <1>10, <1>11, <1>12 DEF A, r

(* The last element is replaced, which was not in G.                       *)
LEMMA PlacesReplace ==
  ASSUME NEW S, NEW q \in Seq(S), NEW r \in Seq(S), NEW G, Len(q) \in Nat \ {0},
         Len(r) = Len(q), q[Len(q)] \notin G, \A i \in 1..(Len(q) - 1) : r[i] = q[i]
  PROVE  Cardinality(Places(r, G)) =
           Cardinality(Places(q, G)) + (IF r[Len(q)] \in G THEN 1 ELSE 0)
<1>1. DOMAIN q = 1..Len(q) /\ DOMAIN r = 1..Len(q)
  OBVIOUS
<1> DEFINE n == Len(q)
<1>2. \A i \in 1..n : i # n => r[i] = q[i]
  BY BeforeLast
<1>3. n \in 1..n
  OBVIOUS
<1> HIDE DEF n
<1>4. n \notin Places(q, G)
  BY DEF Places, n
<1>5. CASE r[n] \in G
  <2>1. Places(r, G) = Places(q, G) \cup {n}
    BY <1>1, <1>2, <1>3, <1>5 DEF Places, n
  <2> QED
    BY <1>4, <1>5, <2>1, PlacesFinite, FS_AddElement DEF n
<1>6. CASE r[n] \notin G
  <2>1. Places(r, G) = Places(q, G)
    BY <1>1, <1>2, <1>3, <1>4, <1>6 DEF Places, n
  <2> QED
    BY <1>6, <2>1, PlacesFinite DEF n
<1> QED
  BY <1>5, <1>6 DEF n

(* The frames that ask for an answer, and the answers of a kind.           *)
Asking(kind) == {f \in Frames : f.whole /\ kind \in Asks(f)}
Giving(kind) == {a \in Answers : a.kind = kind}

(* The four places of an answer of the kind.                               *)
TokensOf(w, owes, b, r, kind) ==
  Cardinality(Places(w, Asking(kind))) + (IF kind \in owes THEN 1 ELSE 0)
    + Cardinality(Places(b, Giving(kind)))
    + (IF r.stage # "idle" /\ r.frame.kind = kind THEN 1 ELSE 0)

(* What is owed counts one.                                                *)
LEMMA OwedCount ==
  ASSUME NEW k, NEW O
  PROVE  Cardinality(O \cap {k}) = IF k \in O THEN 1 ELSE 0
<1>1. CASE k \in O
  <2>1. O \cap {k} = {k}
    BY <1>1
  <2> QED
    BY <1>1, <2>1, FS_Singleton
<1>2. CASE k \notin O
  <2>1. O \cap {k} = {}
    BY <1>2
  <2> QED
    BY <1>2, <2>1, FS_EmptySet
<1> QED
  BY <1>1, <1>2

(* Tokens counts them.                                                     *)
LEMMA TokensCounted ==
  ASSUME wire \in Seq(Frames), inbox \in Seq(Answers), NEW k
  PROVE  Tokens(k) = TokensOf(wire, client.owes, inbox, reading, k)
<1>1. Asked(k) = Places(wire, Asking(k))
  BY DEF Asked, Places, Asking
<1>2. Sent(k) = Places(inbox, Giving(k))
  BY DEF Sent, Places, Giving
<1>3. Cardinality(client.owes \cap {k}) = IF k \in client.owes THEN 1 ELSE 0
  BY OwedCount
<1> QED
  BY <1>1, <1>2, <1>3 DEF Tokens, TokensOf

(* The same after a step.                                                  *)
LEMMA TokensCountedNext ==
  ASSUME wire' \in Seq(Frames), inbox' \in Seq(Answers), NEW k
  PROVE  Tokens(k)' = TokensOf(wire', client'.owes, inbox', reading', k)
<1>1. Asked(k)' = Places(wire', Asking(k))
  BY DEF Asked, Places, Asking
<1>2. Sent(k)' = Places(inbox', Giving(k))
  BY DEF Sent, Places, Giving
<1>3. Cardinality(client'.owes \cap {k}) = IF k \in client'.owes THEN 1 ELSE 0
  BY OwedCount
<1> QED
  BY <1>1, <1>2, <1>3 DEF Tokens, TokensOf

(* All counts are numbers.                                                 *)
LEMMA TokensNat ==
  ASSUME NEW w \in Seq(Frames), NEW b \in Seq(Answers), NEW owes, NEW r, NEW k
  PROVE  TokensOf(w, owes, b, r, k) \in Nat
<1>1. Cardinality(Places(w, Asking(k))) \in Nat /\ Cardinality(Places(b, Giving(k))) \in Nat
  BY PlacesFinite
<1> QED
  BY <1>1 DEF TokensOf

(* Nothing leaves a farewell or comes back from the end.                   *)
LEMMA GoingBack ==
  ASSUME TransportInv, Next, Going'
  PROVE  Going
<1> USE DEF Going
<1>1. CASE WriteStep
  BY <1>1 DEF WriteStep, StartWrite, Encoded, Written, WriteFails, Shut, Writing
<1>2. CASE ReadStep \/ ReadFails
  BY <1>2 DEF ReadStep, ReadByte, ReadHeader, ReadBody, Deliver, ReadFails, Reading
<1>3. ASSUME NEW ok \in BOOLEAN, KeyChecked(ok) \/ Authenticated(ok) PROVE Going
  BY <1>3 DEF KeyChecked, Authenticated
<1>4. CASE Tick \/ Stop \/ Abort
  BY <1>4 DEF Tick, Clocked, Stop, Abort, Shut
<1>5. CASE Loop \/ KeepAliveDue \/ Advance \/ Shutdown
  BY <1>5 DEF Loop, KeepAliveDue, Advance, Shutdown
<1>6. CASE ClientReceive
  BY <1>6 DEF ClientReceive
<1>7. ASSUME NEW kind \in ReplyKinds, ClientReply(kind) PROVE Going
  BY <1>7 DEF ClientReply
<1>8. ASSUME NEW kind \in {"Unexpected", "Information"}, ClientStray(kind) PROVE Going
  BY <1>8 DEF ClientStray
<1> QED
  BY <1>1, <1>2, <1>3, <1>4, <1>5, <1>6, <1>7, <1>8 DEF Next

(* The answers are where they were, and the same ones are waited for.      *)
LEMMA SameAnswers ==
  ASSUME AnswersConserved, Going,
         \A k \in ReplyKinds : Tokens(k)' = Tokens(k) /\ (Awaits(k)' <=> Awaits(k))
  PROVE  AnswersConserved'
BY DEF AnswersConserved, Going

(* Tokens do not move where wire, debts, socket and read stay.             *)
LEMMA SameTokens ==
  ASSUME UNCHANGED <<wire, client, inbox>>,
         (reading'.stage # "idle") = (reading.stage # "idle"),
         reading'.stage # "idle" => reading'.frame = reading.frame,
         NEW k
  PROVE  Tokens(k)' = Tokens(k)
BY DEF Tokens, Asked, Sent

(* Steps of the task that move no answer.                                  *)
LEMMA TaskAnswers ==
  ASSUME TransportInv, AnswersConserved, Going, Going',
         \/ StartWrite \/ ReadHeader \/ ReadBody \/ Tick \/ Stop \/ Abort \/ WriteFails
         \/ ReadFails \/ Loop \/ KeepAliveDue \/ Advance \/ Shutdown
         \/ \E ok \in BOOLEAN : KeyChecked(ok) \/ Authenticated(ok)
  PROVE  AnswersConserved'
<1>0. /\ UNCHANGED <<wire, client, inbox>>
      /\ (reading'.stage # "idle") = (reading.stage # "idle")
      /\ reading'.stage # "idle" => reading'.frame = reading.frame
  <2>1. CASE StartWrite \/ Tick \/ Loop \/ KeepAliveDue \/ Advance \/ Shutdown
    <3>1. UNCHANGED <<wire, client, inbox>>
      BY <2>1 DEF StartWrite, Tick, Loop, KeepAliveDue, Advance, Shutdown, peer
    <3>2. CASE StartWrite \/ Loop \/ KeepAliveDue \/ Advance \/ Shutdown
      BY <3>1, <3>2 DEF StartWrite, Loop, KeepAliveDue, Advance, Shutdown, link, transport
    <3>3. CASE Tick
      BY <3>1, <3>3 DEF Tick, Interrupt, Shut, link, transport, Going
    <3> QED
      BY <2>1, <3>2, <3>3
  <2>2. CASE ReadHeader \/ ReadBody
    <3>1. reading \in Reads
      BY ReadingFacts
    <3> QED
      BY <2>2, <3>1 DEF ReadHeader, ReadBody, peer, Reads
  <2>3. CASE Stop \/ Abort \/ WriteFails \/ ReadFails
    BY <2>3 DEF Stop, Abort, WriteFails, ReadFails, Interrupt, Shut, Farewell, Going
  <2>4. ASSUME NEW ok \in BOOLEAN, KeyChecked(ok) \/ Authenticated(ok) 
        PROVE  UNCHANGED <<wire, client, inbox, reading>>
    BY <2>4 DEF KeyChecked, Authenticated, link, peer
  <2> QED
    BY <2>1, <2>2, <2>3, <2>4
<1>1. \A k \in ReplyKinds : Awaits(k)' <=> Awaits(k)
  <2>1. CASE StartWrite \/ ReadHeader \/ ReadBody \/ Advance \/ Shutdown
    BY <2>1 DEF StartWrite, ReadHeader, ReadBody, Advance, Shutdown, Awaits, ReplyKinds, login,
                configuration
  <2>2. CASE Tick
    <3>1. UNCHANGED <<pc, phase, configuration>>
      BY <2>2 DEF Tick, Interrupt, Shut, Farewell, Going
    <3> QED
      BY <3>1 DEF Awaits, ReplyKinds, configuration
  <2>3. CASE Stop \/ Abort \/ WriteFails \/ ReadFails
    BY <2>3 DEF Stop, Abort, WriteFails, ReadFails, Interrupt, Shut, Farewell, Going
  <2>4. CASE Loop \/ KeepAliveDue
    <3>1. phase = "Accepted" /\ UNCHANGED <<phase, stage, pending>>
      BY <2>4, Parts DEF Loop, KeepAliveDue, Farewell, Going, login, configuration, Control,
                         PhaseOfTask, Accepted
    <3> QED
      BY <3>1 DEF Awaits, ReplyKinds
  <2>5. ASSUME NEW ok \in BOOLEAN, KeyChecked(ok) \/ Authenticated(ok) 
        PROVE  /\ phase \notin {"Hello", "Key", "AwaitingAcknowledgement"}
               /\ phase' \notin {"Hello", "Key", "AwaitingAcknowledgement"}
               /\ UNCHANGED configuration
    BY <2>5, Parts DEF KeyChecked, Authenticated, Verified, Publish, Farewell, Going, Control, PhaseOfTask
  <2>6. ASSUME NEW ok \in BOOLEAN, KeyChecked(ok) \/ Authenticated(ok) 
        PROVE  \A k \in ReplyKinds : Awaits(k)' <=> Awaits(k)
    BY <2>5, <2>6 DEF Awaits, ReplyKinds, configuration
  <2> QED
    BY <2>1, <2>2, <2>3, <2>4, <2>6
<1> QED
  BY <1>0, <1>1, SameTokens, SameAnswers

(* The first bytes of a frame ask for nothing.                             *)
LEMMA EncodedAnswers ==
  ASSUME TransportInv, AnswersConserved, Going, Encoded
  PROVE  AnswersConserved'
<1>1. /\ wire \in Seq(Frames) /\ inbox \in Seq(Answers) /\ write.frame \in Frames
      /\ ~write.frame.whole /\ wire' = Append(wire, write.frame)
      /\ UNCHANGED <<pc, phase, reading, inbox, client, stage, pending>>
  BY Parts, WriteFacts DEF Encoded, Surroundings, link, login, configuration
<1>2. wire' \in Seq(Frames)
  BY <1>1, Appended
<1>3. ASSUME NEW k \in ReplyKinds PROVE Tokens(k)' = Tokens(k)
  <2>1. write.frame \notin Asking(k)
    BY <1>1 DEF Asking
  <2>2. Cardinality(Places(wire', Asking(k))) = Cardinality(Places(wire, Asking(k)))
    BY <1>1, <2>1, PlacesAppend, PlacesFinite
  <2> QED
    BY <1>1, <1>2, <2>2, TokensCounted, TokensCountedNext DEF TokensOf
<1>4. \A k \in ReplyKinds : Awaits(k)' <=> Awaits(k)
  BY <1>1 DEF Awaits, ReplyKinds
<1> QED
  BY <1>3, <1>4, SameAnswers

(* A written packet is waited for from now on, if it asks for anything,    *)
(* and was not before.                                                     *)
LEMMA WrittenAwaits ==
  ASSUME Control, pc = "write", AfterWrite(write.frame.kind), Going', NEW k \in ReplyKinds
  PROVE  /\ k \in Asks(write.frame) => ~Awaits(k)
         /\ Awaits(k)' <=> Awaits(k) \/ k \in Asks(write.frame)
<1>0. \/ write.frame.kind = "Challenge" /\ phase = "Key"
      \/ write.frame.kind = "SetCompression" /\ phase = "Verifying"
      \/ write.frame.kind = "Finished" /\ phase = "WritingFinished"
      \/ write.frame.kind \in {"Content", "KeepAlive"} /\ phase = "Accepted"
  BY DEF Control, PhaseOfTask, Accepted
<1>1. CASE write.frame.kind = "Challenge" /\ phase = "Key"
  <2>1. pc' = "receive" /\ phase' = phase /\ UNCHANGED configuration /\ Asks(write.frame) = {"Key"}
    BY <1>1 DEF AfterWrite, Asks
  <2> QED
    BY <1>1, <2>1 DEF Awaits, ReplyKinds, configuration
<1>2. CASE write.frame.kind = "SetCompression" /\ phase = "Verifying"
  <2>1. phase' = "WritingFinished" /\ UNCHANGED configuration /\ Asks(write.frame) = {}
    BY <1>2 DEF AfterWrite, Publish, Farewell, Going, Asks
  <2> QED
    BY <1>2, <2>1 DEF Awaits, ReplyKinds, configuration
<1>3. CASE write.frame.kind = "Finished" /\ phase = "WritingFinished"
  <2>1. /\ phase' = "AwaitingAcknowledgement" /\ UNCHANGED configuration
        /\ Asks(write.frame) = {"Ack"}
    BY <1>3 DEF AfterWrite, Asks
  <2> QED
    BY <1>3, <2>1 DEF Awaits, ReplyKinds, configuration
<1>4. CASE write.frame.kind = "KeepAlive" /\ phase = "Accepted"
  <2>1. phase' = phase /\ outbound_written("KeepAlive") /\ Asks(write.frame) = {"KeepAlive"}
    BY <1>4 DEF AfterWrite, Asks
  <2>2. pending' = TRUE /\ stage' = stage /\ ~pending
    BY <1>4, <2>1 DEF outbound_written, Control, ContentOrder
  <2> QED
    BY <1>4, <2>1, <2>2 DEF Awaits, ReplyKinds
<1>5. CASE write.frame.kind = "Content" /\ phase = "Accepted"
  <2>1. phase' = phase /\ outbound_written("Content")
    BY <1>5 DEF AfterWrite
  <2>2. /\ pending' = pending /\ cursor' = cursor + 1
        /\ stage' = CASE cursor' = 3 -> "AwaitingKnownPacks"
                      [] cursor' = Tags -> "SendingTags"
                      [] cursor' = Tags + 1 -> "AwaitingSpawn"
                      [] OTHER -> stage
    BY <2>1 DEF outbound_written
  <2>3. /\ write.frame.n = cursor /\ stage # "AwaitingKnownPacks" /\ cursor \in Nat
        /\ Tags \in Nat /\ Tags >= 4
    BY <1>5, Limits DEF Control, ContentOrder, TaskTypes
  <2>4. Asks(write.frame) = IF cursor = 2 THEN {"KnownPacks"} ELSE {}
    BY <1>5, <2>3 DEF Asks
  <2>5. stage' = "AwaitingKnownPacks" <=> cursor = 2
    BY <2>2, <2>3
  <2> QED
    BY <1>5, <2>1, <2>2, <2>3, <2>4, <2>5 DEF Awaits, ReplyKinds
<1> QED
  BY <1>0, <1>1, <1>2, <1>3, <1>4, <1>5

(* The last byte is out: the client is asked, and the server waits.        *)
LEMMA WrittenAnswers ==
  ASSUME TransportInv, AnswersConserved, Going, Going', Written
  PROVE  AnswersConserved'
<1>0. /\ Writing /\ write.stage = "socket" /\ pc = "write" /\ wire' = LastDone(wire)
      /\ UNCHANGED <<inbox, client, reading>> /\ AfterWrite(write.frame.kind)
  BY DEF Written, LastDone, Going
<1>1. wire \in Seq(Frames) /\ inbox \in Seq(Answers) /\ Control
  BY Parts DEF Surroundings
<1>2. /\ wire' \in Seq(Frames) /\ Len(wire') = Len(wire) /\ Len(wire) \in Nat \ {0}
      /\ wire[Len(wire)] = write.frame
      /\ wire'[Len(wire)] = [write.frame EXCEPT !.whole = TRUE]
      /\ \A i \in 1..(Len(wire) - 1) : wire'[i] = wire[i]
  BY <1>0, WrittenWire
<1>3. ASSUME NEW k \in ReplyKinds
      PROVE  Tokens(k)' = Tokens(k) + IF k \in Asks(write.frame) THEN 1 ELSE 0
  <2>1. write.frame \in Frames /\ ~write.frame.whole
    BY <1>0, WriteFacts
  <2>2. write.frame \notin Asking(k)
    BY <2>1 DEF Asking
  <2>3. [write.frame EXCEPT !.whole = TRUE] \in Asking(k) <=> k \in Asks(write.frame)
    BY <2>1 DEF Asking, Asks, Frames
  <2>4. Cardinality(Places(wire', Asking(k))) =
          Cardinality(Places(wire, Asking(k))) + IF k \in Asks(write.frame) THEN 1 ELSE 0
    BY <1>1, <1>2, <2>2, <2>3, PlacesReplace
  <2>5. Cardinality(Places(wire, Asking(k))) \in Nat /\ Cardinality(Places(inbox, Giving(k))) \in Nat
    BY <1>1, PlacesFinite
  <2> QED
    BY <1>0, <1>1, <1>2, <2>4, <2>5, TokensCounted, TokensCountedNext DEF TokensOf
<1>4. ASSUME NEW k \in ReplyKinds
      PROVE  Tokens(k)' = IF Awaits(k)' THEN 1 ELSE 0
  <2>1. Tokens(k) = IF Awaits(k) THEN 1 ELSE 0
    BY DEF AnswersConserved, Going
  <2>2. /\ k \in Asks(write.frame) => ~Awaits(k)
        /\ Awaits(k)' <=> Awaits(k) \/ k \in Asks(write.frame)
    BY <1>0, <1>1, WrittenAwaits
  <2> QED
    BY <1>3, <2>1, <2>2
<1> QED
  BY <1>4 DEF AnswersConserved

(* The first bytes of an answer come in.                                   *)
LEMMA ReadByteAnswers ==
  ASSUME TransportInv, AnswersConserved, Going, ReadByte
  PROVE  AnswersConserved'
<1>1. /\ wire \in Seq(Frames) /\ inbox \in Seq(Answers) /\ inbox # <<>> /\ reading.stage = "idle"
      /\ inbox' = Tail(inbox) /\ UNCHANGED <<pc, phase, wire, client, stage, pending>>
  BY Parts DEF ReadByte, Surroundings, login, configuration
<1>2. Head(inbox) \in Answers /\ Tail(inbox) \in Seq(Answers)
  BY <1>1
<1>3. reading'.stage = "prefix" /\ reading'.frame = Head(inbox)
  BY DEF ReadByte, Idle
<1>4. ASSUME NEW k \in ReplyKinds PROVE Tokens(k)' = Tokens(k)
  <2>1. Head(inbox) \in Giving(k) <=> Head(inbox).kind = k
    BY <1>2 DEF Giving
  <2>2. Cardinality(Places(inbox, Giving(k))) =
          Cardinality(Places(inbox', Giving(k))) + IF Head(inbox).kind = k THEN 1 ELSE 0
    BY <1>1, <2>1, PlacesTail
  <2>3. Cardinality(Places(wire, Asking(k))) \in Nat /\ Cardinality(Places(inbox', Giving(k))) \in Nat
    BY <1>1, <1>2, PlacesFinite
  <2>4. Tokens(k) = TokensOf(wire, client.owes, inbox, reading, k)
    BY <1>1, TokensCounted
  <2>5. Tokens(k)' = TokensOf(wire', client'.owes, inbox', reading', k)
    BY <1>1, <1>2, TokensCountedNext
  <2> QED
    BY <1>1, <1>3, <2>2, <2>3, <2>4, <2>5 DEF TokensOf
<1>5. \A k \in ReplyKinds : Awaits(k)' <=> Awaits(k)
  BY <1>1 DEF Awaits, ReplyKinds
<1> QED
  BY <1>4, <1>5, SameAnswers

(* A packet ends what it was waited for as, and nothing else.              *)
LEMMA DeliverAwaits ==
  ASSUME TransportInv, Deliver, Going', NEW k \in ReplyKinds,
         Awaits(reading.frame.kind) \/ reading.frame.kind \notin ReplyKinds
  PROVE  Awaits(k)' <=> Awaits(k) /\ k # reading.frame.kind
<1> DEFINE kind == reading.frame.kind
<1>0. Control /\ kind \in ReplyKinds \cup {"Unexpected", "Information"}
  BY Parts, ReadingFacts DEF Deliver, Answers
<1> HIDE DEF kind
<1>1. CASE pc = "receive"
  <2>1. OnLoginPacket(kind)
    BY <1>1 DEF Deliver, kind
  <2>2. CASE phase = "Hello" /\ kind = "Hello" /\ ~Farewell(phase)
    <3>1. UNCHANGED configuration /\ (pc' = "write" \/ phase' \in {"Verifying", "WritingFinished"})
      BY <2>1, <2>2 DEF OnLoginPacket, Verified, Publish, Farewell, Going
    <3>2. phase' \in {"Key", "Verifying", "WritingFinished"}
      BY <2>1, <2>2 DEF OnLoginPacket, Verified, Publish, Farewell, Going
    <3> QED
      BY <2>2, <3>1, <3>2 DEF Awaits, ReplyKinds, configuration, kind
  <2>3. CASE phase = "Key" /\ kind = "Key" /\ ~Farewell(phase)
    <3>1. UNCHANGED configuration /\ phase' = "CheckingKey"
      BY <2>1, <2>3 DEF OnLoginPacket
    <3> QED
      BY <1>1, <2>3, <3>1 DEF Awaits, ReplyKinds, configuration, kind
  <2>4. CASE phase = "AwaitingAcknowledgement" /\ kind = "Ack" /\ ~Farewell(phase)
    <3>1. UNCHANGED configuration /\ phase' = "Accepted"
      BY <2>1, <2>4 DEF OnLoginPacket
    <3> QED
      BY <1>1, <2>4, <3>1 DEF Awaits, ReplyKinds, configuration, kind
  <2> QED
    BY <2>1, <2>2, <2>3, <2>4 DEF OnLoginPacket, Farewell, Going
<1>2. CASE pc = "auth"
  BY <1>2 DEF Deliver, Farewell, Going
<1>3. CASE pc = "read"
  <2>1. on_packet(kind) /\ phase = "Accepted"
    BY <1>0, <1>3 DEF Deliver, Control, PhaseOfTask, Accepted, kind
  <2>2. /\ phase' = phase
        /\ \/ kind = "Information" /\ UNCHANGED <<stage, pending>>
           \/ /\ kind = "KnownPacks" /\ stage' = "SendingRegistries" /\ UNCHANGED pending
           \/ kind = "KeepAlive" /\ pending' = FALSE /\ UNCHANGED stage
    BY <2>1 DEF on_packet, Farewell, Going
  <2>3. CASE kind = "Information" /\ UNCHANGED <<stage, pending>>
    BY <2>1, <2>2, <2>3 DEF Awaits, ReplyKinds, kind
  <2>4. CASE kind = "KnownPacks" /\ stage' = "SendingRegistries" /\ UNCHANGED pending
    BY <2>1, <2>2, <2>4 DEF Awaits, ReplyKinds, kind
  <2>5. CASE kind = "KeepAlive" /\ pending' = FALSE /\ UNCHANGED stage
    BY <2>1, <2>2, <2>5 DEF Awaits, ReplyKinds, kind
  <2> QED
    BY <2>2, <2>3, <2>4, <2>5
<1> QED
  BY <1>1, <1>2, <1>3 DEF Deliver, Reading

(* A packet is handled: what was waited for is no more.                    *)
LEMMA DeliverAnswers ==
  ASSUME TransportInv, AnswersConserved, Going, Going', Deliver
  PROVE  AnswersConserved'
<1>1. /\ wire \in Seq(Frames) /\ inbox \in Seq(Answers) /\ reading.stage = "job"
      /\ reading'.stage = "idle" /\ UNCHANGED <<wire, client, inbox>>
  BY Parts DEF Deliver, Surroundings, Idle, peer
<1>2. ASSUME NEW k \in ReplyKinds
      PROVE  /\ Tokens(k) = Tokens(k)' + IF k = reading.frame.kind THEN 1 ELSE 0
             /\ Tokens(k)' \in Nat
  <2>1. Cardinality(Places(wire, Asking(k))) \in Nat /\ Cardinality(Places(inbox, Giving(k))) \in Nat
    BY <1>1, PlacesFinite
  <2> QED
    BY <1>1, <2>1, TokensCounted, TokensCountedNext DEF TokensOf
<1>3. \A k \in ReplyKinds : Tokens(k) = IF Awaits(k) THEN 1 ELSE 0
  BY DEF AnswersConserved, Going
<1>4. Awaits(reading.frame.kind) \/ reading.frame.kind \notin ReplyKinds
  BY <1>2, <1>3
<1>5. ASSUME NEW k \in ReplyKinds PROVE Tokens(k)' = IF Awaits(k)' THEN 1 ELSE 0
  <2>1. Awaits(k)' <=> Awaits(k) /\ k # reading.frame.kind
    BY <1>4, DeliverAwaits
  <2>2. k = reading.frame.kind => Awaits(k)
    BY <1>4
  <2> QED
    BY <1>2, <1>3, <2>1, <2>2
<1> QED
  BY <1>5 DEF AnswersConserved

(* The client takes a question, which it does not owe an answer to yet.    *)
LEMMA ClientReceiveAnswers ==
  ASSUME TransportInv, AnswersConserved, Going, ClientReceive
  PROVE  AnswersConserved'
<1>1. /\ wire \in Seq(Frames) /\ inbox \in Seq(Answers) /\ wire # <<>> /\ Head(wire).whole
      /\ client \in Clients
      /\ wire' = Tail(wire) /\ UNCHANGED <<pc, phase, inbox, reading, stage, pending>>
  BY Parts DEF ClientReceive, Surroundings, login, transport, configuration
<1>2. Head(wire) \in Frames /\ Tail(wire) \in Seq(Frames)
  BY <1>1
<1>3. client'.owes = client.owes \cup Asks(Head(wire))
  <2>1. client' = After(client, Head(wire))
    BY DEF ClientReceive, After
  <2> QED
    BY <1>1, <1>2, <2>1, Received
<1>4. ASSUME NEW k \in ReplyKinds PROVE Tokens(k)' = Tokens(k)
  <2>1. Head(wire) \in Asking(k) <=> k \in Asks(Head(wire))
    BY <1>1, <1>2 DEF Asking
  <2>2. Cardinality(Places(wire, Asking(k))) =
          Cardinality(Places(wire', Asking(k))) + IF k \in Asks(Head(wire)) THEN 1 ELSE 0
    BY <1>1, <2>1, PlacesTail
  <2>3. /\ Cardinality(Places(wire', Asking(k))) \in Nat
        /\ Cardinality(Places(inbox, Giving(k))) \in Nat
    BY <1>1, <1>2, PlacesFinite
  <2>4. Tokens(k) = TokensOf(wire, client.owes, inbox, reading, k)
    BY <1>1, TokensCounted
  <2>5. Tokens(k)' = TokensOf(wire', client'.owes, inbox', reading', k)
    BY <1>1, <1>2, TokensCountedNext
  <2>6. Tokens(k) \in {0, 1}
    BY DEF AnswersConserved, Going
  <2>7. k \in Asks(Head(wire)) => k \notin client.owes
    BY <2>2, <2>3, <2>4, <2>6 DEF TokensOf
  <2> QED
    BY <1>1, <1>3, <2>2, <2>3, <2>4, <2>5, <2>7 DEF TokensOf
<1>5. \A k \in ReplyKinds : Awaits(k)' <=> Awaits(k)
  BY <1>1 DEF Awaits, ReplyKinds
<1> QED
  BY <1>4, <1>5, SameAnswers

(* The client answers, or sends what answers nothing.                      *)
LEMMA ClientSendAnswers ==
  ASSUME TransportInv, AnswersConserved, Going,
         NEW kind \in ReplyKinds \cup {"Unexpected", "Information"},
         \/ ClientReply(kind) /\ kind \in ReplyKinds
         \/ ClientStray(kind) /\ kind \notin ReplyKinds
  PROVE  AnswersConserved'
<1> DEFINE a == [kind |-> kind, enc |-> client.enc, comp |-> client.comp]
<1>1. /\ wire \in Seq(Frames) /\ inbox \in Seq(Answers) /\ client \in Clients
      /\ inbox' = Append(inbox, a) /\ UNCHANGED <<pc, phase, wire, reading, stage, pending>>
  BY Parts DEF ClientReply, ClientStray, Send, Surroundings, login, transport, configuration
<1>2. a \in Answers /\ a.kind = kind
  BY <1>1 DEF Answers, Clients
<1> HIDE DEF a
<1>3. inbox' \in Seq(Answers)
  BY <1>1, <1>2, Appended
<1>4. \/ kind \in ReplyKinds /\ kind \in client.owes /\ client'.owes = client.owes \ {kind}
      \/ kind \notin ReplyKinds /\ client' = client
  BY <1>1 DEF ClientReply, ClientStray, Clients
<1>5. ASSUME NEW k \in ReplyKinds PROVE Tokens(k)' = Tokens(k)
  <2>1. a \in Giving(k) <=> kind = k
    BY <1>2 DEF Giving
  <2>2. Cardinality(Places(inbox', Giving(k))) =
          Cardinality(Places(inbox, Giving(k))) + IF kind = k THEN 1 ELSE 0
    BY <1>1, <1>2, <2>1, PlacesAppend
  <2>3. /\ Cardinality(Places(wire, Asking(k))) \in Nat
        /\ Cardinality(Places(inbox, Giving(k))) \in Nat
    BY <1>1, PlacesFinite
  <2>4. Tokens(k) = TokensOf(wire, client.owes, inbox, reading, k)
    BY <1>1, TokensCounted
  <2>5. Tokens(k)' = TokensOf(wire', client'.owes, inbox', reading', k)
    BY <1>1, <1>3, TokensCountedNext
  <2> QED
    BY <1>1, <1>4, <2>2, <2>3, <2>4, <2>5 DEF TokensOf
<1>6. \A k \in ReplyKinds : Awaits(k)' <=> Awaits(k)
  BY <1>1 DEF Awaits, ReplyKinds
<1> QED
  BY <1>5, <1>6, SameAnswers

(* A connection starts with the client owing its Hello.                    *)
LEMMA AnswersStart == Init => AnswersConserved
<1> SUFFICES ASSUME Init, NEW k \in ReplyKinds PROVE Tokens(k) = IF Awaits(k) THEN 1 ELSE 0
  BY DEF AnswersConserved
<1>1. Asked(k) = {} /\ Sent(k) = {} /\ reading.stage = "idle" /\ client.owes = {"Hello"}
  BY DEF Init, Asked, Sent, Idle
<1>2. Tokens(k) = IF k = "Hello" THEN 1 ELSE 0
  <2>1. Cardinality(client.owes \cap {k}) = IF k \in client.owes THEN 1 ELSE 0
    BY OwedCount
  <2>2. Cardinality(Asked(k)) = 0 /\ Cardinality(Sent(k)) = 0
    BY <1>1, FS_EmptySet
  <2> QED
    BY <1>1, <2>1, <2>2 DEF Tokens
<1>3. Awaits(k) <=> k = "Hello"
  BY DEF Awaits, ReplyKinds, Init
<1> QED
  BY <1>2, <1>3

(* Every step keeps each answer in one place.                              *)
LEMMA AnswersKept == TransportInv /\ AnswersConserved /\ [Next]_vars => AnswersConserved'
<1> SUFFICES ASSUME TransportInv, AnswersConserved, [Next]_vars, Going' PROVE AnswersConserved'
  BY DEF AnswersConserved, Going
<1>1. CASE UNCHANGED vars
  BY <1>1 DEF vars, transport, configuration, login, peer, AnswersConserved, Tokens, Asked, Sent, Awaits
<1>2. CASE Next
  <2>0. Going
    BY <1>2, GoingBack
  <2>1. CASE WriteStep
    BY <2>0, <2>1, TaskAnswers, EncodedAnswers, WrittenAnswers DEF WriteStep
  <2>2. CASE ReadStep \/ ReadFails
    BY <2>0, <2>2, TaskAnswers, ReadByteAnswers, DeliverAnswers DEF ReadStep
  <2>3. CASE \/ \E ok \in BOOLEAN : KeyChecked(ok) \/ Authenticated(ok)
             \/ Tick \/ Stop \/ Abort \/ Loop \/ KeepAliveDue \/ Advance \/ Shutdown
    BY <2>0, <2>3, TaskAnswers
  <2>4. CASE ClientReceive
    BY <2>0, <2>4, ClientReceiveAnswers
  <2>5. ASSUME NEW kind \in ReplyKinds, ClientReply(kind) PROVE AnswersConserved'
    <3>1. kind \in ReplyKinds \cup {"Unexpected", "Information"}
      BY <2>5
    <3> QED
      BY <2>0, <2>5, <3>1, ClientSendAnswers
  <2>6. ASSUME NEW kind \in {"Unexpected", "Information"}, ClientStray(kind) PROVE AnswersConserved'
    <3>1. kind \in ReplyKinds \cup {"Unexpected", "Information"} /\ kind \notin ReplyKinds
      BY <2>6 DEF ReplyKinds
    <3> QED
      BY <2>0, <2>6, <3>1, ClientSendAnswers
  <2> QED
    BY <1>2, <2>1, <2>2, <2>3, <2>4, <2>5, <2>6 DEF Next
<1> QED
  BY <1>1, <1>2

(* Deadlines lose no input: while the connection works, each answer the    *)
(* server waits for is in exactly one place, and no other answer is.       *)
THEOREM AnswersSafety == Spec => []AnswersConserved
<1>1. Init => TransportInv /\ AnswersConserved
  BY TransportStart, AnswersStart
<1>2. TransportInv /\ AnswersConserved /\ [Next]_vars => TransportInv' /\ AnswersConserved'
  BY TransportKept, AnswersKept
<1> QED
  BY <1>1, <1>2, PTL DEF Spec

-----------------------------------------------------------------------------
(* The modes of both ends.                                                 *)

(* No whole frame on the wire asks for the kind.                           *)
Unasked(kind) == \A i \in DOMAIN wire : wire[i].whole => kind \notin Asks(wire[i])

(* An answer that is not waited for is nowhere, and one that arrives is    *)
(* nowhere else.                                                           *)
LEMMA OnePlace ==
  ASSUME TransportInv, AnswersConserved, Going, NEW k \in ReplyKinds
  PROVE  /\ ~Awaits(k) => Unasked(k) /\ k \notin client.owes /\ ~Arriving(k)
         /\ Arriving(k) => Unasked(k) /\ k \notin client.owes
<1>1. wire \in Seq(Frames) /\ inbox \in Seq(Answers)
  BY Parts DEF Surroundings
<1> DEFINE A == Places(wire, Asking(k))
           B == Places(inbox, Giving(k))
<1>2. /\ IsFiniteSet(A) /\ Cardinality(A) \in Nat
      /\ IsFiniteSet(B) /\ Cardinality(B) \in Nat
  BY <1>1, PlacesFinite
<1>3. Tokens(k) = Cardinality(A) + (IF k \in client.owes THEN 1 ELSE 0) + Cardinality(B)
                    + (IF reading.stage # "idle" /\ reading.frame.kind = k THEN 1 ELSE 0)
  BY <1>1, TokensCounted DEF TokensOf
<1>4. Tokens(k) = IF Awaits(k) THEN 1 ELSE 0
  BY DEF AnswersConserved, Going
<1>5. (Cardinality(A) = 0 <=> A = {}) /\ (Cardinality(B) = 0 <=> B = {})
  BY <1>2, FS_EmptySet
<1>6. A = {} => Unasked(k)
  BY <1>1 DEF Places, Asking, Unasked
<1>7. Arriving(k) => B # {} \/ (reading.stage # "idle" /\ reading.frame.kind = k)
  BY <1>1 DEF Arriving, Places, Giving
<1> HIDE DEF A, B
<1> QED
  BY <1>2, <1>3, <1>4, <1>5, <1>6, <1>7

(* The frames on the wire are the same, but for their last byte.           *)
SameWire ==
  /\ DOMAIN wire' = DOMAIN wire
  /\ \A i \in DOMAIN wire : /\ wire'[i].kind = wire[i].kind /\ wire'[i].n = wire[i].n
                            /\ wire'[i].enc = wire[i].enc /\ wire'[i].comp = wire[i].comp

(* Nothing of the kind has come in.                                        *)
NoneNew(kind) == Arriving(kind)' => Arriving(kind)

(* Steps of the task leave the frames on the wire as readable as they were.*)
LEMMA SameWireModes ==
  ASSUME WireModes, SwitchOnAnswer, SameWire, client' = client, NoneNew("Key"), NoneNew("Ack")
  PROVE  WireModes' /\ SwitchOnAnswer' /\ (\A kind : OnWire(kind)' <=> OnWire(kind))
<1>1. WireModes'
  BY DEF WireModes, SameWire, Protocol
<1>2. SwitchOnAnswer'
  BY DEF SwitchOnAnswer, SameWire, NoneNew
<1>3. \A kind : OnWire(kind)' <=> OnWire(kind)
  BY DEF OnWire, SameWire
<1> QED
  BY <1>1, <1>2, <1>3

(* And its content as well numbered, if the cursor agrees.                 *)
LEMMA SameNumbers ==
  ASSUME ContentNumbered, SameWire, client' = client,
         stream' # "none" => stream # "none" /\ Sending' = Sending,
         \/ phase' \notin {"Accepted", "Closed"}
         \/ Writing' /\ write'.frame.kind = "LoginDisconnect"
         => \/ phase \notin {"Accepted", "Closed"}
            \/ Writing /\ write.frame.kind = "LoginDisconnect"
  PROVE  ContentNumbered'
<1>1. Contents' = Contents
  BY DEF Contents, SameWire
<1>2. \A i \in Contents : wire'[i].n = wire[i].n
  BY DEF Contents, SameWire
<1>3. OnWire("LoginDisconnect")' <=> OnWire("LoginDisconnect")
  BY DEF OnWire, SameWire
<1>4. \A i, j \in Contents' : i < j => wire'[i].n < wire'[j].n
  BY <1>1, <1>2 DEF ContentNumbered
<1>5. \A i \in Contents' :
        /\ wire'[i].n >= client'.next
        /\ wire'[i].n = client'.next \/ \E j \in Contents' : j < i /\ wire'[j].n + 1 = wire'[i].n
  BY <1>1, <1>2 DEF ContentNumbered
<1>6. stream' # "none" =>
        /\ \A i \in Contents' : wire'[i].n < Sending'
        /\ Sending' = client'.next \/ \E j \in Contents' : wire'[j].n + 1 = Sending'
  <2> HIDE DEF Sending
  <2> QED
    BY <1>1, <1>2 DEF ContentNumbered
<1>7. \/ phase' \notin {"Accepted", "Closed"}
      \/ Writing' /\ write'.frame.kind = "LoginDisconnect"
      \/ OnWire("LoginDisconnect")'
      => client'.next = 0 /\ Contents' = {}
  BY <1>1, <1>3 DEF ContentNumbered
<1> HIDE DEF Sending, Contents
<1> QED
  BY <1>4, <1>5, <1>6, <1>7 DEF ContentNumbered

(* The end of the task.                                                    *)
LEMMA ShutModes ==
  ASSUME ModesInv, Shut, SameWire, UNCHANGED <<client, inbox>>
  PROVE  ModesInv'
<1>1. reading'.stage = "idle"
  BY DEF Shut, Idle
<1>2. NoneNew("Key") /\ NoneNew("Ack")
  BY <1>1 DEF NoneNew, Arriving
<1>3. WireModes' /\ SwitchOnAnswer'
  BY <1>2, SameWireModes DEF ModesInv
<1>4. ContentNumbered'
  <2>1. stream' = "none" /\ phase' = "Closed" /\ ~Writing'
    BY DEF Shut, Writing
  <2> QED
    BY <2>1, SameNumbers DEF ModesInv
<1>5. ModesOfPhase' /\ CompressionSwitched' /\ AnswersReadable'
  BY DEF Shut, ModesOfPhase, CompressionSwitched, AnswersReadable, Going, Accepted, Login, Late, Writing
<1>6. FramesReadable'
  BY <1>1 DEF ModesInv, FramesReadable
<1> QED
  BY <1>3, <1>4, <1>5, <1>6 DEF ModesInv

(* A connection that works is in no closed phase.                          *)
LEMMA GoingPhase == ASSUME TransportInv, Going PROVE phase # "Closed"
BY Parts DEF Control, PhaseOfTask, TaskTypes, Accepted, Going

(* Compression after a step that does not touch it.                        *)
LEMMA SameCompression ==
  ASSUME CompressionSwitched, UNCHANGED <<compression, wire, client>>,
         stream' # "none" => stream # "none",
         Writing' => write'.stage = "start" \/ (Writing /\ UNCHANGED write)
  PROVE  CompressionSwitched'
BY DEF CompressionSwitched

(* A farewell: in the modes of its phase, and what is half read stays so.  *)
LEMMA FarewellModes ==
  ASSUME TransportInv, ModesInv, Going, NEW p, Farewell(p), SameWire, UNCHANGED <<client, inbox>>,
         stream # "none", Sending = cursor, Sealed' = Sealed, CompressionSwitched',
         reading' = Idle \/ UNCHANGED <<reading, decryptor>>,
         \/ p = phase
         \/ p = "Closed" /\ ~Accepted
         \/ /\ p = "Verifying" /\ ~Accepted /\ client.enc = Sealed
            /\ "Key" \notin client.owes /\ ~OnWire("Challenge")
  PROVE  ModesInv'
<1>1. /\ pc' = "farewell" /\ phase' = p /\ write' # None /\ write'.stage = "start"
      /\ write'.frame.kind = IF p = "Accepted" THEN "Disconnect" ELSE "LoginDisconnect"
      /\ cursor' = cursor /\ Writing' /\ ~Going'
  BY StartingFacts DEF Farewell, LoginKinds, Writing, Going
<1>2. NoneNew("Key") /\ NoneNew("Ack")
  BY DEF NoneNew, Arriving, Idle
<1>3. WireModes' /\ SwitchOnAnswer' /\ (\A kind : OnWire(kind)' <=> OnWire(kind))
  BY <1>2, SameWireModes DEF ModesInv
<1>4. ContentNumbered'
  <2>1. Sending' = Sending
    BY <1>1 DEF Sending
  <2>2. p # "Accepted" => phase \notin {"Accepted", "Closed"}
    BY GoingPhase DEF Accepted
  <2>3. \/ phase' \notin {"Accepted", "Closed"}
        \/ Writing' /\ write'.frame.kind = "LoginDisconnect"
        => \/ phase \notin {"Accepted", "Closed"}
           \/ Writing /\ write.frame.kind = "LoginDisconnect"
    BY <1>1, <2>2
  <2> QED
    BY <2>1, <2>3, SameNumbers DEF ModesInv
<1>5. ModesOfPhase'
  <2> HIDE DEF OnWire, Sealed
  <2>1. ModesOfPhase
    BY DEF ModesInv
  <2>2. CASE p = phase
    BY <1>1, <1>3, <2>1, <2>2 DEF ModesOfPhase, Accepted, Late, Login
  <2>3. CASE p = "Closed"
    BY <1>1, <1>3, <2>1, <2>3 DEF ModesOfPhase, Accepted, Late, Login
  <2>4. CASE /\ p = "Verifying" /\ ~Accepted /\ client.enc = Sealed
             /\ "Key" \notin client.owes /\ ~OnWire("Challenge")
    BY <1>1, <1>3, <2>1, <2>4 DEF ModesOfPhase, Accepted, Late, Login
  <2> QED
    BY <2>2, <2>3, <2>4
<1>6. AnswersReadable'
  BY <1>1 DEF AnswersReadable
<1>7. FramesReadable'
  <2>1. CASE reading' = Idle
    BY <2>1 DEF ModesInv, FramesReadable, Idle
  <2>2. CASE UNCHANGED <<reading, decryptor>>
    BY <2>2 DEF ModesInv, FramesReadable
  <2> QED
    BY <2>1, <2>2
<1> QED
  BY <1>3, <1>4, <1>5, <1>6, <1>7 DEF ModesInv

(* The same where neither the wire nor the compression is touched.         *)
LEMMA LeaveModes ==
  ASSUME TransportInv, ModesInv, Going, NEW p, Farewell(p), UNCHANGED <<peer, compression>>,
         stream # "none", Writing => write.stage = "start", Sealed' = Sealed,
         reading' = Idle \/ UNCHANGED <<reading, decryptor>>,
         \/ p = phase
         \/ p = "Closed" /\ ~Accepted
         \/ /\ p = "Verifying" /\ ~Accepted /\ client.enc = Sealed
            /\ "Key" \notin client.owes /\ ~OnWire("Challenge")
  PROVE  ModesInv'
<1>1. SameWire /\ UNCHANGED <<wire, client, inbox>>
  BY DEF SameWire, peer
<1>2. Sending = cursor
  BY DEF Sending
<1>3. write'.stage = "start"
  BY DEF Farewell, Starting
<1>4. CompressionSwitched'
  BY <1>1, <1>3, SameCompression DEF ModesInv
<1> QED
  BY <1>1, <1>2, <1>4, FarewellModes

(* The clock, the shutdown or a failure ends the await.                    *)
LEMMA InterruptModes ==
  ASSUME TransportInv, ModesInv, Going, NEW p \in {phase, "Closed"}, ~Accepted, Interrupt(p),
         UNCHANGED peer
  PROVE  ModesInv'
<1>1. CASE stream # "held"
  <2>1. SameWire /\ UNCHANGED <<client, inbox>>
    BY DEF SameWire, peer
  <2> QED
    BY <1>1, <2>1, ShutModes DEF Interrupt
<1>2. CASE stream = "held"
  <2>1. Farewell(p) /\ UNCHANGED link
    BY <1>2 DEF Interrupt
  <2>2. Writing => write.stage = "start"
    BY <1>2, Parts DEF StreamOwned
  <2>3. Sealed' = Sealed
    BY <1>2, <2>1 DEF Sealed, link
  <2> QED
    BY <1>2, <2>1, <2>2, <2>3, LeaveModes DEF link
<1> QED
  BY <1>1, <1>2

(* Failures, aborts, the clock's end and the shutdown.                     *)
LEMMA EndModes ==
  ASSUME TransportInv, ModesInv, Stop \/ Abort \/ WriteFails \/ ReadFails
  PROVE  ModesInv'
<1>1. CASE Shut /\ UNCHANGED peer
  <2>1. SameWire /\ UNCHANGED <<client, inbox>>
    BY <1>1 DEF SameWire, peer
  <2> QED
    BY <1>1, <2>1, ShutModes
<1>2. CASE Stop /\ ~Accepted
  BY <1>2, InterruptModes DEF Stop, Going
<1> QED
  BY <1>1, <1>2 DEF Stop, Abort, WriteFails, ReadFails

(* A step of the task that stays within its phase and its connection.      *)
LEMMA WithinPhase ==
  ASSUME ModesInv, UNCHANGED <<wire, client, inbox, phase, compression>>, Sealed' = Sealed,
         stream # "none", Going' => Going, Sending' = Sending,
         pc' = "write" /\ phase = "Key" => pc = "write",
         Writing' /\ write'.frame.kind = "LoginDisconnect" =>
           Writing /\ write.frame.kind = "LoginDisconnect",
         CompressionSwitched', FramesReadable',
         (reading'.stage # "idle") = (reading.stage # "idle"),
         reading'.stage # "idle" => reading'.frame = reading.frame
  PROVE  ModesInv'
<1>1. SameWire
  BY DEF SameWire
<1>2. NoneNew("Key") /\ NoneNew("Ack")
  BY DEF NoneNew, Arriving
<1>3. WireModes' /\ SwitchOnAnswer' /\ (\A kind : OnWire(kind)' <=> OnWire(kind))
  BY <1>1, <1>2, SameWireModes DEF ModesInv
<1>4. ContentNumbered'
  BY <1>1, SameNumbers DEF ModesInv
<1>5. ModesOfPhase'
  <2> HIDE DEF OnWire, Sealed
  <2> QED
    BY <1>3 DEF ModesInv, ModesOfPhase, Accepted
<1>6. AnswersReadable'
  <2> HIDE DEF Sealed
  <2> QED
    BY DEF ModesInv, AnswersReadable
<1> QED
  BY <1>3, <1>4, <1>5, <1>6 DEF ModesInv

(* The frame takes on the modes the transport has.                         *)
LEMMA StartWriteModes == ASSUME TransportInv, ModesInv, StartWrite PROVE ModesInv'
<1>0. write \in Writes /\ Writing /\ write.stage = "start" /\ stream = "held" /\ write.frame \in Frames
  BY WriteFacts, Parts DEF StartWrite, StreamOwned
<1>1. /\ write'.stage = "job" /\ write'.frame.kind = write.frame.kind
      /\ write'.frame.enc = (encryptor = "held") /\ write'.frame.comp = compression
  <2>1. write' = [stage |-> "job",
                  frame |-> [write.frame EXCEPT !.enc = encryptor = "held", !.comp = compression]]
    BY <1>0 DEF StartWrite, Writes, Frames
  <2> QED
    BY <1>0, <2>1 DEF Frames
<1>2. /\ UNCHANGED <<wire, client, inbox, phase, compression, pc, reading, decryptor, cursor>>
      /\ stream' = "writing"
  BY DEF StartWrite, peer, login, configuration
<1>3. Sealed' = Sealed
  BY <1>0, <1>1, <1>2 DEF Sealed
<1>4. CompressionSwitched'
  BY <1>0, <1>1, <1>2 DEF ModesInv, CompressionSwitched
<1>5. FramesReadable'
  BY <1>0, <1>2 DEF ModesInv, FramesReadable
<1>6. Sending' = Sending
  BY <1>0, <1>1, <1>2 DEF Sending
<1> QED
  BY <1>0, <1>1, <1>2, <1>3, <1>4, <1>5, <1>6, WithinPhase DEF Going, Writing

(* The header is taken in the compression the client sent it in.           *)
LEMMA ReadHeaderModes == ASSUME TransportInv, ModesInv, ReadHeader PROVE ModesInv'
<1>0. reading \in Reads /\ reading.stage = "prefix" /\ reading.frame \in Answers /\ Going /\ ~Writing
  BY ReadingFacts DEF ReadHeader, Going, Reading, Writing
<1>1. reading'.stage = "body" /\ reading'.frame = reading.frame /\ reading'.comp = compression
  BY <1>0 DEF ReadHeader, Reads
<1>2. /\ UNCHANGED <<wire, client, inbox, phase, compression, pc, decryptor, cursor, write>>
      /\ UNCHANGED <<stream, encryptor>>
      /\ stream = "held"
  BY Parts DEF ReadHeader, peer, login, configuration, StreamOwned, Reading
<1>3. Sealed' = Sealed /\ Sending' = Sending
  BY <1>2 DEF Sealed, Sending, Writing
<1>4. CompressionSwitched'
  BY <1>0, <1>2, SameCompression DEF ModesInv, Writing
<1>5. FramesReadable'
  BY <1>0, <1>1, <1>2 DEF ModesInv, FramesReadable, AnswersReadable
<1> QED
  BY <1>0, <1>1, <1>2, <1>3, <1>4, <1>5, WithinPhase DEF Going, Writing

(* The job takes the cipher and the mode along.                            *)
LEMMA ReadBodyModes == ASSUME TransportInv, ModesInv, ReadBody PROVE ModesInv'
<1>0. reading \in Reads /\ reading.stage = "body" /\ ~Writing
  BY ReadingFacts DEF ReadBody, Reading, Writing
<1>1. reading'.stage = "job" /\ reading'.frame = reading.frame /\ reading'.comp = reading.comp
  BY <1>0 DEF ReadBody, Reads
<1>2. /\ UNCHANGED <<wire, client, inbox, phase, compression, pc, cursor, write>>
      /\ UNCHANGED <<stream, encryptor>>
      /\ stream = "held"
  BY Parts DEF ReadBody, peer, login, configuration, StreamOwned, Reading
<1>3. Sealed' = Sealed /\ Sending' = Sending
  BY <1>2 DEF Sealed, Sending, Writing
<1>4. CompressionSwitched'
  BY <1>0, <1>2, SameCompression DEF ModesInv, Writing
<1>5. FramesReadable'
  BY <1>0, <1>1, <1>2 DEF ModesInv, FramesReadable
<1> QED
  BY <1>0, <1>1, <1>2, <1>3, <1>4, <1>5, WithinPhase DEF Going, Writing

(* Clocks that count, and the shutdown signal.                             *)
LEMMA QuietModes ==
  ASSUME ModesInv, UNCHANGED <<pc, phase, transport, cursor, peer>>
  PROVE  ModesInv'
<1>0. UNCHANGED <<wire, client, inbox, stream, encryptor, decryptor, compression, reading, write>>
  BY DEF transport, peer
<1>1. UNCHANGED <<Accepted, Writing, Sealed, Going>>
  BY <1>0 DEF Accepted, Writing, Sealed, Going
<1>2. UNCHANGED <<Contents, Sending>> /\ \A k : Arriving(k)' = Arriving(k) /\ OnWire(k)' = OnWire(k)
  BY <1>0, <1>1 DEF Contents, Sending, Arriving, OnWire
<1>3. WireModes' /\ SwitchOnAnswer'
  BY <1>0, <1>2 DEF ModesInv, WireModes, SwitchOnAnswer, Protocol
<1>4. ModesOfPhase'
  BY <1>0, <1>1, <1>2 DEF ModesInv, ModesOfPhase
<1>5. CompressionSwitched' /\ AnswersReadable'
  BY <1>0, <1>1 DEF ModesInv, CompressionSwitched, AnswersReadable
<1>6. ContentNumbered' /\ FramesReadable'
  BY <1>0, <1>1, <1>2 DEF ModesInv, ContentNumbered, FramesReadable
<1> QED
  BY <1>3, <1>4, <1>5, <1>6 DEF ModesInv

(* The login clock.                                                        *)
LEMMA TickModes == ASSUME TransportInv, ModesInv, Tick PROVE ModesInv'
<1>1. CASE UNCHANGED <<pc, phase, transport, configuration>>
  BY <1>1, QuietModes DEF Tick, configuration
<1>2. CASE Interrupt("Closed")
  <2>1. ~Accepted /\ Going /\ UNCHANGED peer
    BY DEF Tick, Clocked, Going
  <2> QED
    BY <1>2, <2>1, InterruptModes
<1> QED
  BY <1>1, <1>2 DEF Tick

(* A turn of the configuration loop.                                       *)
LEMMA LoopModes == ASSUME TransportInv, ModesInv, Loop \/ KeepAliveDue PROVE ModesInv'
<1>0. /\ stream = "held" /\ Going /\ ~Writing /\ phase = "Accepted"
      /\ UNCHANGED <<wire, client, inbox, stream, encryptor, decryptor, compression, reading, peer>>
  BY Parts DEF Loop, KeepAliveDue, StreamOwned, Going, Writing, peer, link, transport, Control,
               PhaseOfTask, Accepted
<1>1. Sealed' = Sealed
  BY <1>0 DEF Sealed
<1>2. CASE Farewell(phase)
  BY <1>0, <1>1, <1>2, LeaveModes
<1>3. CASE ~Farewell(phase)
  <2>1. /\ UNCHANGED <<phase, cursor>>
        /\ \/ pc' \in {"read", "loop"}
           \/ /\ pc' = "write"
              /\ write' \in {Starting("KeepAlive", 0), Starting("Content", cursor)}
    BY <1>3 DEF Loop, KeepAliveDue, login, configuration
  <2>2. Writing' => write'.stage = "start" /\ write'.frame.kind # "LoginDisconnect"
    BY <2>1 DEF Starting, Writing
  <2>3. Sending' = Sending
    BY <1>0, <2>1, <2>2 DEF Sending
  <2>4. CompressionSwitched'
    BY <1>0, <2>2, SameCompression DEF ModesInv
  <2>5. FramesReadable'
    BY <1>0 DEF ModesInv, FramesReadable
  <2> QED
    BY <1>0, <1>1, <2>1, <2>2, <2>3, <2>4, <2>5, WithinPhase
<1> QED
  BY <1>2, <1>3

(* An answer's first bytes come in, in the server's own cipher.            *)
LEMMA ReadByteModes == ASSUME TransportInv, ModesInv, ReadByte PROVE ModesInv'
<1>0. /\ inbox \in Seq(Answers) /\ inbox # <<>> /\ reading.stage = "idle" /\ stream = "held"
      /\ Going /\ ~Writing
  BY Parts DEF ReadByte, Surroundings, StreamOwned, Reading, Going, Writing
<1>1. /\ inbox' = Tail(inbox) /\ reading'.stage = "prefix" /\ reading'.frame = inbox[1]
      /\ UNCHANGED <<wire, client, phase, compression, pc, stream, encryptor, decryptor, cursor, write>>
  BY <1>0 DEF ReadByte, Idle, login, configuration
<1>2. /\ Len(inbox) \in Nat \ {0} /\ DOMAIN inbox = 1..Len(inbox) /\ 1 \in DOMAIN inbox
      /\ DOMAIN inbox' = 1..(Len(inbox) - 1)
      /\ \A i \in 1..(Len(inbox) - 1) : inbox'[i] = inbox[i + 1] /\ i + 1 \in DOMAIN inbox
  BY <1>0, <1>1
<1>3. \A k : NoneNew(k)
  BY <1>1, <1>2 DEF NoneNew, Arriving
<1>4. SameWire /\ Sealed' = Sealed /\ Sending' = Sending /\ (Sealed <=> decryptor = "held")
  BY <1>0, <1>1, Parts DEF SameWire, Sealed, Sending, Writing, CiphersPaired
<1>5. WireModes' /\ SwitchOnAnswer' /\ (\A kind : OnWire(kind)' <=> OnWire(kind))
  BY <1>1, <1>3, <1>4, SameWireModes DEF ModesInv
<1>6. ContentNumbered'
  BY <1>0, <1>1, <1>4, SameNumbers DEF ModesInv, Writing
<1>7. CompressionSwitched'
  BY <1>0, <1>1, SameCompression DEF ModesInv, Writing
<1> HIDE DEF Sealed, OnWire
<1>8. ModesOfPhase'
  BY <1>1, <1>4, <1>5 DEF ModesInv, ModesOfPhase, Accepted, Going
<1>9. AnswersReadable'
  BY <1>0, <1>1, <1>2, <1>4 DEF ModesInv, AnswersReadable
<1>10. FramesReadable'
  <2>1. inbox[1].kind \in ReplyKinds => inbox[1].enc = (decryptor = "held")
    <3>1. inbox[1].kind \in ReplyKinds => inbox[1].enc = Sealed
      BY <1>0, <1>2 DEF ModesInv, AnswersReadable
    <3>2. Sealed = (decryptor = "held")
      BY <1>0, <1>4 DEF Sealed
    <3> QED
      BY <3>1, <3>2
  <2> QED
    BY <1>1, <2>1 DEF ModesInv, FramesReadable
<1> QED
  BY <1>5, <1>6, <1>7, <1>8, <1>9, <1>10 DEF ModesInv

(* The next phase: the wire is left alone.                                 *)
LEMMA NextPhase ==
  ASSUME ModesInv, UNCHANGED <<peer, compression, cursor>>, stream = "held", ~Writing,
         Writing' => write'.stage = "start" /\ write'.frame.kind # "LoginDisconnect",
         phase' \notin {"Accepted", "Closed"} => phase \notin {"Accepted", "Closed"},
         reading' = Idle \/ UNCHANGED <<reading, decryptor>>,
         ModesOfPhase', AnswersReadable'
  PROVE  ModesInv'
<1>1. SameWire /\ UNCHANGED <<wire, client, inbox>>
  BY DEF SameWire, peer
<1>2. NoneNew("Key") /\ NoneNew("Ack")
  BY <1>1 DEF NoneNew, Arriving, Idle
<1>3. WireModes' /\ SwitchOnAnswer'
  BY <1>1, <1>2, SameWireModes DEF ModesInv
<1>4. ContentNumbered'
  <2>1. Sending' = Sending
    BY DEF Sending
  <2> QED
    BY <1>1, <2>1, SameNumbers DEF ModesInv
<1>5. CompressionSwitched'
  BY <1>1, SameCompression DEF ModesInv
<1>6. FramesReadable'
  <2>1. CASE reading' = Idle
    BY <1>1, <2>1 DEF ModesInv, FramesReadable, Idle
  <2>2. CASE UNCHANGED <<reading, decryptor>>
    BY <1>1, <2>2 DEF ModesInv, FramesReadable
  <2> QED
    BY <2>1, <2>2
<1> QED
  BY <1>3, <1>4, <1>5, <1>6 DEF ModesInv

(* Where no Key is waited for, none is asked for or owed.                  *)
LEMMA NoKeyOut ==
  ASSUME TransportInv, AnswersConserved, Going, stream = "held", phase # "Key"
  PROVE  "Key" \notin client.owes /\ ~OnWire("Challenge")
<1>1. Unasked("Key") /\ "Key" \notin client.owes
  <2>1. "Key" \in ReplyKinds /\ ~Awaits("Key")
    BY DEF ReplyKinds, Awaits
  <2> QED
    BY <2>1, OnePlace
<1>2. AllWhole
  BY Parts
<1> QED
  BY <1>1, <1>2 DEF Unasked, AllWhole, OnWire, Asks

(* The key is checked: both ends are encrypted from here on.               *)
LEMMA KeyCheckedModes ==
  ASSUME TransportInv, AnswersConserved, ModesInv, NEW ok \in BOOLEAN, KeyChecked(ok)
  PROVE  ModesInv'
<1>0. /\ stream = "held" /\ Going /\ ~Writing /\ phase = "CheckingKey"
      /\ UNCHANGED <<peer, compression, reading, stream>>
  BY Parts DEF KeyChecked, StreamOwned, Going, Writing, Control, PhaseOfTask
<1>1. CASE Farewell(phase) /\ UNCHANGED <<encryptor, decryptor>>
  <2>1. Sealed' = Sealed
    BY <1>0, <1>1 DEF Sealed
  <2> QED
    BY <1>0, <1>1, <2>1, LeaveModes
<1>2. CASE /\ reading = Idle /\ encryptor' = "held" /\ decryptor' = "held"
           /\ pc' = "auth" /\ phase' = "Authenticating" /\ UNCHANGED <<write, configuration>>
  <2>0. UNCHANGED <<wire, client, inbox>>
    BY <1>0 DEF peer
  <2>1. Sealed' /\ client.enc
    BY <1>0, <1>2 DEF Sealed, ModesInv, ModesOfPhase
  <2>2. \A kind : OnWire(kind)' <=> OnWire(kind)
    BY <2>0 DEF OnWire
  <2>3. ModesOfPhase'
    <3> HIDE DEF Sealed, OnWire
    <3>1. client.enc \in BOOLEAN
      BY Parts DEF Surroundings, Clients
    <3>2. Sealed' = TRUE
      BY <1>0, <1>2 DEF Sealed
    <3> QED
      BY <1>0, <1>2, <2>0, <2>1, <2>2, <3>1, <3>2
         DEF ModesInv, ModesOfPhase, Login, Late, Accepted, Going
  <2>4. \A k \in ReplyKinds : ~Arriving(k)
    <3>1. \A k \in ReplyKinds : ~Awaits(k)
      BY <1>0, Parts DEF ReplyKinds, Awaits, Control, ContentOrder
    <3> QED
      BY <1>0, <3>1, OnePlace
  <2>5. AnswersReadable'
    BY <1>0, <1>2, <2>0, <2>4 DEF AnswersReadable, Arriving
  <2>6. reading' = Idle /\ cursor' = cursor /\ ~Writing'
    BY <1>0, <1>2 DEF configuration, Writing
  <2> QED
    BY <1>0, <1>2, <2>3, <2>5, <2>6, NextPhase
<1> QED
  BY <1>1, <1>2 DEF KeyChecked

(* A verified profile: Set Compression or Login Finished is next.          *)
LEMMA VerifiedModes ==
  ASSUME TransportInv, AnswersConserved, ModesInv, Verified, Going, stream = "held", ~Writing,
         phase \in {"Hello", "Authenticating"}, UNCHANGED <<peer, compression, stream, encryptor>>,
         reading' = Idle \/ UNCHANGED <<reading, decryptor>>
  PROVE  ModesInv'
<1>0. "Key" \notin client.owes /\ ~OnWire("Challenge")
  BY NoKeyOut
<1>1. Sealed' = Sealed /\ UNCHANGED <<wire, client, inbox>>
  BY DEF Sealed, peer
<1>2. client.enc = Sealed
  <2>1. CASE phase = "Hello"
    <3>1. client.enc \in BOOLEAN /\ Sealed \in BOOLEAN
      BY Parts DEF Surroundings, Clients, Sealed
    <3>2. ~client.enc /\ ~Sealed
      BY <2>1 DEF ModesInv, ModesOfPhase
    <3> QED
      BY <3>1, <3>2
  <2>2. CASE phase = "Authenticating"
    BY <2>2 DEF ModesInv, ModesOfPhase
  <2> QED
    BY <2>1, <2>2
<1>3. CASE Farewell("Verifying")
  BY <1>0, <1>1, <1>2, <1>3, LeaveModes DEF Accepted
<1>4. CASE ~Farewell("Verifying")
  <2>1. /\ phase' \in {"Verifying", "WritingFinished"} /\ pc' = "write" /\ cursor' = cursor
        /\ write' \in {Starting("SetCompression", 0), Starting("Finished", 0)}
    BY <1>4 DEF Verified, Publish, configuration
  <2>2. write'.stage = "start" /\ write'.frame.kind # "LoginDisconnect"
    BY <2>1 DEF Starting
  <2>3. \A kind : OnWire(kind)' <=> OnWire(kind)
    BY <1>1 DEF OnWire
  <2> HIDE DEF Sealed, OnWire
  <2>4. ModesOfPhase'
    BY <1>0, <1>1, <1>2, <2>1, <2>3 DEF ModesInv, ModesOfPhase, Login, Late, Accepted, Going
  <2>5. AnswersReadable'
    <3>1. CASE reading' = Idle
      BY <1>1, <3>1 DEF ModesInv, AnswersReadable, Idle
    <3>2. CASE UNCHANGED reading
      BY <1>1, <3>2 DEF ModesInv, AnswersReadable
    <3> QED
      BY <3>1, <3>2
  <2> QED
    BY <2>1, <2>2, <2>4, <2>5, NextPhase
<1> QED
  BY <1>3, <1>4

(* has_joined answers.                                                     *)
LEMMA AuthenticatedModes ==
  ASSUME TransportInv, AnswersConserved, ModesInv, NEW ok \in BOOLEAN, Authenticated(ok)
  PROVE  ModesInv'
<1>0. /\ stream = "held" /\ Going /\ ~Writing /\ phase = "Authenticating"
      /\ UNCHANGED <<peer, link>>
  BY Parts DEF Authenticated, StreamOwned, Going, Writing, Control, PhaseOfTask
<1>1. UNCHANGED <<compression, reading, decryptor, stream, encryptor>>
  BY <1>0 DEF link
<1>2. CASE Farewell(phase)
  <2>1. Sealed' = Sealed
    BY <1>0, <1>1 DEF Sealed
  <2> QED
    BY <1>0, <1>1, <1>2, <2>1, LeaveModes
<1>3. CASE Verified
  BY <1>0, <1>1, <1>3, VerifiedModes
<1> QED
  BY <1>2, <1>3 DEF Authenticated

(* A packet is handled.                                                    *)
LEMMA DeliverModes ==
  ASSUME TransportInv, AnswersConserved, ModesInv, Deliver
  PROVE  ModesInv'
<1> DEFINE kind == reading.frame.kind
<1>0. /\ stream = "held" /\ Going /\ ~Writing /\ Control /\ reading.stage = "job"
      /\ reading' = Idle /\ UNCHANGED <<peer, compression, stream, encryptor>>
  BY Parts DEF Deliver, StreamOwned, Reading, Going, Writing
<1>1. Sealed' = Sealed /\ UNCHANGED <<wire, client, inbox>>
  BY <1>0 DEF Sealed, peer
<1>2. CASE Farewell(phase)
  BY <1>0, <1>1, <1>2, LeaveModes
<1>3. \A k : OnWire(k)' <=> OnWire(k)
  BY <1>1 DEF OnWire
<1>4. AnswersReadable'
  <2> HIDE DEF Sealed
  <2> QED
    BY <1>0, <1>1 DEF ModesInv, AnswersReadable, Idle
<1>5. CASE pc = "receive" /\ ~Farewell(phase)
  <2>1. OnLoginPacket(kind)
    BY <1>5 DEF Deliver
  <2>2. CASE phase = "Hello" /\ Verified
    BY <1>0, <2>2, VerifiedModes
  <2>3. CASE /\ phase = "Hello" /\ pc' = "write" /\ phase' = "Key"
             /\ write' = Starting("Challenge", 0) /\ UNCHANGED configuration
    <3>1. write'.stage = "start" /\ write'.frame.kind # "LoginDisconnect" /\ cursor' = cursor
      BY <2>3 DEF Starting, configuration
    <3> HIDE DEF Sealed, OnWire
    <3>2. ModesOfPhase'
      BY <1>0, <1>1, <1>3, <2>3 DEF ModesInv, ModesOfPhase, Login, Late, Accepted, Going
    <3> QED
      BY <1>0, <1>4, <2>3, <3>1, <3>2, NextPhase
  <2>4. CASE /\ phase = "Key" /\ kind = "Key" /\ pc' = "key" /\ phase' = "CheckingKey"
             /\ UNCHANGED <<write, configuration>>
    <3>1. client.enc
      BY <1>0, <2>4 DEF ModesInv, SwitchOnAnswer, Arriving
    <3> HIDE DEF Sealed, OnWire
    <3>2. ModesOfPhase'
      BY <1>0, <1>1, <1>3, <2>4, <3>1 DEF ModesInv, ModesOfPhase, Login, Late, Accepted, Going
    <3>3. ~Writing' /\ cursor' = cursor
      BY <2>4 DEF Writing, configuration
    <3> QED
      BY <1>0, <1>4, <2>4, <3>2, <3>3, NextPhase
  <2>5. CASE /\ phase = "AwaitingAcknowledgement" /\ kind = "Ack" /\ pc' = "loop"
             /\ phase' = "Accepted" /\ UNCHANGED <<write, configuration>>
    <3>1. client.protocol = "configuration"
      BY <1>0, <2>5 DEF ModesInv, SwitchOnAnswer, Arriving
    <3>2. "Ack" \notin client.owes /\ ~OnWire("Finished")
      <4>1. "Ack" \in ReplyKinds /\ Arriving("Ack")
        BY <1>0, <2>5 DEF ReplyKinds, Arriving
      <4>2. Unasked("Ack") /\ "Ack" \notin client.owes
        BY <1>0, <4>1, OnePlace
      <4>3. AllWhole
        BY <1>0, Parts
      <4> QED
        BY <4>2, <4>3 DEF Unasked, AllWhole, OnWire, Asks
    <3> HIDE DEF Sealed, OnWire
    <3>3. ModesOfPhase'
      BY <1>0, <1>1, <1>3, <2>5, <3>1, <3>2
         DEF ModesInv, ModesOfPhase, Login, Late, Accepted, Going
    <3>4. ~Writing' /\ cursor' = cursor
      BY <2>5 DEF Writing, configuration
    <3> QED
      BY <1>0, <1>4, <2>5, <3>3, <3>4, NextPhase
  <2> QED
    BY <1>5, <2>1, <2>2, <2>3, <2>4, <2>5 DEF OnLoginPacket
<1>6. CASE pc = "read" /\ ~Farewell(phase)
  <2>1. phase = "Accepted" /\ pc' = "loop" /\ UNCHANGED <<phase, write, cursor>>
    BY <1>0, <1>6 DEF Deliver, on_packet, Control, PhaseOfTask, Accepted
  <2> HIDE DEF Sealed, OnWire
  <2>2. ModesOfPhase'
    BY <1>0, <1>1, <1>3, <2>1 DEF ModesInv, ModesOfPhase, Login, Late, Accepted, Going
  <2>3. ~Writing'
    BY <2>1 DEF Writing
  <2> QED
    BY <1>0, <1>4, <2>1, <2>2, <2>3, NextPhase
<1> QED
  BY <1>2, <1>5, <1>6 DEF Deliver, Reading

(* What goes out next is in the modes the client will have, and follows no *)
(* question that switches them.                                            *)
LEMMA NextFrame ==
  ASSUME TransportInv, AnswersConserved, ModesInv, Writing, write.stage = "job"
  PROVE  /\ write.frame.comp = (client.comp \/ OnWire("SetCompression"))
         /\ write.frame.kind # "LoginDisconnect" =>
              /\ write.frame.enc = client.enc /\ Protocol(write.frame) = client.protocol
              /\ ~OnWire("Challenge") /\ ~OnWire("Finished")
              /\ "Key" \notin client.owes /\ "Ack" \notin client.owes
         /\ write.frame.kind = "Challenge" => phase = "Key" /\ Going /\ ~client.enc
         /\ write.frame.kind = "Finished" => phase = "WritingFinished"
         /\ write.frame.kind = "LoginDisconnect" => ~Going
<1>0. /\ stream = "writing" /\ AllWhole /\ Control /\ write.frame \in Frames
      /\ Sealed = write.frame.enc
  BY Parts, WriteFacts DEF StreamOwned, TornTracked, TornIsLast, AllWhole, Sealed
<1>1. write.frame.comp = (client.comp \/ OnWire("SetCompression"))
  <2>1. write.frame.comp = compression
    BY DEF ModesInv, CompressionSwitched
  <2>2. compression = (client.comp \/ \E i \in DOMAIN wire :
                                        wire[i].kind = "SetCompression" /\ wire[i].whole)
    BY <1>0 DEF ModesInv, CompressionSwitched
  <2>3. OnWire("SetCompression") <=>
          \E i \in DOMAIN wire : wire[i].kind = "SetCompression" /\ wire[i].whole
    BY <1>0 DEF OnWire, AllWhole
  <2> QED
    BY <2>1, <2>2, <2>3
<1>2. \/ pc = "write" /\ Going /\ write.frame.kind = "Challenge" /\ phase = "Key"
      \/ pc = "write" /\ Going /\ write.frame.kind = "SetCompression" /\ phase = "Verifying"
      \/ pc = "write" /\ Going /\ write.frame.kind = "Finished" /\ phase = "WritingFinished"
      \/ pc = "write" /\ Going /\ write.frame.kind \in {"Content", "KeepAlive"} /\ phase = "Accepted"
      \/ pc = "farewell" /\ ~Going /\ write.frame.kind = "Disconnect" /\ phase = "Accepted"
      \/ pc = "farewell" /\ ~Going /\ write.frame.kind = "LoginDisconnect"
  BY <1>0 DEF Control, PhaseOfTask, Accepted, Writing, Going
<1>3. ASSUME write.frame.kind # "LoginDisconnect"
      PROVE  /\ ~OnWire("Challenge") /\ ~OnWire("Finished")
             /\ "Key" \notin client.owes /\ "Ack" \notin client.owes
  <2>1. CASE Going
    <3>1. "Key" \in ReplyKinds /\ ~Awaits("Key") /\ "Ack" \in ReplyKinds /\ ~Awaits("Ack")
      BY <1>2, <2>1 DEF ReplyKinds, Awaits
    <3>2. /\ Unasked("Key") /\ "Key" \notin client.owes
          /\ Unasked("Ack") /\ "Ack" \notin client.owes
      BY <2>1, <3>1, OnePlace
    <3> QED
      BY <1>0, <3>2 DEF Unasked, AllWhole, OnWire, Asks
  <2>2. CASE ~Going
    <3>1. phase = "Accepted"
      BY <1>2, <1>3, <2>2
    <3> QED
      BY <3>1 DEF ModesInv, ModesOfPhase, Late, Accepted
  <2> QED
    BY <2>1, <2>2
<1>4. ASSUME write.frame.kind # "LoginDisconnect"
      PROVE  write.frame.enc = client.enc /\ Protocol(write.frame) = client.protocol
  <2>1. ModesOfPhase
    BY DEF ModesInv
  <2>2. write.frame.enc \in BOOLEAN /\ client.enc \in BOOLEAN
    BY <1>0, Parts DEF Frames, Surroundings, Clients
  <2> HIDE DEF Sealed, OnWire
  <2>3. CASE Going /\ pc = "write" /\ write.frame.kind = "Challenge" /\ phase = "Key"
    <3>1. ~Sealed /\ ~client.enc /\ client.protocol = "login"
      BY <2>1, <2>3 DEF ModesOfPhase, Login
    <3> QED
      BY <1>0, <2>2, <2>3, <3>1 DEF Protocol, LoginKinds
  <2>4. CASE /\ Going /\ write.frame.kind \in {"SetCompression", "Finished"}
             /\ phase \in {"Verifying", "WritingFinished"}
    <3>1. client.enc = Sealed /\ client.protocol = "login"
      BY <2>1, <2>4 DEF ModesOfPhase, Late
    <3> QED
      BY <1>0, <2>4, <3>1 DEF Protocol, LoginKinds
  <2>5. CASE write.frame.kind \in {"Content", "KeepAlive", "Disconnect"} /\ phase = "Accepted"
    <3>1. client.enc = Sealed /\ client.protocol = "configuration"
      BY <2>1, <2>5 DEF ModesOfPhase, Late, Accepted
    <3> QED
      BY <1>0, <2>5, <3>1 DEF Protocol, LoginKinds
  <2> QED
    BY <1>2, <1>4, <2>3, <2>4, <2>5
<1>5. write.frame.kind = "Challenge" => phase = "Key" /\ Going /\ ~client.enc
  BY <1>2 DEF ModesInv, ModesOfPhase
<1> QED
  BY <1>1, <1>2, <1>3, <1>4, <1>5

(* The next piece of configuration takes its place in the order.           *)
LEMMA EncodedNumbers ==
  ASSUME TransportInv, AnswersConserved, ModesInv, Encoded
  PROVE  ContentNumbered'
<1> DEFINE f == write.frame
           n == Len(wire) + 1
<1>0. /\ Writing /\ write.stage = "job" /\ Control /\ write \in Writes /\ stream # "none"
      /\ wire \in Seq(Frames) /\ f \in Frames /\ client \in Clients /\ cursor \in Nat
  <2>1. Writing /\ write.stage = "job" /\ Control /\ Surroundings /\ stream # "none"
    BY Parts DEF Encoded, StreamOwned
  <2>2. cursor \in Nat
    BY <2>1, Limits DEF Control, TaskTypes
  <2> QED
    BY <2>1, <2>2, WriteFacts DEF Surroundings
<1>1. /\ DOMAIN wire' = 1..n /\ DOMAIN wire = 1..Len(wire) /\ wire'[n] = f
      /\ \A i \in DOMAIN wire : wire'[i] = wire[i]
  BY <1>0, Appended DEF Encoded
<1>2. /\ UNCHANGED <<client, cursor, phase, stream, pc>> /\ write'.stage = "socket"
      /\ write'.frame = f /\ Writing'
  BY <1>0 DEF Encoded, login, configuration, link, Writing, Writes
<1>3. Len(wire) \in Nat /\ \A i : i \in 1..n <=> i \in 1..Len(wire) \/ i = n
  BY <1>0
<1>4. n \notin DOMAIN wire /\ (\A i \in DOMAIN wire : i \in Nat /\ i < n)
  BY <1>1, <1>3
<1>5. /\ f.kind = "Content" => f.n = cursor /\ phase = "Accepted"
      /\ Sending = cursor /\ Sending' = IF f.kind = "Content" THEN cursor + 1 ELSE cursor
  BY <1>0, <1>2 DEF Control, ContentOrder, PhaseOfTask, Accepted, Writing, Sending
<1>6. \A i \in DOMAIN wire : wire[i].n \in Nat
  <2>1. \A i \in DOMAIN wire : wire[i] \in Frames
    BY <1>0
  <2> QED
    BY <2>1 DEF Frames
<1>7. client.next \in Nat
  BY <1>0 DEF Clients
<1>8. /\ \A i, j \in Contents : i < j => wire[i].n < wire[j].n
      /\ \A i \in Contents :
           /\ wire[i].n >= client.next
           /\ wire[i].n = client.next \/ \E j \in Contents : j < i /\ wire[j].n + 1 = wire[i].n
      /\ \A i \in Contents : wire[i].n < cursor
      /\ cursor = client.next \/ \E j \in Contents : wire[j].n + 1 = cursor
      /\ \/ phase \notin {"Accepted", "Closed"}
         \/ Writing /\ write.frame.kind = "LoginDisconnect"
         \/ OnWire("LoginDisconnect")
         => client.next = 0 /\ Contents = {}
  BY <1>0, <1>5 DEF ModesInv, ContentNumbered
<1>9. Contents \subseteq DOMAIN wire
  BY DEF Contents
<1> HIDE DEF n
<1>10. CASE f.kind # "Content"
  <2>1. Contents' = Contents
    BY <1>1, <1>3, <1>4, <1>10 DEF Contents
  <2>2. OnWire("LoginDisconnect")' => OnWire("LoginDisconnect") \/ f.kind = "LoginDisconnect"
    BY <1>1, <1>3 DEF OnWire
  <2>3. \A i \in Contents : wire'[i] = wire[i]
    BY <1>1, <1>9
  <2> HIDE DEF Contents, Sending, f
  <2>4. \A i, j \in Contents' : i < j => wire'[i].n < wire'[j].n
    BY <1>8, <2>1, <2>3
  <2>5. \A i \in Contents' :
          /\ wire'[i].n >= client'.next
          /\ wire'[i].n = client'.next \/ \E j \in Contents' : j < i /\ wire'[j].n + 1 = wire'[i].n
    BY <1>2, <1>8, <2>1, <2>3
  <2>6. /\ \A i \in Contents' : wire'[i].n < Sending'
        /\ Sending' = client'.next \/ \E j \in Contents' : wire'[j].n + 1 = Sending'
    BY <1>2, <1>5, <1>8, <1>10, <2>1, <2>3
  <2>7. \/ phase' \notin {"Accepted", "Closed"}
        \/ Writing' /\ write'.frame.kind = "LoginDisconnect"
        \/ OnWire("LoginDisconnect")'
        => client'.next = 0 /\ Contents' = {}
    BY <1>0, <1>2, <1>8, <2>1, <2>2 DEF f
  <2> QED
    BY <2>4, <2>5, <2>6, <2>7 DEF ContentNumbered
<1>11. CASE f.kind = "Content"
  <2>1. Contents' = Contents \cup {n} /\ n \notin Contents
    BY <1>1, <1>3, <1>4, <1>11 DEF Contents
  <2>2. ~OnWire("LoginDisconnect")'
    <3>1. Going
      BY <1>0, <1>11 DEF Control, PhaseOfTask, Accepted, Writing, Going
    <3>2. ~OnWire("LoginDisconnect")
      BY <3>1 DEF ModesInv, ModesOfPhase
    <3> QED
      BY <1>1, <1>3, <1>11, <3>2 DEF OnWire
  <2>3. \A i \in Contents : wire'[i].n = wire[i].n /\ i < n /\ i \in Nat /\ wire[i].n \in Nat
    BY <1>1, <1>4, <1>6, <1>9
  <2>4. wire'[n].n = cursor /\ n \in Nat
    BY <1>1, <1>3, <1>5, <1>11 DEF n
  <2> HIDE DEF Contents, Sending, f
  <2>5. \A i, j \in Contents' : i < j => wire'[i].n < wire'[j].n
    <3> SUFFICES ASSUME NEW i \in Contents', NEW j \in Contents', i < j PROVE wire'[i].n < wire'[j].n
      OBVIOUS
    <3>1. i \in Contents
      BY <2>1, <2>3, <2>4
    <3> QED
      BY <1>8, <2>1, <2>3, <2>4, <3>1
  <2>6. cursor >= client.next
    <3>1. CASE cursor = client.next
      BY <1>7, <3>1
    <3>2. ASSUME NEW j \in Contents, wire[j].n + 1 = cursor PROVE cursor >= client.next
      BY <1>0, <1>7, <1>8, <2>3, <3>2
    <3> QED
      BY <1>8, <3>1, <3>2
  <2>7. \A i \in Contents' :
          /\ wire'[i].n >= client'.next
          /\ wire'[i].n = client'.next \/ \E j \in Contents' : j < i /\ wire'[j].n + 1 = wire'[i].n
    <3> SUFFICES ASSUME NEW i \in Contents'
                 PROVE  /\ wire'[i].n >= client'.next
                        /\ \/ wire'[i].n = client'.next
                           \/ \E j \in Contents' : j < i /\ wire'[j].n + 1 = wire'[i].n
      OBVIOUS
    <3>1. CASE i \in Contents
      BY <1>2, <1>8, <2>1, <2>3, <3>1
    <3>2. CASE i = n
      BY <1>2, <1>8, <2>1, <2>3, <2>4, <2>6, <3>2
    <3> QED
      BY <2>1, <3>1, <3>2
  <2>8. Sending' = cursor + 1
    BY <1>5, <1>11
  <2>9. /\ \A i \in Contents' : wire'[i].n < Sending'
        /\ \E j \in Contents' : wire'[j].n + 1 = Sending'
    BY <1>0, <1>8, <2>1, <2>3, <2>4, <2>8
  <2>10. phase' = "Accepted" /\ write'.frame.kind = "Content"
    BY <1>2, <1>5, <1>11 DEF f
  <2> QED
    BY <2>2, <2>5, <2>7, <2>9, <2>10 DEF ContentNumbered
<1> QED
  BY <1>10, <1>11

(* The first bytes of a frame go out.                                      *)
LEMMA EncodedModes ==
  ASSUME TransportInv, AnswersConserved, ModesInv, Encoded
  PROVE  ModesInv'
<1> DEFINE f == write.frame
           n == Len(wire) + 1
<1>0. /\ Writing /\ write.stage = "job" /\ wire \in Seq(Frames) /\ f \in Frames /\ ~f.whole
      /\ write \in Writes /\ stream = "writing"
  BY Parts, WriteFacts DEF Encoded, Surroundings, StreamOwned
<1>1. /\ DOMAIN wire' = 1..n /\ DOMAIN wire = 1..Len(wire) /\ wire'[n] = f
      /\ \A i \in DOMAIN wire : wire'[i] = wire[i]
  BY <1>0, Appended DEF Encoded
<1>2. /\ UNCHANGED <<client, inbox, phase, stream, encryptor, decryptor, compression, reading, pc>>
      /\ write'.stage = "socket" /\ write'.frame = f
  BY <1>0 DEF Encoded, login, link, Writes
<1>3. Len(wire) \in Nat /\ \A i : i \in 1..n <=> i \in 1..Len(wire) \/ i = n
  BY <1>0
<1>4. n \in Nat /\ n \notin DOMAIN wire /\ (\A i \in DOMAIN wire : i \in Nat /\ i < n)
  BY <1>1, <1>3
<1>5. /\ f.comp = (client.comp \/ OnWire("SetCompression"))
      /\ f.kind # "LoginDisconnect" =>
           /\ f.enc = client.enc /\ Protocol(f) = client.protocol
           /\ ~OnWire("Challenge") /\ ~OnWire("Finished")
           /\ "Key" \notin client.owes /\ "Ack" \notin client.owes
      /\ f.kind = "Challenge" => phase = "Key" /\ Going /\ ~client.enc
      /\ f.kind = "Finished" => phase = "WritingFinished"
      /\ f.kind = "LoginDisconnect" => ~Going
  BY <1>0, NextFrame
<1> HIDE DEF n, f
<1>6. WireModes'
  <2> SUFFICES ASSUME NEW i \in DOMAIN wire'
               PROVE  /\ wire'[i].comp =
                           (client.comp \/ \E j \in DOMAIN wire' :
                                             j < i /\ wire'[j].kind = "SetCompression")
                      /\ wire'[i].kind # "LoginDisconnect" =>
                           wire'[i].enc = client.enc /\ Protocol(wire'[i]) = client.protocol
                      /\ wire'[i].kind \in {"Challenge", "Finished"} =>
                           \A j \in DOMAIN wire' : i < j => wire'[j].kind = "LoginDisconnect"
                      /\ wire'[i].kind = "Challenge" => ~client.enc
    BY <1>2 DEF WireModes, Protocol
  <2>1. CASE i = n
    <3>1. (\E j \in DOMAIN wire' : j < i /\ wire'[j].kind = "SetCompression") <=> OnWire("SetCompression")
      BY <1>1, <1>3, <1>4, <2>1 DEF OnWire
    <3>2. \A j \in DOMAIN wire' : ~(i < j)
      BY <1>1, <1>3, <1>4, <2>1
    <3> QED
      BY <1>1, <1>5, <2>1, <3>1, <3>2
  <2>2. CASE i \in DOMAIN wire
    <3>1. wire'[i] = wire[i] /\ i < n /\ i \in Nat
      BY <1>1, <1>4, <2>2
    <3>2. (\E j \in DOMAIN wire' : j < i /\ wire'[j].kind = "SetCompression") <=>
            (\E j \in DOMAIN wire : j < i /\ wire[j].kind = "SetCompression")
      BY <1>1, <1>3, <1>4, <3>1
    <3>3. wire[i].comp = (client.comp \/ \E j \in DOMAIN wire : j < i /\ wire[j].kind = "SetCompression")
      BY <2>2 DEF ModesInv, WireModes
    <3>4. ASSUME wire[i].kind \in {"Challenge", "Finished"}, NEW j \in DOMAIN wire', i < j
          PROVE  wire'[j].kind = "LoginDisconnect"
      <4>1. CASE j = n
        BY <1>1, <1>5, <2>2, <3>4, <4>1 DEF OnWire
      <4>2. CASE j \in DOMAIN wire
        BY <1>1, <2>2, <3>4, <4>2 DEF ModesInv, WireModes
      <4> QED
        BY <1>1, <1>3, <4>1, <4>2
    <3>5. /\ wire[i].kind # "LoginDisconnect" =>
               wire[i].enc = client.enc /\ Protocol(wire[i]) = client.protocol
          /\ wire[i].kind = "Challenge" => ~client.enc
      BY <2>2 DEF ModesInv, WireModes
    <3> QED
      BY <3>1, <3>2, <3>3, <3>4, <3>5
  <2> QED
    BY <1>1, <1>3, <2>1, <2>2
<1>7. SwitchOnAnswer'
  <2>1. "Key" \in client.owes \/ "Ack" \in client.owes =>
          \A i \in DOMAIN wire' : wire'[i].kind = "LoginDisconnect"
    BY <1>1, <1>3, <1>5 DEF ModesInv, SwitchOnAnswer
  <2> QED
    BY <1>2, <2>1 DEF ModesInv, SwitchOnAnswer, Arriving
<1>8. \A k : OnWire(k)' <=> OnWire(k) \/ f.kind = k
  BY <1>1, <1>3 DEF OnWire
<1>9. Sealed' = Sealed /\ Writing'
  BY <1>0, <1>2 DEF Sealed, Writing, f
<1>10. ModesOfPhase'
  <2> HIDE DEF Sealed, OnWire
  <2> QED
    BY <1>2, <1>5, <1>8, <1>9 DEF ModesInv, ModesOfPhase, Accepted, Going, Login, Late
<1>11. CompressionSwitched'
  <2>1. (\E i \in DOMAIN wire' : wire'[i].kind = "SetCompression" /\ wire'[i].whole) <=>
          (\E i \in DOMAIN wire : wire[i].kind = "SetCompression" /\ wire[i].whole)
    BY <1>0, <1>1, <1>3, <1>4 DEF f
  <2>2. compression = (client.comp \/ \E i \in DOMAIN wire :
                                        wire[i].kind = "SetCompression" /\ wire[i].whole)
    BY <1>0 DEF ModesInv, CompressionSwitched
  <2>3. write'.frame.comp = compression'
    BY <1>0, <1>2 DEF ModesInv, CompressionSwitched, f
  <2> QED
    BY <1>2, <2>1, <2>2, <2>3 DEF CompressionSwitched
<1>12. AnswersReadable' /\ FramesReadable'
  <2> HIDE DEF Sealed
  <2> QED
    BY <1>2, <1>9 DEF ModesInv, AnswersReadable, FramesReadable, Going
<1>13. ContentNumbered'
  BY EncodedNumbers
<1> QED
  BY <1>6, <1>7, <1>10, <1>11, <1>12, <1>13 DEF ModesInv

(* The last byte is out.                                                   *)
LEMMA WrittenModes ==
  ASSUME TransportInv, AnswersConserved, ModesInv, Written
  PROVE  ModesInv'
<1> DEFINE f == write.frame
<1>0. /\ Writing /\ write.stage = "socket" /\ stream = "writing" /\ wire' = LastDone(wire)
      /\ UNCHANGED <<inbox, client>> /\ f \in Frames /\ ~f.whole /\ Control
  BY Parts, WriteFacts DEF Written, StreamOwned, LastDone
<1>1. /\ DOMAIN wire' = 1..Len(wire) /\ Len(wire) \in Nat \ {0} /\ DOMAIN wire = 1..Len(wire)
      /\ wire[Len(wire)] = f /\ wire'[Len(wire)] = [f EXCEPT !.whole = TRUE]
      /\ \A i \in 1..(Len(wire) - 1) : wire'[i] = wire[i] /\ wire[i].whole
      /\ AllWhole'
  BY <1>0, WrittenWire
<1>2. SameWire
  <2>1. /\ [f EXCEPT !.whole = TRUE].kind = f.kind /\ [f EXCEPT !.whole = TRUE].n = f.n
        /\ [f EXCEPT !.whole = TRUE].enc = f.enc /\ [f EXCEPT !.whole = TRUE].comp = f.comp
    BY <1>0 DEF Frames
  <2> SUFFICES ASSUME NEW i \in DOMAIN wire
               PROVE  /\ wire'[i].kind = wire[i].kind /\ wire'[i].n = wire[i].n
                      /\ wire'[i].enc = wire[i].enc /\ wire'[i].comp = wire[i].comp
    BY <1>1 DEF SameWire
  <2>2. CASE i = Len(wire)
    BY <1>1, <2>1, <2>2
  <2>3. CASE i # Len(wire)
    BY <1>1, <2>3, BeforeLast
  <2> QED
    BY <2>2, <2>3
<1>3. CASE pc = "farewell"
  BY <1>0, <1>2, <1>3, ShutModes DEF Written
<1>4. CASE pc = "write"
  <2>0. /\ Going /\ stream' = "held" /\ encryptor' = CipherOf(f)
        /\ UNCHANGED <<decryptor, reading>> /\ AfterWrite(f.kind)
    BY <1>4 DEF Written, Going
  <2>1. Sealed' = Sealed
    BY <1>0, <2>0 DEF Sealed, CipherOf, Frames
  <2>2. \/ f.kind = "Challenge" /\ phase = "Key"
        \/ f.kind = "SetCompression" /\ phase = "Verifying"
        \/ f.kind = "Finished" /\ phase = "WritingFinished"
        \/ f.kind \in {"Content", "KeepAlive"} /\ phase = "Accepted"
    BY <1>0, <1>4 DEF Control, PhaseOfTask, Accepted
  <2>3. compression' = (compression \/ f.kind = "SetCompression")
    <3>1. compression \in BOOLEAN
      BY Parts DEF Surroundings
    <3> QED
      BY <2>0, <2>2, <3>1 DEF AfterWrite
  <2>4. Writing' => write'.stage = "start"
    BY <2>0, <2>2 DEF AfterWrite, Publish, Farewell, Starting, Writing
  <2>5. CompressionSwitched'
    <3>1. compression = (client.comp \/ \E i \in DOMAIN wire :
                                          wire[i].kind = "SetCompression" /\ wire[i].whole)
      BY <1>0 DEF ModesInv, CompressionSwitched
    <3>2. (\E i \in DOMAIN wire' : wire'[i].kind = "SetCompression" /\ wire'[i].whole) <=>
            OnWire("SetCompression")
      BY <1>1, <1>2 DEF OnWire, SameWire, AllWhole
    <3>3. OnWire("SetCompression") <=>
            \/ \E i \in DOMAIN wire : wire[i].kind = "SetCompression" /\ wire[i].whole
            \/ f.kind = "SetCompression"
      <4>1. \A i \in DOMAIN wire : i = Len(wire) \/ wire[i].whole
        BY <1>1, BeforeLast
      <4> QED
        BY <1>1, <4>1 DEF OnWire
    <3> QED
      BY <1>0, <2>3, <2>4, <3>1, <3>2, <3>3 DEF CompressionSwitched
  <2>6. CASE Farewell("Verifying")
    <3>1. phase = "Verifying"
      BY <1>4, <2>0, <2>2, <2>6 DEF AfterWrite, Farewell
    <3>2. Sending = cursor
      BY <2>2, <3>1 DEF Sending
    <3> QED
      BY <1>0, <1>2, <2>0, <2>1, <2>5, <2>6, <3>1, <3>2, FarewellModes
  <2>7. CASE ~Farewell("Verifying")
    <3>1. /\ \/ phase' = phase /\ pc' \in {"receive", "loop"}
             \/ phase = "Verifying" /\ phase' = "WritingFinished"
             \/ phase = "WritingFinished" /\ phase' = "AwaitingAcknowledgement"
          /\ Writing' => write'.frame.kind # "LoginDisconnect"
      BY <2>0, <2>2, <2>7 DEF AfterWrite, Publish, Starting, Writing
    <3>2. Sending' = Sending
      <4>1. cursor' = IF f.kind = "Content" THEN cursor + 1 ELSE cursor
        BY <2>0, <2>2, <2>7 DEF AfterWrite, Publish, outbound_written, configuration
      <4> QED
        BY <1>0, <2>4, <4>1 DEF Sending
    <3>3. NoneNew("Key") /\ NoneNew("Ack")
      BY <1>0, <2>0 DEF NoneNew, Arriving
    <3>4. WireModes' /\ SwitchOnAnswer' /\ (\A kind : OnWire(kind)' <=> OnWire(kind))
      BY <1>0, <1>2, <3>3, SameWireModes DEF ModesInv
    <3>5. ContentNumbered'
      BY <1>0, <1>2, <2>2, <3>1, <3>2, SameNumbers DEF ModesInv
    <3>6. ModesOfPhase'
      <4> HIDE DEF Sealed, OnWire, f
      <4> QED
        BY <1>0, <1>4, <2>0, <2>1, <2>2, <2>3, <3>1, <3>4
           DEF ModesInv, ModesOfPhase, Accepted, Going, Login, Late
    <3>7. AnswersReadable'
      <4>1. CASE f.kind # "SetCompression"
        <5> HIDE DEF Sealed
        <5>1. compression' = compression
          BY <2>3, <4>1, Parts DEF Surroundings
        <5> QED
          BY <1>0, <2>0, <2>1, <5>1 DEF ModesInv, AnswersReadable
      <4>2. CASE f.kind = "SetCompression"
        <5>1. \A k \in ReplyKinds : ~Awaits(k)
          BY <1>0, <2>2, <4>2 DEF ReplyKinds, Awaits, Control, ContentOrder
        <5>2. \A k \in ReplyKinds : ~Arriving(k)
          BY <2>0, <5>1, OnePlace
        <5> QED
          BY <1>0, <2>0, <5>2 DEF AnswersReadable, Arriving
      <4> QED
        BY <4>1, <4>2
    <3>8. FramesReadable'
      BY <1>0, <2>0 DEF ModesInv, FramesReadable
    <3> QED
      BY <2>5, <3>4, <3>5, <3>6, <3>7, <3>8 DEF ModesInv
  <2> QED
    BY <2>6, <2>7
<1> QED
  BY <1>0, <1>3, <1>4 DEF Writing

(* What is left on the wire when its head is taken.                        *)
LEMMA Shifted ==
  ASSUME NEW S, NEW q \in Seq(S), q # <<>>
  PROVE  /\ Len(q) \in Nat \ {0} /\ DOMAIN q = 1..Len(q) /\ 1 \in DOMAIN q
         /\ DOMAIN Tail(q) = 1..(Len(q) - 1)
         /\ \A i \in DOMAIN Tail(q) : /\ i \in Nat \ {0} /\ i + 1 \in DOMAIN q
                                      /\ Tail(q)[i] = q[i + 1]
         /\ \A j \in DOMAIN q : j \in Nat /\ j >= 1
         /\ \A j \in DOMAIN q : j = 1 \/ (j - 1 \in DOMAIN Tail(q) /\ (j - 1) + 1 = j)
OBVIOUS

(* The client takes its next piece of configuration, and no other.         *)
LEMMA ReceivedNumbers ==
  ASSUME TransportInv, ModesInv, ClientReceive
  PROVE  ContentNumbered' /\ (wire[1].kind = "Content" => wire[1].n = client.next)
<1> DEFINE c == wire[1].kind = "Content"
<1>0. /\ wire \in Seq(Frames) /\ wire # <<>> /\ client \in Clients /\ wire' = Tail(wire)
      /\ UNCHANGED <<phase, stream, pc, write, cursor>> /\ cursor \in Nat
  <2>1. cursor \in Nat
    BY Parts, Limits DEF Control, TaskTypes
  <2> QED
    BY <2>1, Parts DEF ClientReceive, Surroundings, login, transport, configuration
<1>1. /\ 1 \in DOMAIN wire
      /\ \A i \in DOMAIN wire' : i \in Nat \ {0} /\ i + 1 \in DOMAIN wire /\ wire'[i] = wire[i + 1]
      /\ \A j \in DOMAIN wire : j \in Nat /\ j >= 1
      /\ \A j \in DOMAIN wire : j = 1 \/ (j - 1 \in DOMAIN wire' /\ (j - 1) + 1 = j)
  BY <1>0, Shifted
<1>2. client'.next = IF c THEN client.next + 1 ELSE client.next
  <2>1. Head(wire) = wire[1] /\ wire[1] \in Frames
    BY <1>0, <1>1
  <2>2. client' = After(client, wire[1])
    BY <2>1 DEF ClientReceive, After
  <2> QED
    BY <1>0, <2>1, <2>2, Received
<1>3. Sending' = Sending /\ Sending \in Nat
  BY <1>0 DEF Sending, Writing
<1>4. client.next \in Nat /\ \A j \in DOMAIN wire : wire[j].n \in Nat
  <2>1. \A j \in DOMAIN wire : wire[j] \in Frames
    BY <1>0
  <2> QED
    BY <1>0, <2>1 DEF Clients, Frames
<1>5. ContentNumbered
  BY DEF ModesInv
<1>6. Contents \subseteq DOMAIN wire /\ (1 \in Contents <=> c)
  BY <1>1 DEF Contents
<1>7. /\ \A i \in Contents' : i \in Nat \ {0} /\ i + 1 \in Contents /\ wire'[i].n = wire[i + 1].n
      /\ \A j \in Contents : j = 1 \/ (j - 1 \in Contents' /\ (j - 1) + 1 = j)
  BY <1>1 DEF Contents
<1>8. OnWire("LoginDisconnect")' => OnWire("LoginDisconnect")
  BY <1>1 DEF OnWire
<1>9. Writing' = Writing
  BY <1>0 DEF Writing
<1> HIDE DEF Contents, Sending
<1>10. c => wire[1].n = client.next
  BY <1>1, <1>5, <1>6 DEF ContentNumbered
<1>11. \A i \in Contents' : c => wire'[i].n > client.next
  <2> SUFFICES ASSUME NEW i \in Contents', c PROVE wire'[i].n > client.next
    OBVIOUS
  <2>1. 1 < i + 1 /\ i + 1 \in Contents /\ 1 \in Contents
    BY <1>6, <1>7
  <2>2. wire[1].n < wire[i + 1].n
    BY <1>5, <2>1 DEF ContentNumbered
  <2>3. wire[1].n \in Nat /\ wire[i + 1].n \in Nat
    BY <1>1, <1>4, <1>6, <2>1
  <2> QED
    BY <1>4, <1>7, <1>10, <2>2, <2>3
<1>12. \A i, j \in Contents' : i < j => wire'[i].n < wire'[j].n
  <2> SUFFICES ASSUME NEW i \in Contents', NEW j \in Contents', i < j PROVE wire'[i].n < wire'[j].n
    OBVIOUS
  <2>1. i + 1 \in Contents /\ j + 1 \in Contents /\ i + 1 < j + 1
    BY <1>7
  <2> QED
    BY <1>5, <1>7, <2>1 DEF ContentNumbered
<1>13. \A i \in Contents' :
         /\ wire'[i].n >= client'.next
         /\ wire'[i].n = client'.next \/ \E j \in Contents' : j < i /\ wire'[j].n + 1 = wire'[i].n
  <2> SUFFICES ASSUME NEW i \in Contents'
               PROVE  /\ wire'[i].n >= client'.next
                      /\ \/ wire'[i].n = client'.next
                         \/ \E j \in Contents' : j < i /\ wire'[j].n + 1 = wire'[i].n
    OBVIOUS
  <2>1. i + 1 \in Contents /\ wire'[i].n = wire[i + 1].n /\ wire'[i].n \in Nat /\ i \in Nat
    BY <1>4, <1>6, <1>7
  <2>2. wire[i + 1].n >= client.next
    BY <1>5, <2>1 DEF ContentNumbered
  <2>3. wire'[i].n >= client'.next
    BY <1>2, <1>4, <1>11, <2>1, <2>2
  <2>4. CASE wire[i + 1].n = client.next
    <3>1. ~c
      BY <1>4, <1>11, <2>1, <2>4
    <3> QED
      BY <1>2, <2>1, <2>3, <2>4, <3>1
  <2>5. ASSUME NEW j \in Contents, j < i + 1, wire[j].n + 1 = wire[i + 1].n
        PROVE  \/ wire'[i].n = client'.next
               \/ \E m \in Contents' : m < i /\ wire'[m].n + 1 = wire'[i].n
    <3>1. CASE j = 1
      BY <1>2, <1>6, <1>10, <2>1, <2>5, <3>1
    <3>2. CASE j # 1
      <4>1. j - 1 \in Contents' /\ (j - 1) + 1 = j /\ j \in Nat
        BY <1>1, <1>6, <1>7, <3>2
      <4>2. wire'[j - 1].n = wire[j].n
        BY <1>7, <4>1
      <4>3. j - 1 < i
        BY <2>1, <2>5, <4>1
      <4> QED
        BY <2>1, <2>5, <4>1, <4>2, <4>3
    <3> QED
      BY <3>1, <3>2
  <2>6. \/ wire[i + 1].n = client.next
        \/ \E j \in Contents : j < i + 1 /\ wire[j].n + 1 = wire[i + 1].n
    BY <1>5, <2>1 DEF ContentNumbered
  <2> QED
    BY <2>3, <2>4, <2>5, <2>6
<1>14. stream' # "none" =>
         /\ \A i \in Contents' : wire'[i].n < Sending'
         /\ Sending' = client'.next \/ \E j \in Contents' : wire'[j].n + 1 = Sending'
  <2> SUFFICES ASSUME stream # "none"
               PROVE  /\ \A i \in Contents' : wire'[i].n < Sending
                      /\ Sending = client'.next \/ \E j \in Contents' : wire'[j].n + 1 = Sending
    BY <1>0, <1>3
  <2>1. \A i \in Contents : wire[i].n < Sending
    BY <1>5 DEF ContentNumbered
  <2>2. \A i \in Contents' : wire'[i].n < Sending
    BY <1>7, <2>1
  <2>3. CASE Sending = client.next
    <3>1. ~c
      BY <1>3, <1>4, <1>6, <1>10, <2>1, <2>3
    <3> QED
      BY <1>2, <2>2, <2>3, <3>1
  <2>4. ASSUME NEW j \in Contents, wire[j].n + 1 = Sending
        PROVE  Sending = client'.next \/ \E m \in Contents' : wire'[m].n + 1 = Sending
    <3>1. CASE j = 1
      BY <1>2, <1>6, <1>10, <2>4, <3>1
    <3>2. CASE j # 1
      <4>1. j - 1 \in Contents' /\ (j - 1) + 1 = j
        BY <1>7, <3>2
      <4>2. wire'[j - 1].n = wire[j].n
        BY <1>7, <4>1
      <4> QED
        BY <2>4, <4>1, <4>2
    <3> QED
      BY <3>1, <3>2
  <2>5. Sending = client.next \/ \E j \in Contents : wire[j].n + 1 = Sending
    BY <1>5 DEF ContentNumbered
  <2> QED
    BY <2>2, <2>3, <2>4, <2>5
<1>15. \/ phase' \notin {"Accepted", "Closed"}
       \/ Writing' /\ write'.frame.kind = "LoginDisconnect"
       \/ OnWire("LoginDisconnect")'
       => client'.next = 0 /\ Contents' = {}
  <2> SUFFICES ASSUME \/ phase \notin {"Accepted", "Closed"}
                      \/ Writing /\ write.frame.kind = "LoginDisconnect"
                      \/ OnWire("LoginDisconnect")
               PROVE  client'.next = 0 /\ Contents' = {}
    BY <1>0, <1>8, <1>9
  <2>1. client.next = 0 /\ Contents = {}
    BY <1>5 DEF ContentNumbered
  <2> QED
    BY <1>2, <1>6, <1>7, <2>1
<1> QED
  BY <1>10, <1>12, <1>13, <1>14, <1>15 DEF ContentNumbered

(* The client can read what it takes, and switches as it is told.          *)
LEMMA ClientReceiveModes ==
  ASSUME TransportInv, ModesInv, ClientReceive
  PROVE  ModesInv'
<1> DEFINE f == wire[1]
<1>0. /\ wire \in Seq(Frames) /\ wire # <<>> /\ client \in Clients /\ wire' = Tail(wire) /\ f.whole
      /\ UNCHANGED <<phase, pc, stream, encryptor, decryptor, compression, reading, write, inbox>>
  BY Parts DEF ClientReceive, Surroundings, login, transport
<1>1. /\ 1 \in DOMAIN wire
      /\ \A i \in DOMAIN wire' : i \in Nat \ {0} /\ i + 1 \in DOMAIN wire /\ wire'[i] = wire[i + 1]
      /\ \A j \in DOMAIN wire : j \in Nat /\ j >= 1
      /\ \A j \in DOMAIN wire : j = 1 \/ (j - 1 \in DOMAIN wire' /\ (j - 1) + 1 = j)
  BY <1>0, Shifted
<1>2. Head(wire) = f /\ f \in Frames
  BY <1>0, <1>1
<1>3. /\ client'.protocol = client.protocol /\ client'.enc = client.enc
      /\ client'.comp = (client.comp \/ f.kind = "SetCompression")
      /\ client'.owes = client.owes \cup Asks(f)
      /\ client'.garbled = (client.garbled \/ ~Readable(f))
  <2>1. client' = After(client, f)
    BY <1>2 DEF ClientReceive, After
  <2> QED
    BY <1>0, <1>2, <2>1, Received
<1>4. ContentNumbered' /\ (f.kind = "Content" => f.n = client.next)
  BY ReceivedNumbers
<1>5. /\ f.comp = client.comp
      /\ f.kind # "LoginDisconnect" => f.enc = client.enc /\ Protocol(f) = client.protocol
      /\ f.kind \in {"Challenge", "Finished"} =>
           \A j \in DOMAIN wire : 1 < j => wire[j].kind = "LoginDisconnect"
      /\ f.kind = "Challenge" => ~client.enc
  <2>1. ~ \E j \in DOMAIN wire : j < 1 /\ wire[j].kind = "SetCompression"
    BY <1>1
  <2>2. client.comp \in BOOLEAN
    BY <1>0 DEF Clients
  <2> QED
    BY <1>1, <2>1, <2>2 DEF ModesInv, WireModes
<1>6. Readable(f)
  <2>1. f.kind = "LoginDisconnect" => client.next = 0
    BY <1>1 DEF ModesInv, ContentNumbered, OnWire
  <2> QED
    BY <1>4, <1>5, <2>1 DEF Readable
<1>7. /\ "Key" \in client'.owes => "Key" \in client.owes \/ f.kind = "Challenge"
      /\ "Ack" \in client'.owes => "Ack" \in client.owes \/ f.kind = "Finished"
  BY <1>3 DEF Asks
<1>8. \A k : OnWire(k)' => OnWire(k)
  BY <1>1 DEF OnWire
<1>9. OnWire(f.kind)
  BY <1>1 DEF OnWire
<1> HIDE DEF f
<1>10. WireModes'
  <2> SUFFICES ASSUME NEW i \in DOMAIN wire'
               PROVE  /\ wire'[i].comp =
                           (client'.comp \/ \E j \in DOMAIN wire' :
                                              j < i /\ wire'[j].kind = "SetCompression")
                      /\ wire'[i].kind # "LoginDisconnect" =>
                           wire'[i].enc = client'.enc /\ Protocol(wire'[i]) = client'.protocol
                      /\ wire'[i].kind \in {"Challenge", "Finished"} =>
                           \A j \in DOMAIN wire' : i < j => wire'[j].kind = "LoginDisconnect"
                      /\ wire'[i].kind = "Challenge" => ~client'.enc
    BY DEF WireModes, Protocol
  <2>1. i + 1 \in DOMAIN wire /\ wire'[i] = wire[i + 1] /\ i \in Nat \ {0}
    BY <1>1
  <2>2. /\ wire[i + 1].comp = (client.comp \/ \E j \in DOMAIN wire :
                                 j < i + 1 /\ wire[j].kind = "SetCompression")
        /\ wire[i + 1].kind # "LoginDisconnect" =>
             wire[i + 1].enc = client.enc /\ Protocol(wire[i + 1]) = client.protocol
        /\ wire[i + 1].kind \in {"Challenge", "Finished"} =>
             \A j \in DOMAIN wire : i + 1 < j => wire[j].kind = "LoginDisconnect"
        /\ wire[i + 1].kind = "Challenge" => ~client.enc
    BY <2>1 DEF ModesInv, WireModes
  <2>3. (\E j \in DOMAIN wire : j < i + 1 /\ wire[j].kind = "SetCompression") <=>
          \/ f.kind = "SetCompression"
          \/ \E j \in DOMAIN wire' : j < i /\ wire'[j].kind = "SetCompression"
    <3>1. ASSUME NEW j \in DOMAIN wire, j < i + 1, wire[j].kind = "SetCompression"
          PROVE  \/ f.kind = "SetCompression"
                 \/ \E m \in DOMAIN wire' : m < i /\ wire'[m].kind = "SetCompression"
      <4>1. CASE j = 1
        BY <3>1, <4>1 DEF f
      <4>2. CASE j # 1
        <5>1. j - 1 \in DOMAIN wire' /\ (j - 1) + 1 = j /\ j \in Nat
          BY <1>1, <4>2
        <5>2. wire'[j - 1] = wire[j] /\ j - 1 < i
          BY <1>1, <2>1, <3>1, <5>1
        <5> QED
          BY <3>1, <5>1, <5>2
      <4> QED
        BY <4>1, <4>2
    <3>2. f.kind = "SetCompression" => \E j \in DOMAIN wire : j < i + 1 /\ wire[j].kind = "SetCompression"
      BY <1>1, <2>1 DEF f
    <3>3. ASSUME NEW j \in DOMAIN wire', j < i, wire'[j].kind = "SetCompression"
          PROVE  \E m \in DOMAIN wire : m < i + 1 /\ wire[m].kind = "SetCompression"
      <4>1. j + 1 \in DOMAIN wire /\ wire'[j] = wire[j + 1] /\ j + 1 < i + 1
        BY <1>1, <2>1, <3>3
      <4> QED
        BY <3>3, <4>1
    <3> QED
      BY <3>1, <3>2, <3>3
  <2>4. ASSUME wire'[i].kind \in {"Challenge", "Finished"}, NEW j \in DOMAIN wire', i < j
        PROVE  wire'[j].kind = "LoginDisconnect"
    <3>1. j + 1 \in DOMAIN wire /\ wire'[j] = wire[j + 1] /\ i + 1 < j + 1
      BY <1>1, <2>1, <2>4
    <3> QED
      BY <2>1, <2>2, <2>4, <3>1
  <2> QED
    BY <1>3, <2>1, <2>2, <2>3, <2>4
<1>11. SwitchOnAnswer'
  <2>1. "Key" \in client'.owes \/ "Ack" \in client'.owes =>
          \A i \in DOMAIN wire' : wire'[i].kind = "LoginDisconnect"
    <3> SUFFICES ASSUME "Key" \in client'.owes \/ "Ack" \in client'.owes, NEW i \in DOMAIN wire'
                 PROVE  wire'[i].kind = "LoginDisconnect"
      OBVIOUS
    <3>1. i + 1 \in DOMAIN wire /\ wire'[i] = wire[i + 1] /\ 1 < i + 1
      BY <1>1
    <3>2. CASE "Key" \in client.owes \/ "Ack" \in client.owes
      BY <3>1, <3>2 DEF ModesInv, SwitchOnAnswer
    <3>3. CASE f.kind \in {"Challenge", "Finished"}
      BY <1>5, <3>1, <3>3
    <3> QED
      BY <1>7, <3>2, <3>3
  <2>2. "Key" \in client'.owes => ~client'.enc
    BY <1>3, <1>5, <1>7 DEF ModesInv, SwitchOnAnswer
  <2>3. /\ Arriving("Key")' => client'.enc
        /\ Arriving("Ack")' => client'.protocol = "configuration"
    BY <1>0, <1>3 DEF ModesInv, SwitchOnAnswer, Arriving
  <2> QED
    BY <2>1, <2>2, <2>3 DEF SwitchOnAnswer
<1>12. Sealed' = Sealed /\ Writing' = Writing
  BY <1>0 DEF Sealed, Writing
<1>13. ModesOfPhase'
  <2> HIDE DEF Sealed, OnWire
  <2> QED
    BY <1>0, <1>3, <1>7, <1>8, <1>9, <1>12 DEF ModesInv, ModesOfPhase, Accepted, Going
<1>14. CompressionSwitched'
  <2>1. (\E i \in DOMAIN wire : wire[i].kind = "SetCompression" /\ wire[i].whole) <=>
          \/ f.kind = "SetCompression"
          \/ \E i \in DOMAIN wire' : wire'[i].kind = "SetCompression" /\ wire'[i].whole
    <3>1. ASSUME NEW j \in DOMAIN wire, wire[j].kind = "SetCompression", wire[j].whole
          PROVE  \/ f.kind = "SetCompression"
                 \/ \E i \in DOMAIN wire' : wire'[i].kind = "SetCompression" /\ wire'[i].whole
      <4>1. CASE j = 1
        BY <3>1, <4>1 DEF f
      <4>2. CASE j # 1
        <5>1. j - 1 \in DOMAIN wire' /\ (j - 1) + 1 = j
          BY <1>1, <4>2
        <5>2. wire'[j - 1] = wire[j]
          BY <1>1, <5>1
        <5> QED
          BY <3>1, <5>1, <5>2
      <4> QED
        BY <4>1, <4>2
    <3>2. f.kind = "SetCompression" =>
            \E i \in DOMAIN wire : wire[i].kind = "SetCompression" /\ wire[i].whole
      BY <1>0, <1>1 DEF f
    <3>3. ASSUME NEW j \in DOMAIN wire', wire'[j].kind = "SetCompression", wire'[j].whole
          PROVE  \E i \in DOMAIN wire : wire[i].kind = "SetCompression" /\ wire[i].whole
      BY <1>1, <3>3
    <3> QED
      BY <3>1, <3>2, <3>3
  <2> QED
    BY <1>0, <1>3, <1>12, <2>1 DEF ModesInv, CompressionSwitched
<1>15. AnswersReadable'
  <2> HIDE DEF Sealed
  <2> QED
    BY <1>0, <1>12 DEF ModesInv, AnswersReadable, Going
<1>16. FramesReadable'
  BY <1>0, <1>3, <1>6 DEF ModesInv, FramesReadable
<1> QED
  BY <1>4, <1>10, <1>11, <1>13, <1>14, <1>15, <1>16 DEF ModesInv

(* An answer is sent in the modes the server reads in.                     *)
LEMMA ReplyModes ==
  ASSUME TransportInv, AnswersConserved, ModesInv, Going, NEW kind \in ReplyKinds,
         kind \in client.owes
  PROVE  client.comp = compression /\ client.enc = Sealed /\ Awaits(kind)
<1> USE DEF ModesInv
<1>0. /\ client.enc \in BOOLEAN /\ client.comp \in BOOLEAN /\ compression \in BOOLEAN
      /\ Sealed \in BOOLEAN /\ stream # "none" /\ Control
  <2>1. Control /\ Surroundings /\ stream # "none"
    BY Parts DEF StreamOwned, Going
  <2>2. Writing => write.frame.enc \in BOOLEAN
    BY WriteFacts DEF Frames
  <2>3. stream = "writing" => Writing
    BY <2>1, Parts DEF StreamOwned, Control, TaskTypes, Writing
  <2> QED
    BY <2>1, <2>2, <2>3 DEF Surroundings, Clients, Sealed
<1>1. Awaits(kind)
  BY OnePlace
<1>2. compression = (client.comp \/ \E i \in DOMAIN wire :
                                      wire[i].kind = "SetCompression" /\ wire[i].whole)
  BY <1>0 DEF CompressionSwitched
<1>3. CASE phase \in {"Hello", "Key"}
  <2>1. ~compression /\ ~Sealed
    BY <1>3 DEF ModesOfPhase, Login
  <2>2. ~client.enc
    <3>1. CASE phase = "Hello"
      BY <3>1 DEF ModesOfPhase
    <3>2. CASE phase = "Key"
      <4>1. kind = "Key"
        BY <1>0, <1>1, <3>2 DEF Awaits, ReplyKinds, Control, ContentOrder
      <4> QED
        BY <4>1 DEF SwitchOnAnswer
    <3> QED
      BY <1>3, <3>1, <3>2
  <2> QED
    BY <1>0, <1>1, <1>2, <2>1, <2>2
<1>4. CASE phase = "AwaitingAcknowledgement"
  <2>1. kind = "Ack"
    BY <1>0, <1>1, <1>4 DEF Awaits, ReplyKinds, Control, ContentOrder
  <2>2. ~ \E i \in DOMAIN wire : wire[i].kind = "SetCompression" /\ wire[i].whole
    BY <2>1 DEF SwitchOnAnswer
  <2>3. client.enc = Sealed
    BY <1>4 DEF ModesOfPhase, Late
  <2> QED
    BY <1>0, <1>1, <1>2, <2>2, <2>3
<1>5. CASE phase = "Accepted"
  <2>1. client.enc = Sealed /\ client.protocol = "configuration"
    BY <1>5 DEF ModesOfPhase, Late, Accepted
  <2>2. ~ \E i \in DOMAIN wire : wire[i].kind = "SetCompression" /\ wire[i].whole
    BY <2>1 DEF WireModes, Protocol, LoginKinds
  <2> QED
    BY <1>0, <1>1, <1>2, <2>1, <2>2
<1>6. phase \in {"Hello", "Key", "AwaitingAcknowledgement", "Accepted"}
  <2>1. phase # "Closed"
    BY GoingPhase
  <2> QED
    BY <1>0, <1>1, <2>1 DEF Awaits, ReplyKinds, Control, ContentOrder
<1> QED
  BY <1>3, <1>4, <1>5, <1>6

(* The client answers, and switches with Key and with its acknowledgement. *)
LEMMA ClientReplyModes ==
  ASSUME TransportInv, AnswersConserved, ModesInv, NEW kind \in ReplyKinds, ClientReply(kind)
  PROVE  ModesInv'
<1> DEFINE a == [kind |-> kind, enc |-> client.enc, comp |-> client.comp]
<1>0. /\ kind \in client.owes /\ client \in Clients /\ inbox \in Seq(Answers) /\ inbox' = Append(inbox, a)
      /\ UNCHANGED <<phase, pc, stream, encryptor, decryptor, compression, reading, write, wire, cursor>>
  BY Parts DEF ClientReply, Send, Surroundings, login, transport, configuration
<1>1. a \in Answers /\ a.kind = kind /\ a.enc = client.enc /\ a.comp = client.comp
  BY <1>0 DEF Answers, Clients
<1>2. /\ client'.owes = client.owes \ {kind} /\ client'.enc = (client.enc \/ kind = "Key")
      /\ client'.protocol = (IF kind = "Ack" THEN "configuration" ELSE client.protocol)
      /\ client'.comp = client.comp /\ client'.next = client.next /\ client'.garbled = client.garbled
  BY <1>0 DEF ClientReply, Clients
<1> HIDE DEF a
<1>3. /\ DOMAIN inbox' = 1..(Len(inbox) + 1) /\ DOMAIN inbox = 1..Len(inbox)
      /\ inbox'[Len(inbox) + 1] = a /\ \A i \in DOMAIN inbox : inbox'[i] = inbox[i]
  BY <1>0, <1>1, Appended
<1>4. \A i \in DOMAIN inbox' : i \in DOMAIN inbox \/ i = Len(inbox) + 1
  <2>1. Len(inbox) \in Nat
    BY <1>0
  <2> QED
    BY <1>3, <2>1
<1>5. \A k : Arriving(k)' => Arriving(k) \/ k = kind
  BY <1>0, <1>1, <1>3, <1>4 DEF Arriving
<1>6. kind \in {"Key", "Ack"} => \A i \in DOMAIN wire : wire[i].kind = "LoginDisconnect"
  BY <1>0 DEF ModesInv, SwitchOnAnswer
<1>7. client.enc \in BOOLEAN /\ (kind # "Key" => client'.enc = client.enc)
  BY <1>0, <1>2 DEF Clients
<1>8. WireModes'
  <2>1. CASE kind \in {"Key", "Ack"}
    BY <1>0, <1>2, <1>6, <2>1 DEF ModesInv, WireModes, Protocol
  <2>2. CASE kind \notin {"Key", "Ack"}
    BY <1>0, <1>2, <1>7, <2>2 DEF ModesInv, WireModes, Protocol
  <2> QED
    BY <2>1, <2>2
<1>9. SwitchOnAnswer'
  <2>1. "Key" \in client'.owes \/ "Ack" \in client'.owes =>
          \A i \in DOMAIN wire' : wire'[i].kind = "LoginDisconnect"
    BY <1>0, <1>2 DEF ModesInv, SwitchOnAnswer
  <2>2. "Key" \in client'.owes => ~client'.enc
    BY <1>2 DEF ModesInv, SwitchOnAnswer
  <2>3. /\ Arriving("Key")' => client'.enc
        /\ Arriving("Ack")' => client'.protocol = "configuration"
    BY <1>2, <1>5 DEF ModesInv, SwitchOnAnswer
  <2> QED
    BY <2>1, <2>2, <2>3 DEF SwitchOnAnswer
<1>10. Sealed' = Sealed /\ Writing' = Writing /\ Sending' = Sending /\ Going' = Going
  BY <1>0 DEF Sealed, Writing, Sending, Going
<1>11. \A k : OnWire(k)' <=> OnWire(k)
  BY <1>0 DEF OnWire
<1>12. Going => client.comp = compression /\ client.enc = Sealed /\ Awaits(kind)
  BY <1>0, ReplyModes
<1>13. ModesOfPhase'
  <2>1. kind = "Key" => phase \notin Late /\ (Going => phase = "Key" /\ pc = "receive")
    BY <1>0, <1>12 DEF ModesInv, ModesOfPhase, Awaits
  <2>2. kind = "Ack" /\ Going => phase = "AwaitingAcknowledgement"
    BY <1>12 DEF Awaits
  <2>3. ModesOfPhase /\ (pc = "write" => Going)
    BY DEF ModesInv, Going
  <2> HIDE DEF Sealed, OnWire, Going
  <2>4. CASE kind = "Key"
    BY <1>0, <1>2, <1>10, <1>11, <2>1, <2>3, <2>4 DEF ModesOfPhase, Accepted, Login, Late
  <2>5. CASE kind # "Key"
    <3>1. Going /\ phase \in Login \cup {"Verifying", "WritingFinished"} => client'.protocol = "login"
      BY <1>2, <2>2, <2>3 DEF ModesOfPhase, Login
    <3>2. Accepted => client'.protocol = "configuration"
      BY <1>2, <2>3 DEF ModesOfPhase
    <3> QED
      BY <1>0, <1>2, <1>7, <1>10, <1>11, <2>3, <2>5, <3>1, <3>2 DEF ModesOfPhase, Accepted
  <2> QED
    BY <2>4, <2>5
<1>14. CompressionSwitched'
  BY <1>0, <1>2, <1>10 DEF ModesInv, CompressionSwitched
<1>15. AnswersReadable'
  <2> HIDE DEF Sealed, Going
  <2>1. ASSUME Going, NEW i \in DOMAIN inbox', inbox'[i].kind \in ReplyKinds
        PROVE  inbox'[i].comp = compression /\ inbox'[i].enc = Sealed
    <3>1. CASE i \in DOMAIN inbox
      BY <1>3, <2>1, <3>1 DEF ModesInv, AnswersReadable
    <3>2. CASE i = Len(inbox) + 1
      BY <1>1, <1>3, <1>12, <2>1, <3>2
    <3> QED
      BY <1>4, <3>1, <3>2
  <2> QED
    BY <1>0, <1>10, <2>1 DEF ModesInv, AnswersReadable
<1>16. ContentNumbered'
  <2>1. Contents' = Contents
    BY <1>0 DEF Contents
  <2> HIDE DEF Contents, Sending
  <2> QED
    BY <1>0, <1>2, <1>10, <1>11, <2>1 DEF ModesInv, ContentNumbered
<1>17. FramesReadable'
  BY <1>0, <1>2 DEF ModesInv, FramesReadable
<1> QED
  BY <1>8, <1>9, <1>13, <1>14, <1>15, <1>16, <1>17 DEF ModesInv

(* What the client sends unasked is no answer.                             *)
LEMMA ClientStrayModes ==
  ASSUME TransportInv, ModesInv, NEW kind \in {"Unexpected", "Information"}, ClientStray(kind)
  PROVE  ModesInv'
<1> DEFINE a == [kind |-> kind, enc |-> client.enc, comp |-> client.comp]
<1>0. /\ client \in Clients /\ inbox \in Seq(Answers) /\ inbox' = Append(inbox, a)
      /\ UNCHANGED <<phase, pc, stream, encryptor, decryptor, compression, reading, write, wire,
                     client, cursor>>
  BY Parts DEF ClientStray, Send, Surroundings, login, transport, configuration
<1>1. a \in Answers /\ a.kind = kind /\ kind \notin ReplyKinds
  BY <1>0 DEF Answers, Clients, ReplyKinds
<1> HIDE DEF a
<1>2. /\ DOMAIN inbox' = 1..(Len(inbox) + 1) /\ DOMAIN inbox = 1..Len(inbox)
      /\ inbox'[Len(inbox) + 1] = a /\ \A i \in DOMAIN inbox : inbox'[i] = inbox[i]
  BY <1>0, <1>1, Appended
<1>3. \A i \in DOMAIN inbox' : i \in DOMAIN inbox \/ i = Len(inbox) + 1
  <2>1. Len(inbox) \in Nat
    BY <1>0
  <2> QED
    BY <1>2, <2>1
<1>4. NoneNew("Key") /\ NoneNew("Ack")
  BY <1>0, <1>1, <1>2, <1>3 DEF NoneNew, Arriving, ReplyKinds
<1>5. SameWire /\ Sealed' = Sealed /\ Writing' = Writing /\ Sending' = Sending /\ Going' = Going
  BY <1>0 DEF SameWire, Sealed, Writing, Sending, Going
<1>6. WireModes' /\ SwitchOnAnswer' /\ (\A k : OnWire(k)' <=> OnWire(k))
  BY <1>0, <1>4, <1>5, SameWireModes DEF ModesInv
<1>7. ContentNumbered'
  BY <1>0, <1>5, SameNumbers DEF ModesInv
<1>8. CompressionSwitched' /\ FramesReadable'
  BY <1>0, <1>5 DEF ModesInv, CompressionSwitched, FramesReadable
<1> HIDE DEF Sealed, OnWire, Going
<1>9. ModesOfPhase'
  BY <1>0, <1>5, <1>6 DEF ModesInv, ModesOfPhase, Accepted
<1>10. AnswersReadable'
  <2>1. ASSUME Going, NEW i \in DOMAIN inbox', inbox'[i].kind \in ReplyKinds
        PROVE  inbox'[i].comp = compression /\ inbox'[i].enc = Sealed
    BY <1>1, <1>2, <1>3, <2>1 DEF ModesInv, AnswersReadable
  <2> QED
    BY <1>0, <1>5, <2>1 DEF ModesInv, AnswersReadable
<1> QED
  BY <1>6, <1>7, <1>8, <1>9, <1>10 DEF ModesInv

(* A connection starts in the clear, uncompressed, with nothing sent.      *)
LEMMA ModesStart == Init => ModesInv
<1> SUFFICES ASSUME Init PROVE ModesInv
  OBVIOUS
<1>1. /\ client.owes = {"Hello"} /\ ~client.enc /\ ~client.comp /\ ~client.garbled
      /\ client.protocol = "login" /\ client.next = 0 /\ client.comp = FALSE
  BY DEF Init
<1>2. DOMAIN wire = {} /\ DOMAIN inbox = {} /\ reading.stage = "idle" /\ ~Writing /\ ~Sealed
  BY DEF Init, Idle, Writing, Sealed
<1>3. Contents = {} /\ Sending = 0 /\ \A k : ~OnWire(k) /\ ~Arriving(k)
  BY <1>2 DEF Contents, Sending, OnWire, Arriving, Init
<1>4. WireModes /\ SwitchOnAnswer
  BY <1>1, <1>2, <1>3 DEF WireModes, SwitchOnAnswer
<1> HIDE DEF OnWire, Sealed, Arriving, Contents, Sending
<1>5. ModesOfPhase
  BY <1>1, <1>2, <1>3 DEF Init, ModesOfPhase, Accepted, Late, Login
<1>6. CompressionSwitched /\ AnswersReadable /\ FramesReadable
  BY <1>1, <1>2 DEF Init, CompressionSwitched, AnswersReadable, FramesReadable
<1>7. ContentNumbered
  BY <1>1, <1>2, <1>3 DEF ContentNumbered
<1> QED
  BY <1>4, <1>5, <1>6, <1>7 DEF ModesInv

(* Every step keeps the modes of both ends together.                       *)
LEMMA ModesKept ==
  TransportInv /\ AnswersConserved /\ ModesInv /\ [Next]_vars => ModesInv'
<1> SUFFICES ASSUME TransportInv, AnswersConserved, ModesInv, [Next]_vars PROVE ModesInv'
  OBVIOUS
<1>1. CASE WriteStep
  BY <1>1, StartWriteModes, EncodedModes, WrittenModes, EndModes DEF WriteStep
<1>2. CASE ReadStep \/ ReadFails
  BY <1>2, ReadByteModes, ReadHeaderModes, ReadBodyModes, DeliverModes, EndModes DEF ReadStep
<1>3. ASSUME NEW ok \in BOOLEAN, KeyChecked(ok) \/ Authenticated(ok) PROVE ModesInv'
  BY <1>3, KeyCheckedModes, AuthenticatedModes
<1>4. CASE Tick \/ Stop \/ Abort
  BY <1>4, TickModes, EndModes
<1>5. CASE Loop \/ KeepAliveDue
  BY <1>5, LoopModes
<1>6. CASE Advance \/ Shutdown \/ UNCHANGED vars
  <2>1. UNCHANGED <<pc, phase, transport, cursor, peer>>
    BY <1>6 DEF Advance, Shutdown, vars, login, configuration
  <2> QED
    BY <2>1, QuietModes
<1>7. CASE ClientReceive
  BY <1>7, ClientReceiveModes
<1>8. ASSUME NEW kind \in ReplyKinds, ClientReply(kind) PROVE ModesInv'
  BY <1>8, ClientReplyModes
<1>9. ASSUME NEW kind \in {"Unexpected", "Information"}, ClientStray(kind) PROVE ModesInv'
  BY <1>9, ClientStrayModes
<1> QED
  BY <1>1, <1>2, <1>3, <1>4, <1>5, <1>6, <1>7, <1>8, <1>9 DEF Next

(* Both ends switch encryption, compression and protocol at the same frame.*)
THEOREM ModesInvariant == Spec => []ModesInv
<1>1. Init => TransportInv /\ AnswersConserved /\ ModesInv
  BY TransportStart, AnswersStart, ModesStart
<1>2. TransportInv /\ AnswersConserved /\ ModesInv /\ [Next]_vars
        => TransportInv' /\ AnswersConserved' /\ ModesInv'
  BY TransportKept, AnswersKept, ModesKept
<1> QED
  BY <1>1, <1>2, PTL DEF Spec

(* The client can read every frame it gets, with every piece of            *)
(* configuration once and in order, and the server decodes each answer in  *)
(* the modes it was sent in.                                               *)
THEOREM FramesSafety == Spec => []FramesReadable
<1>1. ModesInv => FramesReadable
  BY DEF ModesInv
<1> QED
  BY <1>1, ModesInvariant, PTL
=============================================================================
