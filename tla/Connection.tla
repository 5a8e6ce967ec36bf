------------------------------ MODULE Connection ------------------------------
(***************************************************************************)
(* One login and configuration connection: the transport that owns the     *)
(* socket (server/transport.rs), the login session with its 50 ms clock    *)
(* (server/login/session.rs) and the configuration session with its driver *)
(* (server/configuration/session.rs, driver.rs), with the client at the    *)
(* other end.                                                              *)
(*                                                                         *)
(* One task drives everything; its state is the await it stands at (pc).   *)
(* At each await the clock, the shutdown, a transport failure or an abort  *)
(* of the task may strike, and what the code does up to the next await is  *)
(* one action. A packet is written in three steps (before the first poll,  *)
(* in its CPU job, on the socket) and read in four (idle, header, body,    *)
(* CPU job), because a future can be dropped between them.                 *)
(*                                                                         *)
(* Packets are their kinds with the modes they were framed in. Times are   *)
(* multiples of some unit; only what has passed since a keepalive counts,  *)
(* and only up to the interval. Deadlines of single reads and writes may   *)
(* strike at any time, for nothing relates them to the other clocks.       *)
(* LoginPhase::WaitingForDuplicate is never entered: login_flow admits     *)
(* with duplicate_pending = false.                                         *)
(***************************************************************************)
EXTENDS Naturals, Sequences, FiniteSets

CONSTANTS
  Registries,   \* number of registries of the configuration snapshot
  TickLimit,    \* login ticks that succeed: 600
  Interval,     \* KEEP_ALIVE_INTERVAL_MS
  MaxStrays,    \* bound: packets the client sends unasked
  None

ASSUME ConnectionAssumption ==
  /\ {Registries, TickLimit, Interval} \subseteq Nat \ {0}
  /\ MaxStrays \in Nat

VARIABLES
  online, compress,   \* LoginServices: online_mode, compression_threshold >= 0
  shutdown,           \* the watch channel
  pc,                 \* the await the task stands at
  phase, ticks,       \* LoginSession
  stream,             \* ConnectionTransport.stream: held, writing (taken), none
  encryptor,          \* held, or none (absent, or in a write)
  decryptor,          \* held, or none (absent, or in a read job)
  compression,        \* is compression on
  reading,            \* ReadProgress: its stage and the frame it is made of
  write,              \* the write_packet call: its stage and frame, or None
  stage,              \* ConfigurationSession.stage
  cursor,             \* prefix_index, then 3 + registry_index
  queued,             \* queued_keepalive is set
  pending,            \* pending_keepalive is set
  elapsed,            \* time since keepalive_time, up to Interval
  age,                \* time since at_ms of the queued keepalive
  inbox, wire,        \* frames on their way to the server, to the client
  client,             \* what the client thinks
  strays

services == <<online, compress>>
login == <<phase, ticks>>
transport == <<stream, encryptor, decryptor, compression, reading, write>>
configuration == <<stage, cursor, queued, pending, elapsed, age>>
peer == <<inbox, wire, client, strays>>
vars == <<services, shutdown, pc, login, transport, configuration, peer>>

LoginKinds == {"Challenge", "SetCompression", "Finished", "LoginDisconnect"}
ReplyKinds == {"Hello", "Key", "Ack", "KnownPacks", "KeepAlive"}
Tags == 3 + Registries    \* the last index of configuration content

(* Frames to the client and from it, the calls that write and read them,   *)
(* and what a client thinks.                                               *)
Frames == [kind : LoginKinds \cup {"Content", "KeepAlive", "Disconnect"}, n : Nat,
           enc : BOOLEAN, comp : BOOLEAN, whole : BOOLEAN]
Answers == [kind : ReplyKinds \cup {"Unexpected", "Information"},
            enc : BOOLEAN, comp : BOOLEAN]
Writes == [stage : {"start", "job", "socket"}, frame : Frames]
Reads == [stage : {"idle", "prefix", "body", "job"}, frame : Answers \cup {None},
          comp : BOOLEAN]
Clients == [protocol : {"login", "configuration"}, enc : BOOLEAN, comp : BOOLEAN,
            owes : SUBSET ReplyKinds, next : Nat, garbled : BOOLEAN]

ASSUME NoneAssumption == None \notin Writes \cup Answers

Idle == [stage |-> "idle", frame |-> None, comp |-> FALSE]
Starting(kind, n) ==
  [stage |-> "start", frame |-> [kind |-> kind, n |-> n, enc |-> FALSE,
                                 comp |-> FALSE, whole |-> FALSE]]

Reading == pc \in {"receive", "auth", "read"}
Writing == pc \in {"write", "farewell"}
Accepted == phase = "Accepted"

(* take_encrypt, take_decrypt: the cipher a finished job gives back.       *)
CipherOf(f) == IF f.enc THEN "held" ELSE "none"

-----------------------------------------------------------------------------
(* How run_login and configuration::run end.                               *)

(* transport.close, both sessions closed, the lease dropped: run_login has *)
(* returned.                                                               *)
Shut ==
  /\ pc' = "closed" /\ phase' = "Closed" /\ stage' = "Closed"
  /\ stream' = "none" /\ encryptor' = "none" /\ decryptor' = "none"
  /\ reading' = Idle /\ write' = None
  /\ queued' = FALSE /\ pending' = FALSE
  /\ UNCHANGED <<compression, cursor, elapsed, age>>

(* An error with the stream at hand, in phase p: one disconnect packet of  *)
(* the protocol that was reached.                                          *)
Farewell(p) ==
  /\ pc' = "farewell" /\ phase' = p
  /\ write' = Starting(IF p = "Accepted" THEN "Disconnect" ELSE "LoginDisconnect", 0)
  /\ stage' = IF p = "Accepted" THEN "Closed" ELSE stage
  /\ queued' = FALSE /\ pending' = FALSE
  /\ UNCHANGED <<cursor, elapsed, age>>

link == <<stream, encryptor, decryptor, compression, reading>>

(* Mutant: an interrupted write leaves the stream in the transport.        *)
InterruptKeepsStream(p) ==
  /\ Farewell(p)
  /\ stream' = "held"
  /\ UNCHANGED <<encryptor, decryptor, compression, reading>>

(* The clock or the shutdown drops the pending future. A write that has    *)
(* begun owns stream and cipher: they go with it, and is_open is false.    *)
Interrupt(p) ==
  IF stream = "held" THEN Farewell(p) /\ UNCHANGED link ELSE Shut

-----------------------------------------------------------------------------
(* write_packet. The stream and the cipher leave the transport first.      *)

(* Mutant: Set Compression already switches the mode it is framed in.      *)
StartWriteNewMode ==
  /\ Writing /\ write.stage = "start"
  /\ ~(pc = "write" /\ shutdown)
  /\ stream' = "writing" /\ encryptor' = "none"
  /\ write' = [write EXCEPT !.stage = "job", !.frame.enc = encryptor = "held",
                            !.frame.comp = compression \/ write.frame.kind = "SetCompression"]
  /\ UNCHANGED <<services, shutdown, pc, login, decryptor, compression, reading,
                 configuration, peer>>

StartWrite ==
  /\ Writing /\ write.stage = "start"
  /\ ~(pc = "write" /\ shutdown)
  /\ stream' = "writing" /\ encryptor' = "none"
  /\ write' = [write EXCEPT !.stage = "job", !.frame.enc = encryptor = "held",
                            !.frame.comp = compression]
  /\ UNCHANGED <<services, shutdown, pc, login, decryptor, compression, reading,
                 configuration, peer>>

(* The job has compressed and encrypted; first bytes go out.               *)
Encoded ==
  /\ Writing /\ write.stage = "job"
  /\ write' = [write EXCEPT !.stage = "socket"]
  /\ wire' = Append(wire, write.frame)
  /\ UNCHANGED <<services, shutdown, pc, login, link, configuration, inbox, client, strays>>

(* No slot or bytes in the pool, a failed job, an I/O error or the write   *)
(* timeout: stream and cipher are dropped with the call.                   *)
WriteFails ==
  /\ Writing
  /\ ~(pc = "write" /\ write.stage = "start" /\ shutdown)
  /\ Shut
  /\ UNCHANGED <<services, shutdown, ticks, peer>>

(* admitted and begin_finished_write, unless no session UUID can be made.  *)
Publish ==
  \/ /\ pc' = "write" /\ phase' = "WritingFinished"
     /\ write' = Starting("Finished", 0)
     /\ UNCHANGED configuration
  \/ Farewell("Verifying")

(* offline_profile or authenticated, the access check, then set_compression*)
(* where it is configured. The check may refuse, and set_compression does  *)
(* while a frame is half read.                                             *)
Verified ==
  \/ Farewell("Verifying")
  \/ ~compress /\ Publish
  \/ /\ compress /\ reading'.stage = "idle"
     /\ pc' = "write" /\ phase' = "Verifying"
     /\ write' = Starting("SetCompression", 0)
     /\ UNCHANGED configuration

(* ConfigurationSession::outbound_written. A keepalive's time is that of   *)
(* its queueing, not of its writing.                                       *)
outbound_written(kind) ==
  \/ /\ kind = "Content"
     /\ cursor' = cursor + 1
     /\ stage' = CASE cursor' = 3 -> "AwaitingKnownPacks"
                   [] cursor' = Tags -> "SendingTags"
                   [] cursor' = Tags + 1 -> "AwaitingSpawn"
                   [] OTHER -> stage
     /\ UNCHANGED <<queued, pending, elapsed, age>>
  \/ /\ kind = "KeepAlive"
     /\ queued' = FALSE /\ pending' = TRUE /\ elapsed' = age
     /\ UNCHANGED <<stage, cursor, age>>

(* What follows a packet that is completely written, up to the next await. *)
AfterWrite(kind) ==
  CASE kind = "Challenge" ->
         pc' = "receive" /\ write' = None /\ UNCHANGED <<phase, compression, configuration>>
    [] kind = "SetCompression" -> compression' = TRUE /\ Publish
    [] kind = "Finished" ->
         /\ pc' = "receive" /\ phase' = "AwaitingAcknowledgement" /\ write' = None
         /\ UNCHANGED <<compression, configuration>>
    [] OTHER ->
         /\ pc' = "loop" /\ write' = None
         /\ outbound_written(kind)
         /\ UNCHANGED <<phase, compression>>

(* The last byte is out: stream and cipher come back.                      *)
Written ==
  /\ Writing /\ write.stage = "socket"
  /\ wire' = [wire EXCEPT ![Len(wire)].whole = TRUE]
  /\ \/ pc = "farewell" /\ Shut
     \/ /\ pc = "write"
        /\ stream' = "held"
        /\ encryptor' = CipherOf(write.frame)
        /\ UNCHANGED <<decryptor, reading>>
        /\ AfterWrite(write.frame.kind)
  /\ UNCHANGED <<services, shutdown, ticks, inbox, client, strays>>

-----------------------------------------------------------------------------
(* read_packet_until. Its progress stays in the transport when a deadline  *)
(* or the other arm of a select drops the call.                            *)

ReadByte ==
  /\ Reading /\ reading.stage = "idle" /\ inbox # <<>>
  /\ reading' = [Idle EXCEPT !.stage = "prefix", !.frame = Head(inbox)]
  /\ inbox' = Tail(inbox)
  /\ UNCHANGED <<services, shutdown, pc, login, stream, encryptor, decryptor,
                 compression, write, configuration, wire, client, strays>>

(* The header makes sense, and the job's buffers, in today's compression   *)
(* mode, are reserved.                                                     *)
ReadHeader ==
  /\ Reading /\ reading.stage = "prefix"
  /\ reading.frame.enc = (decryptor = "held")
  /\ reading' = [reading EXCEPT !.stage = "body", !.comp = compression]
  /\ UNCHANGED <<services, shutdown, pc, login, stream, encryptor, decryptor,
                 compression, write, configuration, peer>>

(* The body is complete: the job takes the cipher along.                   *)
ReadBody ==
  /\ Reading /\ reading.stage = "body"
  /\ reading' = [reading EXCEPT !.stage = "job"]
  /\ decryptor' = "none"
  /\ UNCHANGED <<services, shutdown, pc, login, stream, encryptor, compression,
                 write, configuration, peer>>

(* EOF, an I/O error, a bad length, no admission, a failed job or the idle *)
(* timeout: read_packet_inner closes the transport, so nothing is written. *)
ReadFails ==
  /\ Reading /\ Shut
  /\ UNCHANGED <<services, shutdown, ticks, peer>>

(* Login packets. Bad names, keys and challenges, and a pool without room  *)
(* for the key job, fail like an unexpected packet.                        *)
OnLoginPacket(kind) ==
  \/ /\ phase = "Hello" /\ kind = "Hello"
     /\ \/ /\ online
           /\ pc' = "write" /\ phase' = "Key" /\ write' = Starting("Challenge", 0)
           /\ UNCHANGED configuration
        \/ ~online /\ Verified
  \/ /\ phase = "Key" /\ kind = "Key"
     /\ pc' = "key" /\ phase' = "CheckingKey"
     /\ UNCHANGED <<write, configuration>>
  \/ /\ phase = "AwaitingAcknowledgement" /\ kind = "Ack"
     /\ pc' = "loop" /\ phase' = "Accepted"
     /\ UNCHANGED <<write, configuration>>
  \/ kind # "Ack" /\ Farewell(phase)

(* ConfigurationSession::on_packet. A pack list may also be malformed.     *)
on_packet(kind) ==
  \/ /\ \/ kind = "Information" /\ UNCHANGED <<stage, pending>>
        \/ /\ kind = "KnownPacks" /\ stage = "AwaitingKnownPacks"
           /\ stage' = "SendingRegistries"
           /\ UNCHANGED pending
        \/ kind = "KeepAlive" /\ pending /\ pending' = FALSE /\ UNCHANGED stage
     /\ pc' = "loop"
     /\ UNCHANGED <<phase, write, cursor, queued, elapsed, age>>
  \/ /\ \/ kind \notin {"Information", "KeepAlive"}
        \/ kind = "KeepAlive" /\ ~pending
     /\ Farewell(phase)

(* The job is done: cipher and idle progress are restored, the packet is   *)
(* handled.                                                                *)
Deliver ==
  /\ Reading /\ reading.stage = "job"
  /\ reading.frame.comp = reading.comp
  /\ reading' = Idle
  /\ decryptor' = CipherOf(reading.frame)
  /\ CASE pc = "receive" -> OnLoginPacket(reading.frame.kind)
       [] pc = "auth" -> Farewell(phase)
       [] pc = "read" -> on_packet(reading.frame.kind)
  /\ UNCHANGED <<services, shutdown, ticks, stream, encryptor, compression, peer>>

-----------------------------------------------------------------------------
(* The other awaits of login_flow, and its clock.                          *)

(* The key job answers; encryption is on before anything else happens.     *)
KeyChecked(ok) ==
  /\ pc = "key"
  /\ \/ /\ ok /\ encryptor = "none" /\ decryptor = "none" /\ reading = Idle
        /\ encryptor' = "held" /\ decryptor' = "held"
        /\ pc' = "auth" /\ phase' = "Authenticating"
        /\ UNCHANGED <<write, configuration>>
     \/ ~ok /\ Farewell(phase) /\ UNCHANGED <<encryptor, decryptor>>
  /\ UNCHANGED <<services, shutdown, ticks, stream, compression, reading, peer>>

(* has_joined answers: a profile, or a refusal, an error or its timeout.   *)
Authenticated(ok) ==
  /\ pc = "auth"
  /\ UNCHANGED link
  /\ \/ ok /\ Verified
     \/ ~ok /\ Farewell(phase)
  /\ UNCHANGED <<services, shutdown, ticks, peer>>

Clocked ==
  \/ pc \in {"receive", "key", "auth"}
  \/ pc = "write" /\ write.stage # "start"

(* Mutant: the clock only counts while no packet is awaited.               *)
TickNotReceiving ==
  /\ ~Accepted /\ Clocked /\ pc # "receive"
  /\ \/ /\ ticks < TickLimit /\ ticks' = ticks + 1
        /\ UNCHANGED <<pc, phase, transport, configuration>>
     \/ ticks = TickLimit /\ Interrupt("Closed") /\ UNCHANGED ticks
  /\ UNCHANGED <<services, shutdown, peer>>

(* LoginClock: a 50 ms deadline passes at any of these awaits.             *)
Tick ==
  /\ ~Accepted /\ Clocked
  /\ \/ /\ ticks < TickLimit /\ ticks' = ticks + 1
        /\ UNCHANGED <<pc, phase, transport, configuration>>
     \/ ticks = TickLimit /\ Interrupt("Closed") /\ UNCHANGED ticks
  /\ UNCHANGED <<services, shutdown, peer>>

(* The shutdown is seen, before an await or during it. The configuration   *)
(* driver returns Ok and says nothing.                                     *)
Stop ==
  /\ shutdown /\ pc \notin {"farewell", "closed"}
  /\ IF Accepted THEN Shut ELSE Interrupt(phase)
  /\ UNCHANGED <<services, shutdown, ticks, peer>>

(* Server::run drops the task (abort_all).                                 *)
Abort ==
  /\ pc # "closed" /\ Shut
  /\ UNCHANGED <<services, shutdown, ticks, peer>>

-----------------------------------------------------------------------------
(* The configuration driver.                                               *)

(* One turn of run_inner up to its await: the tick queues a keepalive or   *)
(* finds the last one unanswered, then next_outbound picks the packet.     *)
Loop ==
  /\ pc = "loop" /\ ~shutdown
  /\ LET due == elapsed = Interval
         keepalive == queued \/ due
     IN  \/ due /\ pending /\ Farewell(phase)
         \/ /\ ~(due /\ pending)
            /\ queued' = keepalive
            /\ age' = IF keepalive /\ ~queued THEN 0 ELSE age
            /\ \/ /\ keepalive
                  /\ pc' = "write" /\ write' = Starting("KeepAlive", 0)
               \/ /\ ~keepalive /\ stage \in {"Initializing", "SendingRegistries", "SendingTags"}
                  /\ pc' = "write" /\ write' = Starting("Content", cursor)
               \/ /\ ~keepalive /\ stage \in {"AwaitingKnownPacks", "AwaitingSpawn"}
                  /\ pc' = "read" /\ UNCHANGED write
            /\ UNCHANGED <<phase, stage, cursor, pending, elapsed>>
  /\ UNCHANGED <<services, shutdown, ticks, link, peer>>

(* Mutant: the deadline abandons a frame that is not in its job yet.       *)
DueDropsFrame ==
  /\ pc = "read" /\ elapsed = Interval
  /\ pc' = "loop"
  /\ reading' = IF reading.stage = "job" THEN reading ELSE Idle
  /\ UNCHANGED <<services, shutdown, login, stream, encryptor, decryptor, compression,
                 write, configuration, peer>>

(* The read deadline of the next keepalive: the loop turns, the read stays.*)
KeepAliveDue ==
  /\ pc = "read" /\ elapsed = Interval
  /\ pc' = "loop"
  /\ UNCHANGED <<services, shutdown, login, transport, configuration, peer>>

Advance ==
  /\ Accepted /\ pc # "closed"
  /\ elapsed < Interval \/ (queued /\ age < Interval)
  /\ elapsed' = IF elapsed < Interval THEN elapsed + 1 ELSE elapsed
  /\ age' = IF queued /\ age < Interval THEN age + 1 ELSE age
  /\ UNCHANGED <<services, shutdown, pc, login, transport, stage, cursor, queued,
                 pending, peer>>

Shutdown ==
  /\ ~shutdown /\ shutdown' = TRUE
  /\ UNCHANGED <<services, pc, login, transport, configuration, peer>>

-----------------------------------------------------------------------------
(* The client (external). It answers what it is asked, when it likes, and  *)
(* switches modes as the protocol has it: encryption after sending Key,    *)
(* compression on Set Compression, configuration after acknowledging.      *)

Asks(f) ==
  CASE f.kind = "Challenge" -> {"Key"}
    [] f.kind = "Finished" -> {"Ack"}
    [] f.kind = "Content" /\ f.n = 2 -> {"KnownPacks"}
    [] f.kind = "KeepAlive" -> {"KeepAlive"}
    [] OTHER -> {}

Protocol(f) == IF f.kind \in LoginKinds THEN "login" ELSE "configuration"

(* A frame the client can make sense of; a login disconnect may cross the  *)
(* client's own Key or acknowledgement.                                    *)
Readable(f) ==
  /\ f.comp = client.comp
  /\ \/ f.enc = client.enc /\ Protocol(f) = client.protocol
     \/ f.kind = "LoginDisconnect" /\ client.next = 0
  /\ f.kind = "Content" => f.n = client.next

ClientReceive ==
  /\ wire # <<>> /\ Head(wire).whole
  /\ LET f == Head(wire)
     IN  client' = [client EXCEPT !.garbled = @ \/ ~Readable(f),
                                  !.comp = @ \/ f.kind = "SetCompression",
                                  !.owes = @ \cup Asks(f),
                                  !.next = IF f.kind = "Content" THEN @ + 1 ELSE @]
  /\ wire' = Tail(wire)
  /\ UNCHANGED <<services, shutdown, pc, login, transport, configuration, inbox, strays>>

Send(kind) ==
  inbox' = Append(inbox, [kind |-> kind, enc |-> client.enc, comp |-> client.comp])

(* Nothing sent to a socket that is gone matters.                          *)
ClientReply(kind) ==
  /\ kind \in client.owes /\ stream # "none"
  /\ Send(kind)
  /\ client' = [client EXCEPT !.owes = @ \ {kind}, !.enc = @ \/ kind = "Key",
                              !.protocol = IF kind = "Ack" THEN "configuration" ELSE @]
  /\ UNCHANGED <<services, shutdown, pc, login, transport, configuration, wire, strays>>

ClientStray(kind) ==
  /\ strays < MaxStrays /\ stream # "none"
  /\ strays' = strays + 1
  /\ Send(kind)
  /\ UNCHANGED <<services, shutdown, pc, login, transport, configuration, wire, client>>

-----------------------------------------------------------------------------
Init ==
  /\ online \in BOOLEAN /\ compress \in BOOLEAN /\ shutdown = FALSE
  /\ pc = "receive" /\ phase = "Hello" /\ ticks = 0
  /\ stream = "held" /\ encryptor = "none" /\ decryptor = "none"
  /\ compression = FALSE /\ reading = Idle /\ write = None
  /\ stage = "Initializing" /\ cursor = 0 /\ queued = FALSE /\ pending = FALSE
  /\ elapsed = 0 /\ age = 0
  /\ inbox = <<>> /\ wire = <<>> /\ strays = 0
  /\ client = [protocol |-> "login", enc |-> FALSE, comp |-> FALSE,
               owes |-> {"Hello"}, next |-> 0, garbled |-> FALSE]

WriteStep == StartWrite \/ Encoded \/ Written \/ WriteFails
ReadStep == ReadByte \/ ReadHeader \/ ReadBody \/ Deliver

Next ==
  \/ WriteStep \/ ReadStep \/ ReadFails
  \/ \E ok \in BOOLEAN : KeyChecked(ok) \/ Authenticated(ok)
  \/ Tick \/ Stop \/ Abort \/ Loop \/ KeepAliveDue \/ Advance \/ Shutdown
  \/ ClientReceive
  \/ \E kind \in ReplyKinds : ClientReply(kind)
  \/ \E kind \in {"Unexpected", "Information"} : ClientStray(kind)

Spec == Init /\ [][Next]_vars

(* The task is scheduled, CPU jobs finish, clocks run, and a write ends at *)
(* the latest with its timeout. The client owes nothing.                   *)
FairSpec ==
  /\ Spec
  /\ WF_vars(WriteStep) /\ WF_vars(ReadStep) /\ WF_vars(Tick) /\ WF_vars(Stop)
  /\ WF_vars(Loop) /\ WF_vars(KeepAliveDue) /\ WF_vars(Advance)

-----------------------------------------------------------------------------
(* Type invariant of the task's state.                                     *)
TypeOK ==
  /\ pc \in {"receive", "key", "auth", "write", "loop", "read", "farewell", "closed"}
  /\ phase \in {"Hello", "Key", "CheckingKey", "Authenticating", "Verifying",
                "WritingFinished", "AwaitingAcknowledgement", "Accepted", "Closed"}
  /\ ticks \in 0..TickLimit
  /\ stream \in {"held", "writing", "none"}
  /\ encryptor \in {"held", "none"} /\ decryptor \in {"held", "none"}
  /\ reading.stage \in {"idle", "prefix", "body", "job"}
  /\ (write # None) = Writing
  /\ stage \in {"Initializing", "AwaitingKnownPacks", "SendingRegistries",
                "SendingTags", "AwaitingSpawn", "Closed"}
  /\ cursor \in 0..(Tags + 1)
  /\ elapsed \in 0..Interval /\ age \in 0..Interval
  /\ online \in BOOLEAN /\ compress \in BOOLEAN /\ shutdown \in BOOLEAN
  /\ compression \in BOOLEAN /\ queued \in BOOLEAN /\ pending \in BOOLEAN

(* The client can read every frame it gets: in the encryption, compression *)
(* and protocol it has switched to, and with every piece of configuration  *)
(* once and in order, keepalives in between or not. The server, likewise,  *)
(* decodes each answer in the modes it was sent in.                        *)
FramesReadable ==
  /\ ~client.garbled
  /\ reading.stage \in {"body", "job"} /\ reading.frame.kind \in ReplyKinds
       => reading.frame.comp = reading.comp
  /\ reading.stage = "prefix" /\ reading.frame.kind \in ReplyKinds /\ stream # "none"
       => reading.frame.enc = (decryptor = "held")

(* No byte follows half a frame: a write that the clock, the shutdown, a   *)
(* timeout or an abort cuts is the last thing on the wire ("Interrupted    *)
(* writes leave stream=None, making reuse fail").                          *)
TornIsLast ==
  \A i \in DOMAIN wire :
    ~wire[i].whole =>
      /\ i = Len(wire)
      /\ \/ stream = "none"
         \/ stream = "writing" /\ write.stage = "socket"

(* Both cipher states live and die with the socket: an open transport has  *)
(* both or neither (the read job may carry one), and both from the checked *)
(* key on, so nothing is sent in the clear or decrypted from a lost        *)
(* position after any deadline, failure or farewell.                       *)
CiphersKept ==
  /\ TypeOK
  /\ stream = "held" =>
       /\ encryptor = "held" <=>
            decryptor = "held" \/ (reading.stage = "job" /\ reading.frame.enc)
       /\ online /\ phase \notin {"Hello", "Key", "CheckingKey", "Closed"}
            => encryptor = "held"

(* Interrupted writes neither leave bytes after a torn frame nor cost an   *)
(* open transport its cipher.                                              *)
WritesSound == TornIsLast /\ CiphersKept

Awaits(kind) ==
  CASE kind = "Hello" -> phase = "Hello"
    [] kind = "Key" -> phase = "Key" /\ pc = "receive"
    [] kind = "Ack" -> phase = "AwaitingAcknowledgement"
    [] kind = "KnownPacks" -> stage = "AwaitingKnownPacks"
    [] kind = "KeepAlive" -> pending

Asked(kind) == {i \in DOMAIN wire : wire[i].whole /\ kind \in Asks(wire[i])}
Sent(kind) == {i \in DOMAIN inbox : inbox[i].kind = kind}

Tokens(kind) ==
  Cardinality(Asked(kind)) + Cardinality(client.owes \cap {kind})
    + Cardinality(Sent(kind))
    + IF reading.stage # "idle" /\ reading.frame.kind = kind THEN 1 ELSE 0

(* Deadlines lose no input: as long as the connection works, each answer   *)
(* the server waits for is in exactly one place (asked for on the wire,    *)
(* owed by the client, in the socket, or half read), and no other is.      *)
AnswersConserved ==
  pc \notin {"farewell", "closed"} =>
    \A kind \in ReplyKinds : Tokens(kind) = IF Awaits(kind) THEN 1 ELSE 0

(* Nothing hangs: a login ends with its clock whatever the client does, a  *)
(* keepalive is answered or ends the connection, and after a shutdown the  *)
(* task ends by itself, farewell included.                                 *)
ConnectionEnds ==
  /\ ~Accepted ~> (Accepted \/ pc = "closed")
  /\ pending ~> ~pending
  /\ shutdown ~> pc = "closed"

-----------------------------------------------------------------------------
(* The invariants by which an induction reaches these properties.          *)

Shapes ==
  /\ TypeOK
  /\ reading \in Reads /\ (reading.stage = "idle" <=> reading.frame = None)
  /\ write \in Writes \cup {None}
  /\ inbox \in Seq(Answers) /\ wire \in Seq(Frames) /\ client \in Clients
  /\ strays \in Nat

(* Who has the stream: the transport at every await but that of a write    *)
(* which has begun, which has the encryptor too.                           *)
StreamOwned ==
  /\ pc \in {"receive", "key", "auth", "loop", "read"} => stream = "held"
  /\ Writing => IF write.stage = "start" THEN stream = "held"
                ELSE stream = "writing" /\ encryptor = "none"
  /\ pc = "closed" <=> stream = "none"

(* Each await belongs to some phases, and each packet to one.              *)
PhaseOfTask ==
  /\ pc = "receive" => phase \in {"Hello", "Key", "AwaitingAcknowledgement"}
  /\ pc = "key" => phase = "CheckingKey"
  /\ pc = "auth" => phase = "Authenticating"
  /\ pc \in {"loop", "read"} => Accepted
  /\ pc = "write" => \/ write.frame.kind = "Challenge" /\ phase = "Key"
                     \/ write.frame.kind = "SetCompression" /\ phase = "Verifying"
                     \/ write.frame.kind = "Finished" /\ phase = "WritingFinished"
                     \/ write.frame.kind \in {"Content", "KeepAlive"} /\ Accepted
  /\ pc = "farewell" =>
       write.frame.kind = IF Accepted THEN "Disconnect" ELSE "LoginDisconnect"
  /\ pc = "closed" => phase = "Closed"

(* Is what the server sends encrypted, wherever the encryptor is.          *)
Sealed == IF stream = "writing" THEN write.frame.enc ELSE encryptor = "held"

CiphersPaired ==
  stream # "none" =>
    /\ Sealed <=> decryptor = "held" \/ (reading.stage = "job" /\ reading.frame.enc)
    /\ reading.stage = "body" => reading.frame.enc = (decryptor = "held")
    /\ reading.stage = "job" => decryptor = "none"
    /\ online /\ phase \notin {"Hello", "Key", "CheckingKey", "Closed"} => Sealed

(* The frame on the socket is the last one on the wire.                    *)
TornTracked ==
  /\ TornIsLast
  /\ Writing => ~write.frame.whole
  /\ Writing /\ write.stage = "socket" => wire # <<>> /\ wire[Len(wire)] = write.frame

(* Stage and cursor of the configuration, and its one keepalive.           *)
ContentOrder ==
  /\ stage = "Initializing" => cursor < 3
  /\ stage = "AwaitingKnownPacks" => cursor = 3
  /\ stage = "SendingRegistries" => cursor \in 3..(Tags - 1)
  /\ stage = "SendingTags" => cursor = Tags
  /\ stage = "AwaitingSpawn" => cursor = Tags + 1
  /\ pc = "write" /\ write.frame.kind = "Content" =>
       /\ write.frame.n = cursor
       /\ stage \in {"Initializing", "SendingRegistries", "SendingTags"}
  /\ pc = "write" /\ write.frame.kind = "KeepAlive" => queued
  /\ queued => ~pending
  /\ phase \notin {"Accepted", "Closed"} =>
       stage = "Initializing" /\ cursor = 0 /\ ~queued /\ ~pending

(* The inductive invariant behind WritesSound.                             *)
TransportInv ==
  /\ Shapes /\ StreamOwned /\ PhaseOfTask
  /\ CiphersPaired /\ TornTracked /\ ContentOrder

Going == pc \notin {"farewell", "closed"}
Login == {"Hello", "Key", "CheckingKey", "Authenticating"}
Late == {"Verifying", "WritingFinished", "AwaitingAcknowledgement", "Accepted"}
OnWire(kind) == \E i \in DOMAIN wire : wire[i].kind = kind
Arriving(kind) ==
  \/ \E i \in DOMAIN inbox : inbox[i].kind = kind
  \/ reading.stage # "idle" /\ reading.frame.kind = kind

(* Frames on the wire are in the modes the client will have switched to    *)
(* when it gets there, and nothing follows a question that switches them.  *)
WireModes ==
  \A i \in DOMAIN wire :
    /\ wire[i].comp =
         (client.comp \/ \E j \in DOMAIN wire : j < i /\ wire[j].kind = "SetCompression")
    /\ wire[i].kind # "LoginDisconnect" =>
         wire[i].enc = client.enc /\ Protocol(wire[i]) = client.protocol
    /\ wire[i].kind \in {"Challenge", "Finished"} =>
         \A j \in DOMAIN wire : i < j => wire[j].kind = "LoginDisconnect"
    /\ wire[i].kind = "Challenge" => ~client.enc

(* The client switches with the answer it gives.                           *)
SwitchOnAnswer ==
  /\ "Key" \in client.owes \/ "Ack" \in client.owes =>
       \A i \in DOMAIN wire : wire[i].kind = "LoginDisconnect"
  /\ "Key" \in client.owes => ~client.enc
  /\ Arriving("Key") => client.enc
  /\ Arriving("Ack") => client.protocol = "configuration"

(* What each phase knows of the modes of both ends.                        *)
ModesOfPhase ==
  /\ Accepted => client.protocol = "configuration"
  /\ Going /\ phase \in Login \cup {"Verifying", "WritingFinished"} =>
       client.protocol = "login"
  /\ Going /\ phase \in Login => ~compression
  /\ Going /\ phase \in {"Hello", "Key", "CheckingKey"} => ~Sealed
  /\ Going /\ phase = "Hello" => ~client.enc
  /\ pc = "write" /\ phase = "Key" => ~client.enc
  /\ Going /\ phase = "CheckingKey" => client.enc
  /\ (Going /\ phase = "Authenticating") \/ phase \in Late => client.enc = Sealed
  /\ phase \in Late => "Key" \notin client.owes /\ ~OnWire("Challenge")
  /\ Accepted => "Ack" \notin client.owes /\ ~OnWire("Finished")
  /\ Going => ~OnWire("LoginDisconnect")

CompressionSwitched ==
  /\ stream # "none" =>
       compression = (client.comp \/ \E i \in DOMAIN wire :
                                       wire[i].kind = "SetCompression" /\ wire[i].whole)
  /\ Writing /\ write.stage # "start" => write.frame.comp = compression

(* Answers arrive in the modes the server has.                             *)
AnswersReadable ==
  Going =>
    /\ \A i \in DOMAIN inbox :
         inbox[i].kind \in ReplyKinds => inbox[i].comp = compression /\ inbox[i].enc = Sealed
    /\ reading.stage # "idle" /\ reading.frame.kind \in ReplyKinds
         => reading.frame.comp = compression

(* The pieces of configuration on the wire are the next ones, in order.    *)
Contents == {i \in DOMAIN wire : wire[i].kind = "Content"}
Sending == IF Writing /\ write.stage = "socket" /\ write.frame.kind = "Content"
           THEN cursor + 1 ELSE cursor
ContentNumbered ==
  /\ \A i, j \in Contents : i < j => wire[i].n < wire[j].n
  /\ \A i \in Contents :
       /\ wire[i].n >= client.next
       /\ wire[i].n = client.next \/ \E j \in Contents : j < i /\ wire[j].n + 1 = wire[i].n
  /\ stream # "none" =>
       /\ \A i \in Contents : wire[i].n < Sending
       /\ Sending = client.next \/ \E j \in Contents : wire[j].n + 1 = Sending
  /\ \/ phase \notin {"Accepted", "Closed"}
     \/ Writing /\ write.frame.kind = "LoginDisconnect"
     \/ OnWire("LoginDisconnect")
     => client.next = 0 /\ Contents = {}

(* The inductive invariant behind FramesReadable, above TransportInv and   *)
(* AnswersConserved.                                                       *)
ModesInv ==
  /\ WireModes /\ SwitchOnAnswer /\ ModesOfPhase /\ CompressionSwitched
  /\ AnswersReadable /\ ContentNumbered /\ FramesReadable
=============================================================================
