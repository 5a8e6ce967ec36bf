------------------------- MODULE LightingPublication -------------------------
(***************************************************************************)
(* A lighting domain over the canonical chunk owner: world/lighting/       *)
(* owner.rs (LightingDomain) with the source capture of world/lighting/    *)
(* source.rs (LightingSource::from_canonical, is_current).                 *)
(*                                                                         *)
(* Composes with ChunkLoading: the owner publishes, removes and reloads    *)
(* chunks while lighting work captured from it is still being computed. A  *)
(* captured source holds an Arc of every resident it reads and a clone of  *)
(* the owner's revision, so ChunkLoading's pinned and shots are exactly    *)
(* what the live sources hold.                                             *)
(***************************************************************************)
EXTENDS ChunkLoading

CONSTANTS
  Works,       \* lighting jobs a caller can have at once
  Stamps,      \* identities an Arc<()> source stamp can have
  HasSky       \* HasSky[c]: does the dimension of context c have sky light

ASSUME LightingAssumption ==
  /\ HasSky \in [Contexts -> BOOLEAN]
  /\ IsFiniteSet(Works) /\ IsFiniteSet(Stamps)

VARIABLES
  works,       \* per job: its source and whether it is complete, or None
  current,     \* LightingDomain.current
  completion   \* LightingDomain.completion: the adopted source, or None

lighting == <<works, current, completion>>
allVars == <<vars, lighting>>

Sources == [stamp : Stamps, revision : Revisions, context : Contexts,
            chunks : SUBSET Chunks, sky : BOOLEAN]
Jobs == [source : Sources, complete : BOOLEAN]

(* None is none of the values it stands in for.                            *)
ASSUME NoLightAssumption == None \notin Sources \cup Jobs \cup Stamps

HeldBy(w, done) == {w[i].source : i \in {j \in Works : w[j] # None}} \cup ({done} \ {None})

(* Mutant: the last holder of a resident gives no bytes back.              *)
HoldWithoutRefund(sources) ==
  /\ pinned' = {s.revision : s \in sources}
  /\ shots' = UNION {s.chunks : s \in sources}
  /\ UNCHANGED used

(* The owner's Arcs are held exactly by the sources alive after a step,    *)
(* and a resident that loses its last holder is uncharged.                 *)
Hold(sources) ==
  LET held == UNION {s.chunks : s \in sources}
  IN  /\ pinned' = {s.revision : s \in sources}
      /\ shots' = held
      /\ used' = used - FreedBytes(shots \ held, CanonicalChunks)

OwnerApart == <<epoch, nextGeneration, context, slots, metadata, revision, tickets>>

(* LightingSource::is_current.                                             *)
is_current(s) == s.revision = revision

-----------------------------------------------------------------------------
cancel == current' = None /\ completion' = None

(* begin that fails in the capture, the sky mode or CPU admission.         *)
BeginFails ==
  /\ current # None
  /\ cancel
  /\ UNCHANGED works
  /\ Hold(HeldBy(works, None))
  /\ UNCHANGED <<OwnerApart, store, prepared>>

FreshStamps ==
  Stamps \ ({x.stamp : x \in HeldBy(works, completion)} \cup {current})

(* The capture holds the residents of A and the owner's revision.          *)
from_canonical(A, s) ==
  [stamp |-> s, revision |-> revision, context |-> context,
   chunks |-> {Canonical(a) : a \in A}, sky |-> HasSky[context]]

(* begin: revoke, then capture the residents of A under a new stamp.       *)
begin(w, A) ==
  /\ works[w] = None /\ A # {}
  /\ \A a \in A : Canonical(a) # None
  /\ FreshStamps # {}
  /\ current' = CHOOSE s \in FreshStamps : TRUE
  /\ works' = [works EXCEPT ![w] = [source |-> from_canonical(A, current'),
                                   complete |-> FALSE]]
  /\ completion' = None
  /\ Hold(HeldBy(works', None))
  /\ UNCHANGED <<OwnerApart, store, prepared>>

(* The last slice of the job completes on a worker.                        *)
Complete(w) ==
  /\ works[w] # None
  /\ ~works[w].complete
  /\ works' = [works EXCEPT ![w].complete = TRUE]
  /\ UNCHANGED <<current, completion, vars>>

DropWork(w) ==
  /\ works[w] # None
  /\ works' = [works EXCEPT ![w] = None]
  /\ Hold(HeldBy(works', completion))
  /\ UNCHANGED <<current, completion, OwnerApart, store, prepared>>

validate(w) ==
  /\ current # None /\ completion = None
  /\ works[w].complete
  /\ works[w].source.stamp = current /\ is_current(works[w].source)
  /\ works[w].source.sky = HasSky[context]

(* accept: validated, then adopted. A refusal by the resident lighting     *)
(* budget, which other domains share, changes nothing here.                *)
accept(w) ==
  /\ works[w] # None
  /\ validate(w)
  /\ completion' = works[w].source
  /\ works' = [works EXCEPT ![w] = None]
  /\ UNCHANGED <<current, vars>>

(* Mutant: the completion is trusted once it was accepted.                 *)
ReadyOnceAccepted == completion # None /\ current = completion.stamp

(* ready hands the completion out.                                         *)
ready ==
  /\ completion # None
  /\ current = completion.stamp
  /\ is_current(completion)
  /\ completion.sky = HasSky[context]

-----------------------------------------------------------------------------
LightingInit ==
  /\ Init
  /\ works = [w \in Works |-> None] /\ current = None /\ completion = None

LightingStep ==
  \/ BeginFails
  \/ \E w \in Works :
       (\E A \in SUBSET Addresses : begin(w, A)) \/ Complete(w) \/ DropWork(w) \/ accept(w)

WorldStep ==
  /\ \/ OwnerStep
     \/ \E r \in Reads :
          \/ ThreadStep(r) \/ Abandon(r)
          \/ \E key \in tickets, ctx \in Contexts : read(r, key, ctx)
          \/ \E ok \in BOOLEAN : Submit(r, ok)
  /\ UNCHANGED lighting

LightingNext == LightingStep \/ WorldStep

LightingSpec == LightingInit /\ [][LightingNext]_allVars

-----------------------------------------------------------------------------
(* What ready hands to packet builders was computed from the chunks that   *)
(* are canonical now, which were themselves read under the dimension of    *)
(* now, and in its sky mode: any publication, removal or reload in         *)
(* between, also of an address outside the domain, revokes it.             *)
ReadyIsCurrent ==
  ready => /\ \A c \in completion.chunks :
                c = Canonical(c.key.address) /\ c.context = context
           /\ completion.context = context

(* A domain never shows the result of a replaced request: what it stores   *)
(* bears the stamp of its latest begin.                                    *)
CompletionIsLatest == completion # None => completion.stamp = current

(* Light handed out or kept is that of the present world and request.      *)
LightIsCurrent == ReadyIsCurrent /\ CompletionIsLatest

(* Arcs captured for lighting keep residents charged after the owner let   *)
(* them go, and nothing else does; both ledgers of the world stay exact.   *)
LightingAccounting ==
  /\ shots = UNION {s.chunks : s \in HeldBy(works, completion)}
  /\ used = SumOf(ChunkBytes, CanonicalChunks \cup shots) /\ used <= ResidentLimit

(* Type invariant of the domain's own state.                               *)
LightingTypeOK ==
  /\ works \in [Works -> Jobs \cup {None}]
  /\ current \in Stamps \cup {None} /\ completion \in Sources \cup {None}

(* The Arcs of the world's clients are exactly those of live sources.      *)
HoldersExact ==
  LET sources == HeldBy(works, completion)
  IN  pinned = {s.revision : s \in sources} /\ shots = UNION {s.chunks : s \in sources}

(* A source whose revision is still the owner's was captured from the      *)
(* world of now.                                                           *)
SourcesCurrent ==
  \A s \in HeldBy(works, completion) :
    is_current(s) => /\ s.chunks \subseteq CanonicalChunks
                     /\ s.context = context

(* The inductive invariant behind LightIsCurrent and LightingAccounting.   *)
LightingInv ==
  /\ LoadingInv /\ LightingTypeOK
  /\ HoldersExact /\ SourcesCurrent /\ CompletionIsLatest
==============================================================================
