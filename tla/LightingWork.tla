---------------------------- MODULE LightingWork ----------------------------
(* LightingWork (lighting/work.rs): one domain lit from nothing or from    *)
(* saved rows, phase by phase, with the two engines of BlockLight and      *)
(* SkyLight.  step() may return after any unit and any unit may fail and   *)
(* be retried, so a unit is an action and a failure no step at all.  The   *)
(* host of a finished domain may edit blocks and run the engines again, or *)
(* save the light and restore it into a new work.                          *)
EXTENDS BlockLight, SkyLight

CONSTANTS
  Worlds,        \* terrains the domain may hold
  EditMaterials, \* what an edit may put in a block
  Saves,         \* how light may have been saved: see Restore
  MaxTurns,      \* edits and restorations a behaviour may perform
  NoBlock        \* no edit pending

VARIABLES
  phase,         \* Phase
  chunk,         \* index of the current chunk in addresses
  sectionY,      \* section cursor of the support phases
  row,           \* index of the current saved row
  retained,      \* the current chunk's data is marked retained in both stores
  mode,          \* LightingMode
  hasSky,        \* the dimension has sky light
  saved,         \* saved[c]: [lighted, rows] of a restored domain
  queued,        \* [block, sky]: layers queued by section
  retain,        \* [block, sky]: chunks whose column retains data
  packet,        \* [block, sky]: captured packet views
  edited,        \* block whose change the engines were not yet told, or NoBlock
  turns,         \* edits and restorations so far
  past           \* history, [whole, edits]: whether light restored was complete and of the
                 \* edges found again, or none and said so; edits since it was restored

workOnly == <<phase, chunk, sectionY, row, retained, mode, hasSky, saved, queued, retain,
              packet, edited, turns, past>>
vars == <<worldVars, blockVars, skyVars, workOnly>>

NoLayers == [s \in {} |-> 0]
Ascending(ns) == [i \in 1..Cardinality(ns) |->
                    CHOOSE n \in ns : Cardinality({k \in ns : k < n}) = i - 1]
addresses == Ascending(Chunks)
Address == addresses[chunk]
AllChunks == chunk > Len(addresses)

is_lighted(i) == saved[addresses[i]].lighted

-----------------------------------------------------------------------------
(* The storage operations of a unit.                                       *)

With(f, s, v) == [t \in DOMAIN f \cup {s} |-> IF t = s THEN v ELSE f[t]]
Layer(stored, s) == [p \in BlocksOf(s) |-> stored[p]]

StoringIn(stored) == {s \in LightSections : BlocksOf(s) \subseteq DOMAIN stored}

(* create_layer of section t, when the layers of stored are there already  *)
(* and blank are those of them that are uniformly zero: the queued layer,  *)
(* or for sky light the bottom plane of the nearest layer above, else full *)
(* light in an enabled column of the sky and none elsewhere.               *)
create_layer(stored, blank, layers, t, sky) ==
  LET above == {s[2] : s \in {r \in StoringIn(stored) : r[1] = t[1] /\ r[2] > t[2]}}
      fill == IF sky /\ t[1] \in sEnabled THEN FULL ELSE 0
  IN  IF t \in DOMAIN layers THEN [layer |-> layers[t], blank |-> FALSE]
      ELSE IF sky /\ above # {}
      THEN [layer |-> [p \in BlocksOf(t) |-> stored[<<p[1], Least(above) * Side>>]],
            blank |-> <<t[1], Least(above)>> \in blank]
      ELSE [layer |-> [p \in BlocksOf(t) |-> fill], blank |-> fill = 0]

(* The layers of those sections ts that do not store light yet are made.   *)
Made(old, layers, ts, sky) ==
  LET new == ts \ StoringIn(old.stored)
      made == [t \in new |-> create_layer(old.stored, old.blank, layers, t, sky)]
  IN  [stored |-> [p \in DOMAIN old.stored \cup UNION {BlocksOf(t) : t \in new} |->
                     IF p \in DOMAIN old.stored THEN old.stored[p]
                     ELSE made[section(p)].layer[p]],
       blank |-> old.blank \cup {t \in new : made[t].blank}]

(* update_section_status of a section with terrain: its own layer is       *)
(* planned first, those of its neighbours see it. Neighbours of a column   *)
(* are planned upwards, so none takes its layer from another.              *)
Supported(stored, blank, layers, s, sky) ==
  Made(Made([stored |-> stored, blank |-> blank], layers, {s}, sky), layers, Around(s), sky)

(* data_snapshot: queued layers over the published ones.                   *)
data_snapshot(visible, layers) ==
  [s \in DOMAIN layers \cup StoringIn(visible) |->
     IF s \in DOMAIN layers THEN layers[s] ELSE Layer(visible, s)]

(* Mutant: the cursor stays at the last section of a chunk.                *)
advance_stays ==
  /\ sectionY' = IF sectionY = MaxSection THEN MinSection ELSE sectionY + 1
  /\ UNCHANGED chunk

advance_section ==
  IF sectionY = MaxSection
  THEN chunk' = chunk + 1 /\ sectionY' = MinSection
  ELSE sectionY' = sectionY + 1 /\ UNCHANGED chunk

(* A phase that has gone through all chunks hands over to the next.        *)
Passes(next) == phase' = next /\ chunk' = 1

-----------------------------------------------------------------------------
(* Restored rows.                                                          *)

Row == saved[Address].rows[row]

RestoreRows ==
  /\ phase = "RestoreRows"
  /\ \/ /\ AllChunks
        /\ Passes(IF hasSky THEN "RestoreSources" ELSE "SupportBlock")
        /\ UNCHANGED <<row, retained>>
     \/ /\ ~AllChunks /\ row > Len(saved[Address].rows)
        /\ chunk' = chunk + 1 /\ row' = 1 /\ retained' = FALSE
        /\ UNCHANGED phase
     \/ /\ ~AllChunks /\ row <= Len(saved[Address].rows)
        /\ IF Row.block # <<>> \/ (hasSky /\ Row.sky # <<>>)
           THEN /\ phase' = IF retained THEN "RestoreRowBlock" ELSE "RestoreRetainBlock"
                /\ UNCHANGED row
           ELSE row' = row + 1 /\ UNCHANGED phase
        /\ UNCHANGED <<chunk, retained>>
  /\ UNCHANGED <<worldVars, blockVars, skyVars, sectionY, mode, hasSky, saved, queued, retain,
                 packet, edited, turns, past>>

RestoreRetain ==
  /\ \/ /\ phase = "RestoreRetainBlock" /\ phase' = "RestoreRetainSky"
        /\ retain' = [retain EXCEPT !.block = @ \cup {Address}]
        /\ UNCHANGED retained
     \/ /\ phase = "RestoreRetainSky" /\ phase' = "RestoreRowBlock"
        /\ hasSky => ~Busy
        /\ retain' = IF hasSky THEN [retain EXCEPT !.sky = @ \cup {Address}] ELSE retain
        /\ retained' = TRUE
  /\ UNCHANGED <<worldVars, blockVars, skyVars, chunk, sectionY, row, mode, hasSky, saved,
                 queued, packet, edited, turns, past>>

(* queue_bytes of the row's block, then sky layer; absent fields queue nothing. *)
RestoreRow ==
  LET s == <<Address, Row.y>>
  IN  /\ \/ /\ phase = "RestoreRowBlock" /\ phase' = "RestoreRowSky"
            /\ queued' = IF Row.block = <<>> THEN queued
                         ELSE [queued EXCEPT !.block = With(@, s, Row.block)]
            /\ UNCHANGED row
         \/ /\ phase = "RestoreRowSky" /\ phase' = "RestoreRows"
            /\ hasSky => ~Busy
            /\ queued' = IF ~hasSky \/ Row.sky = <<>> THEN queued
                         ELSE [queued EXCEPT !.sky = With(@, s, Row.sky)]
            /\ row' = row + 1
      /\ UNCHANGED <<worldVars, blockVars, skyVars, chunk, sectionY, retained, mode, hasSky,
                     saved, retain, packet, edited, turns, past>>

(* RestoreSources and SkySources differ only in what follows them.         *)
Sources ==
  /\ phase \in {"RestoreSources", "SkySources"}
  /\ IF AllChunks
     THEN /\ Passes(IF phase = "RestoreSources" THEN "SupportBlock" ELSE "SkyEnable")
          /\ UNCHANGED edges
     ELSE /\ initialize_sources(Address)
          /\ chunk' = chunk + 1
          /\ UNCHANGED phase
  /\ UNCHANGED <<mat, blockVars, skyVars, sectionY, row, retained, mode, hasSky, saved, queued,
                 retain, packet, edited, turns, past>>

-----------------------------------------------------------------------------
(* Support: every section with terrain, in both stores before the next.    *)

SupportBlock ==
  LET s == <<Address, sectionY>>
  IN  /\ phase = "SupportBlock"
      /\ IF AllChunks
         THEN /\ Passes(IF mode = "RestoreSaved" THEN "InitializeUpdateBlock"
                        ELSE IF hasSky THEN "SkySources" ELSE "BlockSources")
              /\ UNCHANGED <<bStored, sectionY, queued>>
         ELSE IF section_has_only_air(s)
         THEN advance_section /\ UNCHANGED <<phase, bStored, queued>>
         ELSE /\ bStored' = Supported(bStored, {}, queued.block, s, FALSE).stored
              /\ phase' = "SupportSky"
              /\ UNCHANGED <<chunk, sectionY, queued>>
      /\ UNCHANGED <<worldVars, bVisible, bEnabled, bChecks, bDecreases, bIncreases, bPhase,
                     bStamped, bCapacity, skyVars, row, retained, mode, hasSky, saved, retain,
                     packet, edited, turns, past>>

SupportSky ==
  LET s == <<Address, sectionY>>
  IN  /\ phase = "SupportSky"
      /\ IF hasSky
         THEN /\ ~Busy
              /\ \E next \in {Supported(sStored, sEmpty, queued.sky, s, TRUE)} :
                   sStored' = next.stored /\ sEmpty' = next.blank
         ELSE UNCHANGED <<sStored, sEmpty>>
      /\ phase' = "SupportBlock"
      /\ advance_section
      /\ UNCHANGED <<worldVars, blockVars, sVisible, sEnabled, sChecks, sDecreases, sIncreases,
                     sPopulate, sEnable, sRunning, sCapacity, sPlanLimit, row, retained, mode,
                     hasSky, saved, queued, retain, packet, edited, turns, past>>

-----------------------------------------------------------------------------
(* Runs: a completed run publishes and drops the queued layers it took.    *)

BlockRun ==
  /\ phase \in {"InitializeUpdateBlock", "BlockRun"}
  /\ \/ block_run /\ UNCHANGED <<phase, queued>>
     \/ /\ run_complete
        /\ queued' = [queued EXCEPT !.block =
             [s \in DOMAIN @ \ StoringIn(bStored) |-> @[s]]]
        /\ phase' = IF phase = "BlockRun"
                    THEN (IF hasSky THEN "SkyRun" ELSE "CaptureBlock")
                    ELSE (IF hasSky THEN "InitializeUpdateSky" ELSE "InitializePostBlock")
  /\ UNCHANGED <<worldVars, skyVars, chunk, sectionY, row, retained, mode, hasSky, saved,
                 retain, packet, edited, turns, past>>

SkyRun ==
  /\ phase \in {"InitializeUpdateSky", "SkyRun"}
  /\ \/ sky_run /\ UNCHANGED <<phase, queued>>
     \/ /\ sky_complete
        /\ queued' = [queued EXCEPT !.sky = [s \in DOMAIN @ \ StoringSections |-> @[s]]]
        /\ phase' = IF phase = "SkyRun" THEN "CaptureBlock" ELSE "InitializePostBlock"
  /\ UNCHANGED <<worldVars, blockVars, chunk, sectionY, row, retained, mode, hasSky, saved,
                 retain, packet, edited, turns, past>>

(* set_light_enabled(chunk, TRUE) as one call of a phase, resumed until it ends. *)
EnableSky(next) ==
  \/ EnableStarts(Address) /\ UNCHANGED phase
  \/ EnableSection(Address) /\ UNCHANGED phase
  \/ EnableEnds(Address) /\ phase' = next

InitializePost ==
  /\ \/ /\ phase = "InitializePostBlock" /\ AllChunks
        /\ Passes("RestoreLightBlock")
        /\ UNCHANGED <<blockVars, skyVars>>
     \/ /\ phase = "InitializePostBlock" /\ ~AllChunks
        /\ bEnabled' = IF is_lighted(chunk) THEN bEnabled \cup {Address}
                       ELSE bEnabled \ {Address}
        /\ phase' = "InitializePostSky"
        /\ UNCHANGED <<bStored, bVisible, bChecks, bDecreases, bIncreases, bPhase, bStamped,
                       bCapacity, skyVars, chunk>>
     \/ /\ phase = "InitializePostSky"
        /\ IF ~hasSky THEN phase' = "InitializeReleaseBlock" /\ UNCHANGED skyVars
           ELSE IF is_lighted(chunk) THEN EnableSky("InitializeReleaseBlock")
           ELSE DisableLight(Address) /\ phase' = "InitializeReleaseBlock"
        /\ UNCHANGED <<blockVars, chunk>>
  /\ UNCHANGED <<worldVars, sectionY, row, retained, mode, hasSky, saved, queued, retain,
                 packet, edited, turns, past>>

InitializeRelease ==
  /\ \/ /\ phase = "InitializeReleaseBlock" /\ phase' = "InitializeReleaseSky"
        /\ retain' = [retain EXCEPT !.block = @ \ {Address}]
        /\ UNCHANGED chunk
     \/ /\ phase = "InitializeReleaseSky" /\ phase' = "InitializePostBlock"
        /\ hasSky => ~Busy
        /\ retain' = IF hasSky THEN [retain EXCEPT !.sky = @ \ {Address}] ELSE retain
        /\ chunk' = chunk + 1
  /\ UNCHANGED <<worldVars, blockVars, skyVars, sectionY, row, retained, mode, hasSky, saved,
                 queued, packet, edited, turns, past>>

(* Chunks whose saved light was not complete are lit like fresh ones.      *)
RestoreLight ==
  /\ \/ /\ phase = "RestoreLightBlock" /\ AllChunks
        /\ phase' = "BlockRun" /\ UNCHANGED <<blockVars, skyVars, chunk>>
     \/ /\ phase = "RestoreLightBlock" /\ ~AllChunks /\ is_lighted(chunk)
        /\ chunk' = chunk + 1 /\ UNCHANGED <<blockVars, skyVars, phase>>
     \/ /\ phase = "RestoreLightBlock" /\ ~AllChunks /\ ~is_lighted(chunk)
        /\ propagate_light_sources(Address)
        /\ phase' = "RestoreLightSky" /\ UNCHANGED <<skyVars, chunk>>
     \/ /\ phase = "RestoreLightSky"
        /\ \/ ~hasSky /\ UNCHANGED skyVars
           \/ hasSky /\ (PopulateStarts(Address) \/ PopulateColumn(Address))
        /\ IF sPopulate' = NoCursor
           THEN chunk' = chunk + 1 /\ phase' = "RestoreLightBlock"
           ELSE UNCHANGED <<chunk, phase>>
        /\ UNCHANGED blockVars
  /\ UNCHANGED <<worldVars, sectionY, row, retained, mode, hasSky, saved, queued, retain,
                 packet, edited, turns, past>>

FreshSky ==
  /\ \/ /\ phase = "SkyEnable" /\ AllChunks
        /\ Passes("BlockSources") /\ UNCHANGED skyVars
     \/ /\ phase = "SkyEnable" /\ ~AllChunks
        /\ EnableSky("SkyPopulate") /\ UNCHANGED chunk
     \/ /\ phase = "SkyPopulate"
        /\ PopulateStarts(Address) \/ PopulateColumn(Address)
        /\ IF sPopulate' = NoCursor
           THEN chunk' = chunk + 1 /\ phase' = "SkyEnable"
           ELSE UNCHANGED <<chunk, phase>>
  /\ UNCHANGED <<worldVars, blockVars, sectionY, row, retained, mode, hasSky, saved, queued,
                 retain, packet, edited, turns, past>>

BlockSources ==
  /\ phase = "BlockSources"
  /\ IF AllChunks THEN phase' = "BlockRun" /\ UNCHANGED <<blockVars, chunk>>
     ELSE propagate_light_sources(Address) /\ chunk' = chunk + 1 /\ UNCHANGED phase
  /\ UNCHANGED <<worldVars, skyVars, sectionY, row, retained, mode, hasSky, saved, queued,
                 retain, packet, edited, turns, past>>

Capture ==
  /\ \/ /\ phase = "CaptureBlock" /\ phase' = "CaptureSky"
        /\ packet' = [packet EXCEPT !.block = data_snapshot(bVisible, queued.block)]
     \/ /\ phase = "CaptureSky" /\ phase' = "Complete"
        /\ packet' = IF hasSky
                     THEN [packet EXCEPT !.sky = data_snapshot(sVisible, queued.sky)]
                     ELSE packet
  /\ UNCHANGED <<worldVars, blockVars, skyVars, chunk, sectionY, row, retained, mode, hasSky,
                 saved, queued, retain, edited, turns, past>>

Work ==
  \/ RestoreRows \/ RestoreRetain \/ RestoreRow \/ Sources
  \/ SupportBlock \/ SupportSky
  \/ BlockRun \/ SkyRun
  \/ InitializePost \/ InitializeRelease \/ RestoreLight
  \/ FreshSky \/ BlockSources \/ Capture

(* The next unit fails for want of queue or plan capacity.                 *)
Starved ==
  \/ phase \in {"InitializeUpdateBlock", "BlockRun"} /\ BlockStarved
  \/ phase \in {"InitializeUpdateSky", "SkyRun"} /\ SkyStarved
  \/ phase \in {"SkyPopulate", "RestoreLightSky"} /\ PopulateStarved
  \/ /\ phase \in {"BlockSources", "RestoreLightBlock"} /\ ~AllChunks
     /\ Len(bIncreases) + Len(emission_sources(Address)) > bCapacity

(* grow_block_queues and grow_sky_queues/plan answer a unit that does not fit. *)
Grow ==
  /\ Starved
  /\ \/ GrowBlock /\ UNCHANGED skyVars
     \/ hasSky /\ GrowSky /\ UNCHANGED blockVars
  /\ UNCHANGED <<worldVars, workOnly>>

-----------------------------------------------------------------------------
(* The host of a completed domain.                                         *)

(* A new source differs in one block of a section that keeps its terrain.  *)
Edit(p, m) ==
  /\ phase = "Complete" /\ edited = NoBlock /\ turns < MaxTurns
  /\ mat[p] # m /\ ~section_has_only_air(section(p))
  /\ \E q \in BlocksOf(section(p)) \ {p} : mat[q] # "air"
  /\ mat' = [mat EXCEPT ![p] = m]
  /\ edited' = p /\ turns' = turns + 1 /\ past' = [past EXCEPT !.edits = @ + 1]
  /\ UNCHANGED <<edges, blockVars, skyVars, phase, chunk, sectionY, row, retained, mode,
                 hasSky, saved, queued, retain, packet>>

(* The engines are told: source edges first, then the checks, then a run.  *)
Tell ==
  /\ phase = "Complete" /\ edited # NoBlock
  /\ check_block(edited)
  /\ IF hasSky THEN update_sources(edited) /\ sky_check_block(edited)
     ELSE UNCHANGED <<edges, skyVars>>
  /\ phase' = "BlockRun" /\ edited' = NoBlock
  /\ UNCHANGED <<mat, chunk, sectionY, row, retained, mode, hasSky, saved, queued, retain,
                 packet, turns, past>>

(* The rows a chunk was saved with: rows of uniform levels that came       *)
(* before, then the captured layers from the lowest section up, of which   *)
(* those kept are there. A layer or level <<>> is an absent field.         *)
RowsOf(c, save) ==
  LET ys == Ascending({s[2] : s \in {t \in DOMAIN packet.block \cup DOMAIN packet.sky :
                                       t[1] = c}})
      Uniform(level, y) == IF level = <<>> THEN <<>> ELSE [p \in BlocksOf(<<c, y>>) |-> level[1]]
      Field(kind, y) == IF <<kind, <<c, y>>>> \in save.kept /\ <<c, y>> \in DOMAIN packet[kind]
                        THEN packet[kind][<<c, y>>] ELSE <<>>
  IN  [i \in DOMAIN save.before |->
         LET r == save.before[i]
         IN  [y |-> r.y, block |-> Uniform(r.block, r.y), sky |-> Uniform(r.sky, r.y)]]
      \o [i \in DOMAIN ys |-> [y |-> ys[i], block |-> Field("block", ys[i]),
                               sky |-> Field("sky", ys[i])]]

(* new_restore over the same terrain of light that was saved in any form:  *)
(* the flag of a chunk says nothing of its rows, rows may lack fields, and *)
(* fields may be there twice or for sections that have no support.         *)
Restore(save) ==
  /\ phase = "Complete" /\ edited = NoBlock /\ turns < MaxTurns
  /\ mode' = "RestoreSaved" /\ phase' = "RestoreRows"
  /\ saved' = [c \in Chunks |-> [lighted |-> c \in save.lighted, rows |-> RowsOf(c, save)]]
  /\ past' = [edits |-> 0, whole |->
       \/ /\ past.whole
          /\ \A kind \in {"block", "sky"} : \A s \in LightSections :
               s \in DOMAIN packet[kind] => <<kind, s>> \in save.kept
          /\ hasSky => \A x \in Columns : edges[x] = InitialEdge(x)
       \/ save.lighted = {} /\ save.kept = {} /\ save.before = <<>>]
  /\ chunk' = 1 /\ sectionY' = MinSection /\ row' = 1 /\ retained' = FALSE
  /\ queued' = [block |-> NoLayers, sky |-> NoLayers]
  /\ retain' = [block |-> {}, sky |-> {}]
  /\ packet' = [block |-> NoLayers, sky |-> NoLayers]
  /\ bStored' = NoWrites /\ bVisible' = NoWrites /\ bEnabled' = {} /\ bPhase' = "Idle"
  /\ bStamped' = FALSE /\ bCapacity' = BlockQueue
  /\ bChecks' = <<>> /\ bDecreases' = <<>> /\ bIncreases' = <<>>
  /\ sStored' = NoWrites /\ sEmpty' = {} /\ sVisible' = NoWrites /\ sEnabled' = {}
  /\ sChecks' = <<>> /\ sDecreases' = <<>> /\ sIncreases' = <<>> /\ sRunning' = FALSE
  /\ sPopulate' = NoCursor /\ sEnable' = NoCursor
  /\ sCapacity' = SkyQueue /\ sPlanLimit' = SkyPlan
  /\ edges' = [x \in Columns |-> Unknown]
  /\ turns' = turns + 1
  /\ UNCHANGED <<mat, hasSky, edited>>

Init ==
  /\ mat \in Worlds
  /\ edges = [x \in Columns |-> Unknown]
  /\ BlockInit /\ SkyInit
  /\ phase = "SupportBlock" /\ mode = "Fresh" /\ hasSky \in BOOLEAN
  /\ chunk = 1 /\ sectionY = MinSection /\ row = 1 /\ retained = FALSE
  /\ saved = [c \in Chunks |-> [lighted |-> FALSE, rows |-> <<>>]]
  /\ queued = [block |-> NoLayers, sky |-> NoLayers]
  /\ retain = [block |-> {}, sky |-> {}]
  /\ packet = [block |-> NoLayers, sky |-> NoLayers]
  /\ edited = NoBlock /\ turns = 0 /\ past = [whole |-> TRUE, edits |-> 0]

Next ==
  \/ Work \/ Grow \/ Tell
  \/ \E p \in Blocks, m \in EditMaterials : Edit(p, m)
  \/ \E save \in Saves : Restore(save)

Spec == Init /\ [][Next]_vars
FairSpec == Spec /\ WF_vars(Work)

-----------------------------------------------------------------------------
(* Properties.                                                             *)

(* The cached sky edges follow the terrain through edits.                  *)
SourcesCurrent == edited = NoBlock => EdgesCurrent

(* The layer saved last for a section, of the chunks restored.             *)
SavedFields(kind) ==
  {x \in UNION {{c} \X DOMAIN saved[c].rows : c \in Chunks} :
     saved[x[1]].rows[x[2]][kind] # <<>>}
SavedLayers(kind) ==
  LET At(s) == {x[2] : x \in {f \in SavedFields(kind) :
                                <<f[1], saved[f[1]].rows[f[2]].y>> = s}}
  IN  [s \in {<<f[1], saved[f[1]].rows[f[2]].y>> : f \in SavedFields(kind)} |->
         saved[s[1]].rows[Most(At(s))][kind]]

(* A view for packets shows the published layers, and beyond them the      *)
(* layers saved for sections without support. Until a block is edited no   *)
(* level is below the one that was saved, whatever the flags said.         *)
ViewOf(view, visible, layers) ==
  /\ DOMAIN view = StoringIn(visible) \cup DOMAIN layers
  /\ \A s \in DOMAIN view :
       view[s] = IF s \in StoringIn(visible) THEN Layer(visible, s) ELSE layers[s]
  /\ past.edits = 0 => \A s \in StoringIn(visible) \cap DOMAIN layers :
                         \A p \in BlocksOf(s) : visible[p] >= layers[s][p]

(* Whatever is exposed at completion, in slices and with retries of units  *)
(* that found a queue full: unless incomplete light was restored, or light *)
(* of other edges, both layers are an assignment of levels that the        *)
(* terrain's own sources and dampening explain, for a fresh domain, a      *)
(* restored one and one edited since. In any case the engines are idle,    *)
(* the views for packets hold what was published and what was saved, and   *)
(* no retention is left behind.                                            *)
LightSettled ==
  phase = "Complete" /\ edited = NoBlock =>
    /\ past.whole => BlockSettled(bVisible)
    /\ past.whole /\ hasSky => SkySettled(sVisible)
    /\ BlockIdle /\ (hasSky => SkyIdle)
    /\ ViewOf(packet.block, bVisible, SavedLayers("block"))
    /\ hasSky => ViewOf(packet.sky, sVisible, SavedLayers("sky"))
    /\ ~hasSky => packet.sky = NoLayers
    /\ retain.block = {} /\ retain.sky = {}

(* The light of a finished domain and the edges it was computed from.      *)
LightSound == LightSettled /\ SourcesCurrent

(* A work that is stepped completes, unless a unit waits for a larger      *)
(* queue: no phase revisits its work and propagation dies out.             *)
WorkEnds == (phase # "Complete") ~> (phase = "Complete" \/ Starved)
=============================================================================
