-------------------------- MODULE PlatformComposer --------------------------
(***************************************************************************)
(* Platforms: what a named disaster gets (app/modules/scenarios.py and     *)
(* app/services/platform_service.py), how a platform is created, published *)
(* and archived (app/routers/platforms.py), and how a demonstration keeps  *)
(* its workspace clean (prune_generated, app/routers/demo.py and the       *)
(* seeding of the demo platform in app/services/demo_seed_service.py).     *)
(*                                                                         *)
(* A creation looks for a free address, inserts the platform with its      *)
(* module rows and commits, and then retires older generated platforms in  *)
(* a transaction of its own; requests overlap between these steps.         *)
(*                                                                         *)
(* Left out: map centre and zoom, labels, the replay of the demo reports,  *)
(* changes of the configuration (LineBinding has the cluster policy), and  *)
(* a clock that runs backwards: created_at grows with every insertion.     *)
(***************************************************************************)
EXTENDS Naturals, FiniteSets, SequencesExt, Catalogue

CONSTANTS
  Null,         \* nothing given
  Counties,     \* the counties platforms are created for
  Nantou,       \* the county whose open data has a connector
  Asks,         \* creations the console asks for
  DemoMode,     \* DEMO_MODE
  Keep,         \* DEMO_KEEP_GENERATED
  Workers,      \* requests that may be in progress together
  MaxPlatforms, \* bound: platforms ever created
  MaxAborts     \* bound: requests that die half way

ASSUME CountyAssumption == Nantou \in Counties /\ Null \notin Counties
\* What the console sends; "modules", "layers", "categories" and "slug" may be Null.
ASSUME AsksAssumption ==
  \A ask \in Asks :
    /\ ask.hazards \in Seq(STRING) /\ ask.county \in Counties \cup { Null }
    /\ ask.layers = Null \/ ask.layers \in Seq(STRING)
    /\ ask.publish \in BOOLEAN
ASSUME KeepAssumption   == DemoMode \in BOOLEAN /\ Keep \in Nat
ASSUME BoundsAssumption == MaxPlatforms \in Nat /\ MaxAborts \in Nat

VARIABLES
  platforms,  \* platforms[p]: the committed row p; a greater p was created later
  count,      \* creations begun
  req,        \* req[w]: the transaction of worker w
  aborts      \* requests that died so far

vars == <<platforms, count, req, aborts>>

-----------------------------------------------------------------------------
(* Composition: app/modules/scenarios.py *)

\* The elements of s at the places in I, and those that are in S.
Kept(s, I) ==
  LET out[i \in 0..Len(s)] ==
        IF i = 0 THEN << >>
        ELSE IF i \in I THEN Append(out[i - 1], s[i]) ELSE out[i - 1]
  IN out[Len(s)]

Only(s, S) == Kept(s, { i \in DOMAIN s : s[i] \in S })

\* _ordered_union without an order: each element where it comes first.
OrderedUnion(s) == Kept(s, { i \in DOMAIN s : \A j \in 1..(i - 1) : s[j] # s[i] })

BaseLayers ==
  << "incident_cases", "report_clusters", "citizen_reports", "heatmap",
     "government_processing" >>

\* The fire stations are known for one county only.
ProfileLayers(hz, county) ==
  LET given == IF hz = << >> THEN << "road_damage", "shelter", "official_alert" >>
               ELSE OrderedUnion(FlattenSeq([i \in DOMAIN hz |-> HazardLayers[hz[i]]]))
      all   == BaseLayers \o Only(given, LayerKeys \ ToSet(BaseLayers))
  IN CASE county = Null   -> all
       [] county = Nantou -> IF "fire_station" \in ToSet(all) THEN all
                             ELSE Append(all, "fire_station")
       [] OTHER           -> Only(all, LayerKeys \ { "fire_station" })

ProfileModules_slip(hz, county) ==
  CoreFeatures \cup { LayerModule[l] : l \in ToSet(ProfileLayers(hz, county)) } \cup
    { m \in DOMAIN DefaultFor : DefaultFor[m] \cap ToSet(hz) # {} }

ProfileModules(hz, county) ==
  LET for      == IF hz = << >> THEN { "*" } ELSE ToSet(hz)
      features == CoreFeatures \cup
                    { m \in DOMAIN DefaultFor :
                        /\ DefaultFor[m] \cap for # {}
                        /\ m = "nantou_open_data_connector" => county = Nantou }
      shown    == { LayerModule[l] : l \in ToSet(ProfileLayers(hz, county)) }
  IN features \cup shown \cup UNION { Dependencies[m] : m \in shown }

ProfileCategories(hz) ==
  LET known == IF hz = << >>
               THEN { "road_blocked", "flooding", "trapped_person", "building_damage" }
               ELSE UNION { HazardCategories[h] : h \in ToSet(hz) }
  IN Append(Only(FormOrder, known \ { "other" }), "other")

-----------------------------------------------------------------------------
(* Selection: resolve_selection *)

\* A creation asks for hazards and a county, and for modules, layers, report
\* categories and an address, or leaves each of these to the composer.
Known(hz) == Only(hz, HazardKeys)

WantedModules(ask) ==
  IF ask.modules = Null THEN ProfileModules(Known(ask.hazards), ask.county) ELSE ask.modules

WantedLayers(ask) ==
  IF ask.layers = Null THEN ProfileLayers(Known(ask.hazards), ask.county) ELSE ask.layers

Acceptable(ask) ==
  /\ Known(ask.hazards) # << >>
  /\ WantedModules(ask) \subseteq ModuleIds
  /\ ToSet(WantedLayers(ask)) \subseteq LayerKeys

\* The operators marked "slip" are mistakes a change to the next operator could
\* make; no action uses them.
Closure_slip(wanted) == wanted

closure[S \in SUBSET ModuleIds] ==
  LET more == S \cup UNION { Dependencies[m] : m \in S }
  IN IF more = S THEN S ELSE closure[more]

Closure(wanted) == closure[wanted]

Selected(ask) ==
  Closure(WantedModules(ask) \cup CoreIds \cup
          { LayerModule[l] : l \in ToSet(WantedLayers(ask)) })

\* The layers of the selected modules, those asked for first and in that order.
SelectedLayers(ask) ==
  OrderedUnion(WantedLayers(ask) \o
               Only(LayerOrder, { l \in LayerKeys : LayerModule[l] \in Selected(ask) }))

\* What an officer lists wins; "other" is always offered.
SelectedCategories(ask) ==
  LET listed == IF ask.categories = Null THEN << >>
                ELSE Only(ask.categories, Categories)
  IN IF listed = << >> THEN ProfileCategories(Known(ask.hazards))
     ELSE IF "other" \in ToSet(listed) THEN listed ELSE Append(listed, "other")

\* _slug_base: the county and the first hazards, unless an address is given.
Base(ask) ==
  IF ask.slug # Null THEN << ask.slug >>
  ELSE << ask.county >> \o SubSeq(Known(ask.hazards), 1, Min({ 2, Len(Known(ask.hazards)) }))

-----------------------------------------------------------------------------
(* The shape of the data *)

Ids == 1..MaxPlatforms

Absent ==
  [ status |-> "absent", slug |-> << >>, suffix |-> 0, demo |-> FALSE, stamped |-> FALSE,
    ask |-> Null, modules |-> {}, rows |-> {}, layers |-> << >>, categories |-> << >> ]

\* seed_nantou: the platform of the demonstration.
DemoAsk ==
  [ hazards |-> << "typhoon", "heavy_rain", "landslide", "flood" >>, county |-> Nantou,
    modules |-> Null, layers |-> Null, categories |-> Null, slug |-> "demo", publish |-> TRUE ]

\* Per creation, once: what the platform gets and what its preview shows.
Composed ==
  [ ask \in Asks \cup { DemoAsk } |->
      [ modules |-> Selected(ask), layers |-> SelectedLayers(ask),
        categories |-> SelectedCategories(ask) ] ]

Preview ==
  [ ask \in Asks \cup { DemoAsk } |->
      [ modules |-> ProfileModules(Known(ask.hazards), ask.county),
        layers |-> ProfileLayers(Known(ask.hazards), ask.county),
        categories |-> ProfileCategories(Known(ask.hazards)) ] ]

\* create_platform: the row and its PlatformModuleConfig rows.
NewPlatform(ask, suffix, demo) ==
  [ status |-> IF ask.publish THEN "published" ELSE "draft", slug |-> Base(ask),
    suffix |-> suffix, demo |-> demo, stamped |-> ask.publish, ask |-> ask,
    modules |-> Composed[ask].modules, rows |-> Composed[ask].modules,
    layers |-> Composed[ask].layers, categories |-> Composed[ask].categories ]

Idle == [ pc |-> "idle", kind |-> "none", id |-> 0, ask |-> Null, row |-> Absent, victims |-> {} ]

Init ==
  /\ platforms = [p \in Ids |-> Absent]
  /\ count = 0
  /\ req = [w \in Workers |-> Idle]
  /\ aborts = 0

Present == { p \in Ids : platforms[p].status # "absent" }
Demos   == { p \in Present : platforms[p].demo }

Goto(w, r) == req' = [req EXCEPT ![w] = r] /\ UNCHANGED <<platforms, aborts>>

-----------------------------------------------------------------------------
(* Creation *)

Creating(ask) == [Idle EXCEPT !.pc = "slug", !.ask = ask, !.id = count + 1]

\* A selection that is not acceptable is answered with 422.  created_at is the
\* time of the transaction, which begins when the request arrives.
Create(w) ==
  \E ask \in Asks :
    /\ req[w].pc = "idle" /\ Acceptable(ask) /\ count < MaxPlatforms
    /\ Goto(w, [Creating(ask) EXCEPT !.kind = "create"])
    /\ count' = count + 1

\* _unique_slug: the base if no committed row has it, else with a random suffix.
FindSlug(w) ==
  LET ask   == req[w].ask
      taken == \E p \in Present : platforms[p].slug = Base(ask) /\ platforms[p].suffix = 0
  IN
  /\ req[w].pc = "slug"
  /\ Goto(w, [req[w] EXCEPT !.pc = "insert",
       !.row = NewPlatform(ask, IF taken THEN req[w].id ELSE 0, req[w].kind = "seed")])
  /\ UNCHANGED count

\* platforms.slug is unique: the later of two creations that found the same
\* address free fails.
Clash(row) ==
  \E p \in Present : platforms[p].slug = row.slug /\ platforms[p].suffix = row.suffix

Insert(w) ==
  LET r == req[w] IN
  /\ r.pc = "insert"
  /\ IF Clash(r.row) THEN Goto(w, Idle)
     ELSE /\ platforms' = [platforms EXCEPT ![r.id] = r.row]
          /\ req' = [req EXCEPT ![w] =
               IF r.kind = "create"
               THEN [Idle EXCEPT !.pc = "clean", !.kind = "create", !.id = r.id] ELSE Idle]
          /\ UNCHANGED aborts
  /\ UNCHANGED count

-----------------------------------------------------------------------------
(* prune_generated *)

\* The newest ones stay; what the request has just created is no candidate.
Victims(disposable, limit) ==
  { p \in disposable : Cardinality({ q \in disposable : q > p }) >= limit }

Disposable_slip(protect) == Present \ protect

Disposable(protect) == Present \ (Demos \cup protect)

Limit_slip(keep, protect) == keep

Limit(keep, protect) ==
  IF Cardinality(protect) > keep THEN 0 ELSE keep - Cardinality(protect)

Retire(w, r, victims) ==
  Goto(w, IF victims = {} THEN Idle ELSE [r EXCEPT !.pc = "delete", !.victims = victims])

\* After a creation: its row is read again, which fails (an answer 500) if
\* another request has retired it meanwhile.
CleanUp(w) ==
  LET r == req[w] IN
  /\ r.pc = "clean"
  /\ IF r.id \in Present /\ DemoMode
     THEN Retire(w, r, Victims(Disposable({ r.id }), Limit(Keep, { r.id })))
     ELSE Goto(w, Idle)
  /\ UNCHANGED count

\* POST /platforms/prune.
Prune(w) ==
  \E keep \in 0..Keep :
    /\ req[w].pc = "idle" /\ DemoMode
    /\ Victims(Disposable({}), Limit(keep, {})) # {}
    /\ Retire(w, [Idle EXCEPT !.kind = "prune"], Victims(Disposable({}), Limit(keep, {})))
    /\ UNCHANGED count

\* seed_nantou: nothing if there is a demo platform; with force, the old ones
\* go first, in a transaction of their own.
Seed(w) ==
  \E force \in BOOLEAN :
    /\ req[w].pc = "idle" /\ DemoMode /\ count < MaxPlatforms
    /\ Demos # {} => force
    /\ LET r == [Creating(DemoAsk) EXCEPT !.kind = "seed"] IN
       IF Demos = {} THEN Goto(w, r) ELSE Retire(w, r, Demos)
    /\ count' = count + 1

\* The deletion commits; module rows, reports and cases go with the platform.
Delete(w) ==
  LET r == req[w] IN
  /\ r.pc = "delete"
  /\ platforms' = [p \in Ids |-> IF p \in r.victims THEN Absent ELSE platforms[p]]
  /\ req' = [req EXCEPT ![w] = IF r.kind = "seed" THEN [r EXCEPT !.pc = "slug", !.victims = {}]
                               ELSE Idle]
  /\ UNCHANGED <<count, aborts>>

-----------------------------------------------------------------------------
(* set_status *)

Statuses == { "draft", "published", "archived" }

Published(row, status) ==
  [row EXCEPT !.status = status, !.stamped = @ \/ status = "published"]

\* One step: of two that overlap, each writes what it would write if it came
\* first or last, and one whose platform is gone fails.
SetStatus(w) ==
  \E p \in Present, status \in Statuses :
    /\ req[w].pc = "idle" /\ status # platforms[p].status
    /\ platforms' = [platforms EXCEPT ![p] = Published(@, status)]
    /\ UNCHANGED <<count, req, aborts>>

\* The process or its connection dies.
Abort(w) ==
  /\ req[w].pc # "idle" /\ aborts < MaxAborts
  /\ aborts' = aborts + 1
  /\ req' = [req EXCEPT ![w] = Idle]
  /\ UNCHANGED <<platforms, count>>

-----------------------------------------------------------------------------
(* The specification *)

Next ==
  \E w \in Workers :
    \/ Create(w) \/ Seed(w) \/ Prune(w) \/ SetStatus(w)
    \/ FindSlug(w) \/ Insert(w) \/ CleanUp(w) \/ Delete(w) \/ Abort(w)

Spec == Init /\ [][Next]_vars

-----------------------------------------------------------------------------
(* What holds however many requests overlap *)

\* "A platform can never be generated in a non-functional shape": it has the core
\* modules and all that its modules need, the layers of just these modules, each
\* once and with the connector that feeds it, and one row for each module; and a
\* published one knows since when.
PlatformsWork ==
  \A p \in Present :
    LET row == platforms[p] IN
    /\ CoreIds \subseteq row.modules
    /\ \A m \in row.modules : Dependencies[m] \subseteq row.modules
    /\ IsInjective(row.layers)
    /\ ToSet(row.layers) = { l \in LayerKeys : LayerModule[l] \in row.modules }
    /\ \A l \in ToSet(row.layers) \cap DOMAIN Source : Source[l] \in row.modules
    /\ row.rows = row.modules
    /\ row.status = "published" => row.stamped

\* "What a platform for this disaster would contain, before anything is written":
\* a platform whose selection was left to the composer has the modules, the layers
\* in their order and the form that the preview of its hazards showed.
PreviewHonoured ==
  \A p \in Present :
    LET row == platforms[p] IN
    row.ask.modules = Null /\ row.ask.layers = Null =>
      /\ row.modules = Preview[row.ask].modules
      /\ row.layers = Preview[row.ask].layers
      /\ row.ask.categories = Null => row.categories = Preview[row.ask].categories

\* Cleaning up never takes the demo platform, nor the platform whose creation
\* cleans up; only seeding anew replaces the demo platform.
RetiredWell ==
  [][\A w \in Workers :
       req[w].pc = "delete" /\ req'[w].pc # "delete" /\ platforms' # platforms =>
         /\ req[w].id \in Present => req[w].id \in Present'
         /\ \A p \in Present \ Present' : platforms[p].demo <=> req[w].kind = "seed"]_vars

Quiet == \A w \in Workers : req[w].pc = "idle"

\* "Only the newest survive": in a demonstration the generated platforms never
\* pile up, however their creations overlap; a request that dies before it
\* cleans up leaves one more until the next.
GeneratedBounded ==
  DemoMode /\ Quiet =>
    Cardinality(Present \ Demos) <= (IF Keep = 0 THEN 1 ELSE Keep) + aborts
=============================================================================
