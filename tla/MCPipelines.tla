---------------------------- MODULE MCPipelines ----------------------------
(* A small instance, for TLC, of the modules on what the flows and scripts *)
(* around the two queues do: they find models, start on an old database,   *)
(* call models, parse reports, collect advisories and score. Each behaviour*)
(* is of one part and leaves the variables of the others alone.            *)
EXTENDS Discovery, Schema, Inference, GarakReport, CtiSources, CtiScoring, TLC

CONSTANTS
  t1, t2, t3, A, B, a1, c1, c2, i1,
  Parts \* the parts to check

(* Databases that an older release left: without a nullable and a defaulted*)
(* column, and without one that cannot be added.                           *)
LeftColumns(t) ==
  CASE t = "models" -> Columns(t) \ {"source", "cutoff_start"}
    [] t \in {"runs", "probe_results"} -> Columns(t)
    [] OTHER -> {}
OldDb == [t \in OrmTables |-> LeftColumns(t)]
MCOlder == {OldDb, [OldDb EXCEPT !["runs"] = @ \ {"created_at"}]}

MCInstalled == <<<<"dan", "A">>, <<"dan", "AFull">>, <<"enc", "B">>>>
MCFull == {<<"dan", "AFull">>}
MCDetectorsOf ==
  [p \in Range(MCInstalled) |-> IF p[2] = "A" THEN <<"d1", "d2">> ELSE <<"d1">>]
MCDefault == {<<"dan", "A">>, <<"enc", "B">>}
MCRequested == {{}, {<<"dan">>, <<"enc", "B">>}}

(* Three agencies, two of them with copies of one advisory, the third with *)
(* one that is like each of the copies' CVEs in part.                      *)
Word(k, v) == [kind |-> k, value |-> v, word |-> TRUE]
InWord(k, v) == [kind |-> k, value |-> v, word |-> FALSE]
Sec(head, text) == [head |-> head, text |-> text]
Page(site, slug, day, secs) ==
  [site |-> site, slug |-> slug, numbers |-> << >>, date |-> day, sections |-> secs]
MCPriority == <<"cisa", "cccs", "dfir">>
MCPages ==
  <<Page("cccs", "al1", 1,
         <<Sec({}, <<Word("cve", c1), Word("technique", t1), Word("name", a1)>>),
           Sec({"drop elsewhere"}, <<Word("name", A)>>)>>),
    Page("cisa", "aa1", 1,
         <<Sec({"overview"}, <<Word("cve", c1), InWord("technique", t1)>>),
           Sec({"drop"}, <<Word("technique", t1), Word("name", A)>>),
           Sec({"ioc", "drop"}, <<Word("ioc", i1)>>)>>),
    Page("dfir", "aa2", Dateless,
         <<Sec({}, <<Word("cve", c1), Word("cve", c2), Word("name", B)>>)>>)>>
MCIdWords == [aa1 |-> {"aa", "1"}, al1 |-> {"al", "1"}, aa2 |-> {"a2"}]

MCClusters ==
  {[from |-> "galaxy",
    entries |-> <<[uuid |-> 1, name |-> A, synonyms |-> <<a1>>, related |-> {2}],
                  [uuid |-> 2, name |-> B, synonyms |-> << >>, related |-> {}]>>],
   [from |-> "malpedia", entries |-> <<[name |-> B, synonyms |-> <<a1>>]>>],
   [from |-> "malpedia", entries |-> <<[name |-> B, synonyms |-> <<A>>]>>]}
Pattern(stix, ext) == [stix |-> stix, ext |-> ext]
MCBundles ==
  {[patterns |-> {Pattern(1, t1), Pattern(2, t2), Pattern(3, NoId)}, revoked |-> {<<2, 1>>}],
   [patterns |-> {Pattern(3, t3), Pattern(2, t2)}, revoked |-> {<<2, 3>>}]}

(* Labels and answers of each task: none, right, in part, unreadable.      *)
Vector(ok, base) == [valid |-> ok, base |-> base]
Claim(type, v) == [type |-> type, value |-> v]
Hedged(type, v, h) == [type |-> type, value |-> v, hedge |-> h]
Number(n) == [hundredths |-> n, percent |-> FALSE]
MCFading == <<1, 2>>
MCLabelsOf(t) ==
  CASE t = "rcm" -> {{t1}, {t1, t2}}
    [] t = "ate" -> {{t1}, {t2, t3}}
    [] t = "vsp" -> {Vector(TRUE, 98), Vector(TRUE, 20)}
    [] t = "taa" -> {A, B}
    [] t = "forecast" -> BOOLEAN
    [] t = "syn" -> {{Hedged("actor", A, Zero), Hedged("cve", t1, <<1, 2>>)}, {}}
MCAnswersTo(t) ==
  CASE t = "rcm" -> {<< >>, <<{t1, t2}, {t1}>>, <<{t2}, {}>>, <<{t1, t2}>>}
    [] t = "ate" -> {<< >>, <<{t1}, {t3}>>, <<{t2}>>}
    [] t = "vsp" -> {<<{Vector(FALSE, 0)}>>, <<{Vector(TRUE, 98)}, {}>>, <<{Vector(TRUE, 75)}>>}
    [] t = "taa" -> {<<{}>>, <<{A}>>, <<{B}, {a1}>>}
    [] t = "forecast" -> {<< >>, <<{Number(75)}>>, <<{Number(3000)}>>}
    [] t = "syn" -> {<< >>, <<{Claim("actor", A)}, {Claim("cve", t1)}>>}

VARIABLE part

(* Dates differ where a series is scored, and each part starts from one    *)
(* state of the others.                                                    *)
Init ==
  /\ part \in Parts
  /\ DiscoveryInit
  /\ SchemaInit /\ (part # "schema" => columns = NoTables)
  /\ InferenceInit
  /\ (part # "inference" => model = [prefix |-> "", thinking |-> FALSE])
  /\ GarakInit /\ (part # "garak" => wanted = {})
  /\ SourcesInit /\ ScoringInit
  /\ (part # "scoring" => asked = "forecast" /\ label = [q \in 1..Questions |-> TRUE])
  /\ (part # "scoring" \/ asked \notin {"rcm", "forecast"}
        => date = [q \in 1..Questions |-> q])

(* Syncs overlap while no scan was triggered: scripts share only the table *)
(* with them.                                                              *)
InDiscovery ==
  /\ part = "discovery" /\ DiscoveryNext
  /\ \/ scanned' = {} /\ script' = << >>
     \/ \E f \in Syncers : phase'[f] = "idle"
  /\ UNCHANGED <<part, schemaVars, inference, scan, reference, sources, run>>
InSchema ==
  /\ part = "schema" /\ SchemaNext
  /\ UNCHANGED <<part, discovery, inference, scan, reference, sources, run>>
InInference ==
  /\ part = "inference" /\ InferenceNext
  /\ UNCHANGED <<part, discovery, schemaVars, scan, reference, sources, run>>
InGarak ==
  /\ part = "garak" /\ GarakNext
  /\ UNCHANGED <<part, discovery, schemaVars, inference, reference, sources, run>>

(* The two flows that collect share nothing but the reference data: they   *)
(* are parts of their own.                                                 *)
InSources ==
  /\ part \in Collectors /\ SourcesNext
  /\ \A f \in Collectors \ {part} : stage'[f] = Idle
  /\ techniques' = techniques
  /\ UNCHANGED <<part, discovery, schemaVars, inference, scan, run>>

(* The cluster that has an actor's name as another's alias is for masking. *)
InScoring ==
  /\ part = "scoring" /\ ScoringNext
  /\ actors' # actors =>
       asked \in {"taa", "syn"} /\ \A a \in Range(actors') : A \notin Range(a.aliases)
  /\ techniques' # techniques => asked = "ate"
  /\ UNCHANGED <<part, discovery, schemaVars, inference, scan, sources>>

Next == InDiscovery \/ InSchema \/ InInference \/ InGarak \/ InSources \/ InScoring

vars == <<part, discovery, schemaVars, inference, scan, reference, sources, run>>

(* Fairness is that of the schema: a behaviour of another part, in which   *)
(* no process starts, is not a fair one, and only safety is checked of it. *)
Spec == Init /\ [][Next]_vars /\ SchemaFairness
=============================================================================
