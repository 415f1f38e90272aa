---------------------------- MODULE CtiReference ----------------------------
(***************************************************************************)
(* The reference data of the CTI benchmark: the tables of ATT&CK           *)
(* techniques and of threat actors, the weekly flows that refresh them     *)
(* from what MITRE, MISP and Malpedia publish, and the indices that        *)
(* ingestion and scoring build from them.                                  *)
(*                                                                         *)
(* Names are compared without regard to case; here they have none.         *)
(***************************************************************************)
EXTENDS Naturals, SequencesExt, FiniteSetsExt, Picks

CONSTANTS
  Bundles,   \* published ATT&CK bundles
  Clusters,  \* published actor clusters
  NoId       \* no technique

ASSUME ReferenceAssumption ==
  \A c \in Clusters :
    /\ c.entries \in Seq(Range(c.entries))
    /\ \A e \in Range(c.entries) : e.synonyms \in Seq(Range(e.synonyms))

VARIABLES
  techniques, \* rows of cti_attack_techniques: technique ids with their revoked_by
  actors      \* rows of cti_threat_actors in the order of a table scan

reference == <<techniques, actors>>

ReferenceInit == techniques = << >> /\ actors = << >>

-----------------------------------------------------------------------------
(* ATT&CK: a bundle has patterns, with a STIX id and, but for those of     *)
(* other sources, an external id; and pairs of a revoked pattern and what  *)
(* replaces it.                                                            *)

ExternalId(bundle, stix) ==
  LET ids == {p.ext : p \in {q \in bundle.patterns : q.stix = stix}} \ {NoId}
  IN  IF ids = {} THEN NoId ELSE CHOOSE e \in ids : TRUE

RevokedBy(bundle, ext) ==
  LET heirs == {ExternalId(bundle, r[2]) :
                  r \in {q \in bundle.revoked : ExternalId(bundle, q[1]) = ext}} \ {NoId}
  IN  IF heirs = {} THEN NoId ELSE CHOOSE h \in heirs : TRUE

NormaliseAttackBundle(bundle) ==
  [e \in {p.ext : p \in bundle.patterns} \ {NoId} |-> RevokedBy(bundle, e)]

(* One transaction; rows that the bundle no longer has stay as they are.   *)
IngestAttack(bundle) ==
  LET rows == NormaliseAttackBundle(bundle)
  IN  /\ techniques' = [e \in DOMAIN rows \cup DOMAIN techniques |->
                          IF e \in DOMAIN rows THEN rows[e] ELSE techniques[e]]
      /\ UNCHANGED actors

(* A technique's current id: one step from a revoked one.                  *)
BuildTechniqueIndex ==
  [e \in DOMAIN techniques |-> IF techniques[e] = NoId THEN e ELSE techniques[e]]
NormaliseTechniques(ids, index) ==
  {IF e \in DOMAIN index THEN index[e] ELSE e : e \in ids}
-----------------------------------------------------------------------------
(* Actors: the galaxy relates entries by their uuid, Malpedia's library    *)
(* has other keys for the same and relates none.                           *)

Actor(name, aliases, related) == [name |-> name, aliases |-> aliases, related |-> related]

NormaliseGalaxy(entries) ==
  [i \in DOMAIN entries |->
     Actor(entries[i].name, entries[i].synonyms,
           {e.name : e \in {f \in Range(entries) : f.uuid \in entries[i].related}})]

NormaliseMalpedia(details) ==
  [i \in DOMAIN details |-> Actor(details[i].name, details[i].synonyms, {})]

Normalise(cluster) ==
  IF cluster.from = "galaxy" THEN NormaliseGalaxy(cluster.entries)
  ELSE NormaliseMalpedia(cluster.entries)

(* One transaction: rows are replaced by their name, the last of a name    *)
(* standing, or added, none removed.  Names are unique in the table.       *)
NewRows(rows) == Pick(rows, {i \in DOMAIN rows : \A a \in Range(actors) : a.name # rows[i].name})
UpsertThreatActors(rows) ==
  LET of(n) == rows[Max({i \in DOMAIN rows : rows[i].name = n})]
  IN  [i \in DOMAIN actors |->
         IF \E r \in Range(rows) : r.name = actors[i].name
         THEN of(actors[i].name) ELSE actors[i]]
        \o NewRows(rows)
Unique(rows) == \A i, j \in DOMAIN rows : rows[i].name = rows[j].name => i = j

IngestGalaxy(cluster) ==
  LET rows == Normalise(cluster)
  IN  /\ Unique(NewRows(rows))
      /\ actors' = UpsertThreatActors(rows)
      /\ UNCHANGED techniques

(* Names and aliases of the actors in the order of the rows, a later one   *)
(* taking a shared alias from an earlier.                                  *)
NamesOf(a) == <<a.name>> \o a.aliases
BuildAliasIndex ==
  [n \in UNION {Range(NamesOf(a)) : a \in Range(actors)} |->
     actors[Max({i \in DOMAIN actors : n \in Range(NamesOf(actors[i]))})].name]
BuildRelatedIndex ==
  [n \in {a.name : a \in Range(actors)} |->
     (CHOOSE a \in Range(actors) : a.name = n).related]

SyncReference ==
  \/ \E b \in Bundles : IngestAttack(b)
  \/ \E c \in Clusters : IngestGalaxy(c)
=============================================================================
