---------------------------- MODULE GarakReport ----------------------------
(***************************************************************************)
(* What one run of the scan queue makes of garak: which probes an attempt  *)
(* asks for, what the garak process leaves behind (a report, of all it was *)
(* asked or cut short, or none), and the rows that the report gives.  An   *)
(* attempt that fails is tried again: probes with rows are not asked again.*)
(***************************************************************************)
EXTENDS Naturals, SequencesExt, Picks

CONSTANTS
  Installed,   \* garak's probes, a sequence of <<category, class>>
  Full,        \* those whose class name ends with "Full"
  Requested,   \* what runs may ask for: sets of categories and of probe names
  Default,     \* DEFAULT_PROBE_CATEGORIES
  DetectorsOf, \* the detectors of a probe, a sequence
  Retries      \* retries of the task

ASSUME GarakReportAssumption ==
  /\ Installed \in Seq(Range(Installed)) /\ IsInjective(Installed)
  /\ Full \subseteq Range(Installed)
  /\ \A p \in Range(Installed) :
       DetectorsOf[p] \in Seq(Range(DetectorsOf[p])) /\ IsInjective(DetectorsOf[p])
  /\ Retries \in Nat

VARIABLES
  wanted,  \* probe_categories of the run, {} for none
  doing,   \* where the attempt is
  spec,    \* the probe_spec of its configuration
  report,  \* the lines of the report, NoReport if there is no such file
  rows,    \* the run's committed rows of probe_results
  prompts, \* its committed rows of attempts
  failed   \* how many attempts failed

scan == <<wanted, doing, spec, report, rows, prompts, failed>>

NoReport == << >>
Counts == {<<0, 0>>, <<1, 2>>} \* what an eval counts: passed and failed

(* A probe's name in garak's registry, and the one without the prefix that *)
(* its configuration, its reports and the database use.                    *)
FullName(p) == [prefix |-> "probes.", probe |-> p]
RemovePrefix_Not(n) == <<n.prefix>> \o n.probe
RemovePrefix(n) == n.probe

(* An entry with a "." is one probe, one without a category.               *)
Category(p) == <<p[1]>>
Asks(entries, p) == p \in entries \/ Category(p) \in entries

Remains(p, done, entries) ==
  p \notin Full /\ RemovePrefix(FullName(p)) \notin done /\ Asks(entries, p)
ComputeRemainingProbes(done, entries) ==
  Pick(Installed, {i \in DOMAIN Installed : Remains(Installed[i], done, entries)})
-----------------------------------------------------------------------------
(* Reports *)

Line(kind, p, d, n) == [kind |-> kind, probe |-> p, detector |-> d, n |-> n]
Header == Line("start_run setup", << >>, "none", <<0, 0>>)
Broken == Line("not JSON", << >>, "none", <<0, 0>>)

(* A probe's attempts are followed by an evaluation by each detector.      *)
LinesOf(p, n) ==
  <<Line("attempt", p, "none", <<0, 0>>)>>
    \o [i \in DOMAIN DetectorsOf[p] |-> Line("eval", p, DetectorsOf[p][i], n)]

Whole(probes, n) ==
  <<Header>> \o FlattenSeq([i \in DOMAIN probes |-> LinesOf(probes[i], n)])

(* The report of a process that exits with 0 is whole, but for probes that *)
(* garak could not load; one that exits with 1 may end anywhere.           *)
WholeReports == {Whole(Pick(spec, I), n) : I \in SUBSET DOMAIN spec, n \in Counts}
Cuts(w) ==
  UNION {{SubSeq(w, 1, i), Append(SubSeq(w, 1, i), Broken)} : i \in 0..Len(w) - 1}
CutReports == UNION {Cuts(Whole(spec, n)) : n \in Counts}

(* Rows: the score is the failed share, None when nothing was evaluated.   *)
ParseEval(l) ==
  [probe |-> l.probe, category |-> Category(l.probe), detector |-> l.detector,
   pass |-> l.n[1], fail |-> l.n[2],
   score |-> IF l.n[1] + l.n[2] = 0 THEN <<>> ELSE <<l.n[2], l.n[1] + l.n[2]>>]
ParseAttempt(l) == l.probe

LinesOfKind(kind, lines) == Pick(lines, {i \in DOMAIN lines : lines[i].kind = kind})
-----------------------------------------------------------------------------
GarakInit ==
  /\ wanted \in Requested
  /\ doing = "start" /\ spec = << >> /\ report = NoReport
  /\ rows = << >> /\ prompts = << >> /\ failed = 0

(* The attempt asks for the probes without rows, if there are any.         *)
Done == {rows[i].probe : i \in DOMAIN rows}
BuildConfig ==
  /\ doing = "start"
  /\ spec' = ComputeRemainingProbes(Done, IF wanted = {} THEN Default ELSE wanted)
  /\ doing' = IF spec' = << >> THEN "finished" ELSE "garak"
  /\ UNCHANGED <<wanted, report, rows, prompts, failed>>

Raise ==
  /\ failed' = failed + 1
  /\ doing' = IF failed = Retries THEN "failed" ELSE "start"
  /\ report' = NoReport /\ spec' = << >>

(* Exit codes 0 and 1 are taken for an end of the scan. Another one, or a  *)
(* process that is killed at its timeout, or no report fails the attempt.  *)
RunGarak ==
  /\ doing = "garak"
  /\ \/ /\ report' \in (WholeReports \cup CutReports) \ {NoReport}
        /\ doing' = "ingest" /\ UNCHANGED <<spec, failed>>
     \/ Raise
  /\ UNCHANGED <<wanted, rows, prompts>>

(* One transaction; a report without any row fails the run at once.        *)
IngestJsonlFile ==
  LET evals    == LinesOfKind("eval", report)
      attempts == LinesOfKind("attempt", report)
  IN  /\ doing = "ingest"
      /\ \/ /\ rows' = rows \o [i \in DOMAIN evals |-> ParseEval(evals[i])]
            /\ prompts' = prompts \o [i \in DOMAIN attempts |-> ParseAttempt(attempts[i])]
            /\ doing' = IF evals = << >> /\ attempts = << >>
                        THEN "failed" ELSE "ingested"
            /\ report' = NoReport /\ UNCHANGED <<spec, failed>>
         \/ Raise /\ UNCHANGED <<rows, prompts>>
      /\ UNCHANGED wanted

(* The status of the run is written in a transaction of its own.           *)
Finish ==
  /\ doing = "ingested"
  /\ \/ doing' = "finished" /\ UNCHANGED <<spec, report, failed>>
     \/ Raise
  /\ UNCHANGED <<wanted, rows, prompts>>

GarakNext == BuildConfig \/ RunGarak \/ IngestJsonlFile \/ Finish

GarakSpec == GarakInit /\ [][GarakNext]_scan
-----------------------------------------------------------------------------
(* Correctness *)

(* However often attempts fail, before or after their rows are committed,  *)
(* and wherever reports are cut, a detector's verdict on a probe counts    *)
(* once in the run's scores, and only for a probe the run asks for.        *)
VerdictsOnce ==
  LET asked == ComputeRemainingProbes({}, IF wanted = {} THEN Default ELSE wanted)
  IN  /\ \A i, j \in DOMAIN rows :
           rows[i].probe = rows[j].probe /\ rows[i].detector = rows[j].detector => i = j
      /\ \A i \in DOMAIN rows : rows[i].probe \in Range(asked)
=============================================================================
