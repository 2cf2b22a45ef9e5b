----------------------------- MODULE Watermark -----------------------------
(***************************************************************************)
(* Incremental runs: what cmd/pipeline reads from a growing source, what   *)
(* it finds in the output directory afterwards and which watermark it      *)
(* hands to the next run (EffectiveQuery, EstimatePages, executePipeline,  *)
(* writeExecutionMetrics, resolveWatermarkOutput).                         *)
(*                                                                         *)
(* A "column" watermark is the largest value of a column in the parquet    *)
(* files; 0 stands for NULL and for no watermark.  An "offset" watermark   *)
(* is the number of records the REST source has read.  The rows of the     *)
(* source are numbered in the order of their insertion, which is the order *)
(* of an offset.                                                           *)
(***************************************************************************)
EXTENDS Integers, Sequences, FiniteSets, FiniteSetsExt

CONSTANTS
    Configs,      \* the configurations:
                  \*   [mode, layout, fresh, dlqFile, rules, pages, initial, gran]
    RowKinds(_),  \* the rows [ok, w, lane, nulls] a source of the mode may receive:
                  \* nulls counts the soft not_null rules a valid row breaks
    FirstMarks,   \* the column watermarks of the first manifest
    MaxMark,      \* the largest value of the watermark column
    MaxRows,      \* rows the source receives
    PageSize, HintPages,
    MaxFaults     \* failed runs and repeated bundles

ASSUME WatermarkAssumption ==
    /\ FirstMarks \subseteq Nat /\ MaxMark \in Nat /\ MaxRows \in Nat /\ MaxFaults \in Nat
    /\ PageSize \in Nat \ {0} /\ HintPages \in Nat \ {0}
    /\ \A c \in Configs :
         /\ c.mode \in {"column", "offset"} /\ c.layout \in {"file", "slash", "dir"}
         /\ c.fresh \in BOOLEAN /\ c.dlqFile \in BOOLEAN /\ c.rules \in BOOLEAN
         /\ c.pages \in {"hint", "probe", "none"} /\ c.initial \in Nat /\ c.gran \in Nat \ {0}
         /\ \A r \in RowKinds(c.mode) :
              r.ok \in BOOLEAN /\ r.w \in {0} \cup c.gran .. MaxMark /\ r.nulls \in Nat

VARIABLES
    cfg,        \* the configuration
    rows,       \* the source
    wm,         \* the watermark of the manifest of the current or next run
    run,        \* [on, todo, missed]: slices to read, rows come too late for it
    dir,        \* filepath.Dir(OutputPath): its rows and its largest watermark
    dead,       \* lines of the quarantine file, if QuarantinePath is a file:
                \* what writeExecutionMetrics takes for dead letters
    delivered,  \* rows some bundle has published, or quarantined
    late,       \* rows that came behind the reader, see Insert
    repeated,   \* whether a bundle of this run was published twice
    faults

vars == <<cfg, rows, wm, run, dir, dead, delivered, late, repeated, faults>>

NoRun == [on |-> FALSE, todo |-> {}, missed |-> {}]
Running(todo, missed) == [on |-> TRUE, todo |-> todo, missed |-> missed]
Empty == [n |-> 0, top |-> 0]

Init ==
    /\ cfg \in Configs /\ rows = <<>>
    /\ wm \in IF cfg.mode = "column" THEN FirstMarks ELSE {0}
    /\ run = NoRun /\ dir = Empty /\ dead = 0
    /\ delivered = {} /\ late = {} /\ repeated = FALSE /\ faults = 0

\* every offset past the last row reads nothing: MaxRows + 1 stands for them
Cap(n) == IF n > MaxRows + 1 THEN MaxRows + 1 ELSE n

----------------------------------------------------------------------------
(* The source.  A row comes late when it cannot be seen as newer than what *)
(* was already read: its watermark does not exceed the current one, or its *)
(* slice of the current run has been read and the run ends past it.  Pages *)
(* are read past the end of the source, and count as read, only when their *)
(* number is a hint.                                                       *)

Starts(from, n) == {from + i * PageSize : i \in 0 .. (n - 1)}
PageOf(s) == (s + 1) .. (s + PageSize)

Behind(r) == cfg.mode = "column" /\ wm # 0 /\ r.w <= wm
AlreadyRead(id, r) ==
    /\ run.on
    /\ \/ cfg.mode = "column" /\ r.lane \notin run.todo
       \/ /\ cfg.mode = "offset" /\ cfg.pages = "hint"
          /\ \E s \in Starts(wm, HintPages) \ run.todo : id \in PageOf(s)

Insert ==
    /\ Len(rows) < MaxRows
    /\ \E r \in RowKinds(cfg.mode) :
         LET id == Len(rows) + 1
         IN  /\ rows' = Append(rows, r)
             /\ late' = IF Behind(r) THEN late \cup {id} ELSE late
             /\ run' = IF AlreadyRead(id, r) THEN Running(run.todo, run.missed \cup {id}) ELSE run
    /\ UNCHANGED <<cfg, wm, dir, dead, delivered, repeated, faults>>

----------------------------------------------------------------------------
(* A run.                                                                  *)

Lanes == {r.lane : r \in RowKinds("column")}

\* EstimatePages from the offset of the watermark: the hint, the count the
\* probe returned (0 when it failed), or a single page, which alone minds
\* initial_page when there is no watermark
OnlyPage == IF wm = 0 THEN cfg.initial ELSE wm
PagesFloor(total) ==
    IF cfg.pages = "hint" THEN Starts(wm, HintPages)
    ELSE IF total > wm THEN Starts(wm, (total - wm) \div PageSize)
    ELSE {OnlyPage}
Pages(total) ==
    IF cfg.pages = "hint" THEN Starts(wm, HintPages)
    ELSE IF total > wm THEN Starts(wm, (total - wm + PageSize - 1) \div PageSize)
    ELSE {OnlyPage}

\* the probe is sent when total_count_path is configured, and may fail
Totals == IF cfg.pages = "probe" THEN {0, Len(rows)} ELSE {0}

Slices(total) == IF cfg.mode = "column" THEN Lanes ELSE Pages(total)

StartRun(total) ==
    /\ ~run.on
    /\ run' = Running(Slices(total), {})
    /\ dir' = IF cfg.fresh THEN Empty ELSE dir
    /\ dead' = IF cfg.fresh THEN 0 ELSE dead
    /\ repeated' = FALSE
    /\ UNCHANGED <<cfg, rows, wm, delivered, late, faults>>

\* the rows of a slice: WHERE column > watermark, which no NULL satisfies
EffectiveQuery(s) ==
    {r \in DOMAIN rows : rows[r].lane = s /\ (wm = 0 \/ rows[r].w > wm)}

\* the rows of a page: offset and limit
buildRequestURL(s) == {r \in DOMAIN rows : r \in PageOf(s)}

Reads(s) == IF cfg.mode = "column" THEN EffectiveQuery(s) ELSE buildRequestURL(s)

Good(S) == {r \in S : rows[r].ok}

\* parquet keeps microseconds, a date watermark keeps the day
Stored(w) == w - (w % cfg.gran)
Top(S) == Max({0} \cup {Stored(rows[r].w) : r \in S})

\* a bundle's file: it replaces the only one when OutputPath is a file; it is
\* one more in the directory of OutputPath when that ends in a slash; and
\* otherwise it lies below the directory that is searched
Published(S) ==
    IF Good(S) = {} \/ cfg.layout = "dir" THEN dir
    ELSE IF cfg.layout = "file" THEN [n |-> Cardinality(Good(S)), top |-> Top(Good(S))]
    ELSE [n |-> Cap(dir.n + Cardinality(Good(S))), top |-> Max({dir.top, Top(Good(S))})]

\* the DLQ sink writes a line per dead letter; the audit sink, which is given
\* the same QuarantinePath, writes one per dead letter and one per soft rule
\* a valid row breaks.  When that path is a file, BuildOutputURI names it for
\* both, and the sink that commits last replaces the lines of the other.
Letters(S) == Cardinality(S \ Good(S))
Warnings(S) ==
    IF cfg.rules THEN Cardinality(UNION {{r} \X (1 .. rows[r].nulls) : r \in Good(S)}) ELSE 0
Commits(S) == {n \in {Letters(S), Letters(S) + Warnings(S)} : n > 0}
Quarantined(S) == IF cfg.dlqFile /\ Commits(S) # {} THEN Commits(S) ELSE {dead}

\* a slice is read, validated and written in one bundle
Bundle(s) ==
    /\ run.on /\ s \in run.todo
    /\ dir' = Published(Reads(s))
    /\ dead' \in Quarantined(Reads(s))
    /\ delivered' = delivered \cup Reads(s)

ReadSlice(s) ==
    /\ Bundle(s)
    /\ run' = Running(run.todo \ {s}, run.missed)
    /\ UNCHANGED <<cfg, rows, wm, late, repeated, faults>>

\* the files are published but the runner retries the bundle
RepeatSlice(s) ==
    /\ Bundle(s)
    /\ faults < MaxFaults
    /\ faults' = faults + 1 /\ repeated' = TRUE
    /\ UNCHANGED <<cfg, rows, wm, run, late>>

\* beamx.Run or writeExecutionMetrics fails: no watermark is written and the
\* next run starts from the old one, but the files stay
FailRun ==
    /\ run.on /\ faults < MaxFaults
    /\ faults' = faults + 1
    /\ run' = NoRun
    /\ UNCHANGED <<cfg, rows, wm, dir, dead, delivered, late, repeated>>

\* writeExecutionMetrics counts what it finds in the directory and the file
rowsWritten == dir.n
totalRead == dir.n + dead

\* resolveWatermarkOutput
ResolvePast == Cap(wm + totalRead + 1)
ResolveOffset == Cap(wm + totalRead)
\* trusts the files: forgets the incoming watermark
ResolveLatest == IF rowsWritten = 0 \/ dir.top = 0 THEN wm ELSE dir.top
ResolveColumn ==
    IF rowsWritten = 0 \/ dir.top = 0 THEN wm
    ELSE IF wm > dir.top THEN wm ELSE dir.top
resolveWatermarkOutput == IF cfg.mode = "offset" THEN ResolveOffset ELSE ResolveColumn

FinishRun ==
    /\ run.on /\ run.todo = {}
    /\ wm' = resolveWatermarkOutput
    /\ late' = late \cup {r \in run.missed : (IF cfg.mode = "column" THEN rows[r].w ELSE r) <= wm'}
    /\ run' = NoRun
    /\ UNCHANGED <<cfg, rows, dir, dead, delivered, repeated, faults>>

Next ==
    \/ Insert
    \/ \E total \in Totals : StartRun(total)
    \/ \E s \in run.todo : ReadSlice(s) \/ RepeatSlice(s)
    \/ FailRun \/ FinishRun

\* the scheduler starts a run again and again, and a run that nothing fails
\* comes to its end
Fairness ==
    /\ WF_vars(\E total \in Totals : StartRun(total))
    /\ WF_vars(\E s \in run.todo : ReadSlice(s))
    /\ WF_vars(FinishRun)

Spec == Init /\ [][Next]_vars /\ Fairness

----------------------------------------------------------------------------
(* Properties.                                                             *)

\* The offset counts what the run really read only if its directory holds
\* nothing else (a directory of its own, and no bundle published twice under
\* two names) and the quarantine file no warnings, and only if the reading
\* began at the offset: these are the configurations that keep the promise.
NoWarnings == ~(cfg.dlqFile /\ cfg.rules)
FromOffset == cfg.pages = "hint" \/ cfg.initial = 0
OwnCount ==
    /\ cfg.fresh /\ (cfg.layout = "file" \/ ~repeated)
    /\ NoWarnings /\ FromOffset

\* No row is passed over: once the watermark has moved past a row, the row
\* has been written or quarantined, unless it came late, whatever
\* runs failed, bundles were repeated and rows came between two slices.
\* For an offset this needs OwnCount in every run; resolveWatermarkOutput
\* adds all the rows it finds to the old offset.
NothingPassedOver ==
    [][wm' # wm /\ (cfg.mode = "column" \/ OwnCount) =>
         \A r \in DOMAIN rows :
           IF cfg.mode = "column"
           THEN rows[r].w <= wm' => r \in delivered \cup late'
           ELSE r \in (wm + 1) .. wm' => r \in delivered \cup late']_vars

\* The watermark of a run is never behind the one it was given, whatever the
\* precision of the stored values and the files left by other runs.
NonRegression == [][wm' >= wm]_vars

\* The configurations whose offset never runs ahead of what was read, and
\* follows it when every record of a page is quarantined.
Counted ==
    cfg.fresh /\ cfg.layout = "file" /\ cfg.dlqFile /\ ~cfg.rules /\ FromOffset

\* Every row is read in the end, unless it came late: a run that fails is
\* made up for by a later one, and a source that is read one page at a time
\* moves on from page to page.
CatchesUp ==
    \A r \in 1 .. MaxRows :
        (r \in DOMAIN rows /\ (cfg.mode = "column" \/ Counted))
            ~> (r \in delivered \cup late)

============================================================================
