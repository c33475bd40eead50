------------------------------ MODULE Recording ------------------------------
(***************************************************************************)
(* What one site keeps of its past: the CSV files of a recording             *)
(* (sim/scenario_csv.rs, microgrid_site/scenarios.rs) with the buffered      *)
(* writers that fill them and the client that downloads them, and the        *)
(* bounded rings that are read in windows (sim/history.rs, sim/setpoints.rs, *)
(* ui/handlers/history.rs).                                                 *)
(*                                                                         *)
(* A row of a sampled file is the number of the sampler's pass, one of a     *)
(* setpoints file the number of the request; 0 is a header and -1 a hole.    *)
(* Time is the number of the last pass that started.                         *)
(***************************************************************************)
EXTENDS Integers, Sequences, FiniteSets, SequencesExt

CONSTANTS
    Ids,
    Kinds,          \* of the components that are registered
    Dirs,
    Capacity,       \* samples and requests kept (HISTORY_, SETPOINT_LOG_CAPACITY)
    HeldRows,       \* rows a BufWriter holds back
    MaxPasses, MaxActs, MaxRequests, MaxDownloads   \* bounds of the model

VARIABLES
    comps,          \* the registered components: id -> kind
    files,          \* file -> its rows on disk
    sinks,          \* <<stream, id>> -> writer
    dir,            \* the recording that is offered for download
    interp,         \* where a recording or a close is between its steps
    passes, pass,   \* passes written, and what the present one found
    rings, logs,    \* id -> samples, id -> requests
    requests, open, \* requests so far, and those on their way
    got,            \* the client's download
    acts, downloads,
    listed,         \* what every pass found registered (history)
    spans,          \* file -> the passes and requests it is to hold (history)
    recording,      \* a recording was begun and not closed (history)
    clashed,        \* files opened again while it was (history)
    forgotten       \* the pass after which an id's rings went (history)
ghosts == <<listed, spans, recording, clashed, forgotten>>
vars == <<comps, files, sinks, dir, interp, passes, pass, rings, logs, requests, open, got,
          acts, downloads, ghosts>>

-----------------------------------------------------------------------------
Streams == <<"telemetry", "setpoints", "bounds", "reactive">>

\* Every component has telemetry; an envelope on an axis has its files too.
StreamsOf(kind) ==
    CASE kind = "meter" -> {"telemetry"}
      [] kind = "battery" -> {"telemetry", "setpoints", "bounds"}
      [] kind = "inverter" -> ToSet(Streams)

\* `<id>-<category>.csv`, `<id>-setpoints.csv` and so on.
FileOf(d, id, kind, stream) ==
    [dir |-> d, id |-> id, stream |-> stream,
     name |-> IF stream = "telemetry" THEN kind ELSE stream]

Put(f, k, v) == [x \in DOMAIN f \cup {k} |-> IF x = k THEN v ELSE f[x]]
Without(f, S) == [x \in DOMAIN f \ S |-> f[x]]
Empty == [x \in {} |-> x]

\* A writer has its own place in the file: past the file's end it leaves a
\* hole, before the end it replaces what is there.
Flushed(rows, w) ==
    LET end == w.place + Len(w.rows)
    IN  [i \in 1..(IF end > Len(rows) THEN end ELSE Len(rows)) |->
            CASE i > w.place /\ i <= end -> w.rows[i - w.place]
              [] i <= Len(rows) -> rows[i]
              [] OTHER -> -1]

\* The files after what the writers of ws hold went out.
FilesAfter(ws) ==
    [f \in DOMAIN files |->
        LET onto == {k \in DOMAIN ws : ws[k].file = f}
        IN  IF onto = {} THEN files[f] ELSE Flushed(files[f], ws[CHOOSE k \in onto : TRUE])]

Only(ws, S) == [k \in DOMAIN ws \cap S |-> ws[k]]
OfStream(ws, s) == {k \in DOMAIN ws : k[1] = s}
IsFull(w) == Len(w.rows) >= HeldRows

\* A row for each of the sinks in S; what a full writer holds goes out first.
WriteRows(S, row) ==
    /\ files' = FilesAfter(Only(sinks, {k \in S : k \in DOMAIN sinks /\ IsFull(sinks[k])}))
    /\ sinks' = [k \in DOMAIN sinks |->
                    IF k \notin S THEN sinks[k]
                    ELSE IF IsFull(sinks[k])
                    THEN [sinks[k] EXCEPT !.place = @ + Len(sinks[k].rows), !.rows = <<row>>]
                    ELSE [sinks[k] EXCEPT !.rows = Append(@, row)]]

Idle == [at |-> "idle"]
Time == passes + (IF pass = Idle THEN 0 ELSE 1)

Init ==
    /\ comps = Empty /\ files = Empty /\ sinks = Empty /\ dir = {}
    /\ interp = Idle /\ pass = Idle
    /\ passes = 0 /\ requests = 0 /\ acts = 0 /\ downloads = 0
    /\ rings = Empty /\ logs = Empty /\ open = Empty /\ got = {}
    /\ listed = <<>> /\ spans = Empty /\ recording = FALSE /\ clashed = {}
    /\ forgotten = [id \in Ids |-> 0]

-----------------------------------------------------------------------------
(* The interpreter.                                                         *)

Act == interp = Idle /\ acts < MaxActs /\ acts' = acts + 1

Register(id, kind) ==
    /\ Act /\ id \notin DOMAIN comps
    /\ comps' = Put(comps, id, kind)
    /\ UNCHANGED <<files, sinks, dir, interp, passes, pass, rings, logs, requests, open, got,
                   downloads, ghosts>>

\* remove_component leaves the files open.
RemoveComponent(id) ==
    /\ Act /\ id \in DOMAIN comps
    /\ comps' = Without(comps, {id})
    /\ rings' = Without(rings, {id}) /\ logs' = Without(logs, {id})
    /\ forgotten' = [forgotten EXCEPT ![id] = passes]
    /\ UNCHANGED <<files, sinks, dir, interp, passes, pass, requests, open, got, downloads,
                   listed, spans, recording, clashed>>

\* scenario_open_csv makes or truncates a file for each stream of each
\* component; when one cannot be made, those before it are closed again.  (One
\* step: a file that something else writes meanwhile has clashed.)
Opened(S, d, rows) ==
    LET new == {FileOf(d, k[2], comps[k[2]], k[1]) : k \in S}
        held == {sinks[k].file : k \in DOMAIN sinks}
    IN  /\ files' = [f \in DOMAIN files \cup new |-> IF f \in new THEN rows ELSE files[f]]
        /\ spans' = [f \in DOMAIN spans \cup new |->
                        IF f \in new THEN [from |-> passes, to |-> passes, due |-> {}, nr |-> acts]
                        ELSE spans[f]]
        /\ clashed' = (clashed \ new) \cup (IF recording THEN new \cap held ELSE {})

AllStreams == UNION {{<<s, id>> : s \in StreamsOf(comps[id])} : id \in DOMAIN comps}

RecordCsv(d) ==
    /\ Act
    /\ Opened(AllStreams, d, <<>>)
    /\ interp' = [at |-> "swap", dir |-> d, left |-> Streams,
                  made |-> [k \in AllStreams |->
                                [file |-> FileOf(d, k[2], comps[k[2]], k[1]),
                                 place |-> 0, rows |-> <<0>>]]]
    /\ recording' = TRUE
    /\ UNCHANGED <<comps, sinks, dir, passes, pass, rings, logs, requests, open, got, downloads,
                   listed, forgotten>>

\* Whole components, in the order they registered, and some of the streams of
\* the one whose file cannot be made.
OpenedBefore(S, failing) ==
    \A id \in DOMAIN comps :
        LET own == {k \in AllStreams : k[2] = id}
        IN  IF id # failing THEN own \subseteq S \/ own \cap S = {}
            ELSE /\ ~ own \subseteq S
                 /\ \A n \in DOMAIN Streams : <<Streams[n], id>> \in S =>
                        \A m \in 1..n : Streams[m] \in StreamsOf(comps[id]) => <<Streams[m], id>> \in S

RecordFails(d) ==
    /\ Act
    /\ \E S \in SUBSET AllStreams, failing \in DOMAIN comps :
        /\ OpenedBefore(S, failing)
        /\ Opened(S, d, <<0>>)
    /\ UNCHANGED <<comps, sinks, dir, interp, passes, pass, rings, logs, requests, open, got,
                   downloads, listed, recording, forgotten>>

\* ... and puts one stream's new writers in the old ones' place after another.
EndSpans(gone, begun) ==
    [f \in DOMAIN spans |->
        CASE \E k \in DOMAIN begun : begun[k].file = f -> [spans[f] EXCEPT !.from = passes, !.to = -1]
          [] \E k \in gone : sinks[k].file = f -> [spans[f] EXCEPT !.to = passes]
          [] OTHER -> spans[f]]

Replace(s, new) ==
    LET gone == OfStream(sinks, s)
        begun == Only(new, OfStream(new, s))
    IN  /\ files' = FilesAfter(Only(sinks, gone))
        /\ sinks' = [k \in (DOMAIN sinks \ gone) \cup DOMAIN begun |->
                        IF k \in DOMAIN begun THEN begun[k] ELSE sinks[k]]
        /\ spans' = EndSpans(gone, begun)

SwapStream ==
    /\ interp.at = "swap" /\ interp.left # <<>>
    /\ Replace(Head(interp.left), interp.made)
    /\ interp' = [interp EXCEPT !.left = Tail(@)]
    /\ UNCHANGED <<comps, dir, passes, pass, rings, logs, requests, open, got, acts, downloads,
                   listed, recording, clashed, forgotten>>
Offer ==
    /\ interp.at = "swap" /\ interp.left = <<>>
    /\ dir' = {interp.dir}
    /\ interp' = Idle
    /\ UNCHANGED <<comps, files, sinks, passes, pass, rings, logs, requests, open, got, acts,
                   downloads, ghosts>>

\* scenario_close_csv, of scenario-stop-csv and of scenario-stop, which a start
\* over a run calls: one stream after another is closed, which writes what its
\* writers hold.
CloseCsv ==
    /\ Act
    /\ interp' = [at |-> "close", left |-> Streams]
    /\ recording' = FALSE
    /\ UNCHANGED <<comps, files, sinks, dir, passes, pass, rings, logs, requests, open, got,
                   downloads, listed, spans, clashed, forgotten>>
CloseStream ==
    /\ interp.at = "close"
    /\ Replace(Head(interp.left), Empty)
    /\ interp' = IF Tail(interp.left) = <<>> THEN Idle ELSE [interp EXCEPT !.left = Tail(@)]
    /\ UNCHANGED <<comps, dir, passes, pass, rings, logs, requests, open, got, acts, downloads,
                   listed, recording, clashed, forgotten>>

\* reset() forgets the components and their rings and closes the files.
Reset ==
    /\ Act
    /\ comps' = Empty /\ rings' = Empty /\ logs' = Empty
    /\ forgotten' = [id \in Ids |-> passes]
    /\ interp' = [at |-> "close", left |-> Streams]
    /\ recording' = FALSE
    /\ UNCHANGED <<files, sinks, dir, passes, pass, requests, open, got, downloads, listed, spans,
                   clashed>>

-----------------------------------------------------------------------------
(* The sampler and the requests.                                            *)

\* A plausible slip: the oldest goes once there is one too many.
PushLate(ring, e) == Append(IF Len(ring) > Capacity THEN Tail(ring) ELSE ring, e)

\* A ring drops its oldest entry for one it has no room for.
Push(ring, e) == Append(IF Len(ring) >= Capacity THEN Tail(ring) ELSE ring, e)
RingOf(all, id) == IF id \in DOMAIN all THEN all[id] ELSE <<>>
Sample(t) == [ts |-> t]
Entry(r) == [ts |-> open[r].ts, nr |-> r]

\* record_history_snapshot reads every component's telemetry and bounds ...
ReadAll ==
    /\ pass = Idle /\ passes < MaxPasses
    /\ pass' = [at |-> "read", found |-> comps]
    /\ listed' = Append(listed, comps)
    /\ UNCHANGED <<comps, files, sinks, dir, interp, passes, rings, logs, requests, open, got,
                   acts, downloads, spans, recording, clashed, forgotten>>

\* ... and writes the rows and the samples with all three sampled streams and
\* the rings locked.
WriteAll ==
    /\ pass # Idle
    /\ pass' = Idle /\ passes' = passes + 1
    /\ WriteRows({k \in DOMAIN sinks : /\ k[1] # "setpoints" /\ k[2] \in DOMAIN pass.found
                                       /\ k[1] \in StreamsOf(pass.found[k[2]])}, passes + 1)
    /\ rings' = [id \in DOMAIN rings \cup DOMAIN pass.found |->
                    IF id \in DOMAIN pass.found THEN Push(RingOf(rings, id), Sample(passes + 1))
                    ELSE rings[id]]
    /\ UNCHANGED <<comps, dir, interp, logs, requests, open, got, acts, downloads, ghosts>>

\* A request comes for a component that is registered ...
Ask(id) ==
    /\ id \in DOMAIN comps /\ requests < MaxRequests
    /\ requests' = requests + 1
    /\ LET k == <<"setpoints", id>>
       IN  open' = Put(open, requests + 1,
                       [id |-> id, ts |-> Time, at |-> "row",
                        onto |-> IF k \in DOMAIN sinks
                                 THEN {[file |-> sinks[k].file, nr |-> spans[sinks[k].file].nr]}
                                 ELSE {}])
    /\ UNCHANGED <<comps, files, sinks, dir, interp, passes, pass, rings, logs, got, acts,
                   downloads, ghosts>>

\* ... is stamped at once, when it is to be parked, or when it was answered, and
\* log_setpoint writes its row, if there is a file ...
LogRow(r) ==
    /\ open[r].at = "row"
    /\ WriteRows({<<"setpoints", open[r].id>>} \cap DOMAIN sinks, r)
    /\ \E ts \in open[r].ts..Time : open' = [open EXCEPT ![r].at = "log", ![r].ts = ts]
    /\ UNCHANGED <<comps, dir, interp, passes, pass, rings, logs, requests, got, acts, downloads,
                   ghosts>>

\* ... and then its entry.
LogEntry(r) ==
    /\ open[r].at = "log"
    /\ LET id == open[r].id
           k == <<"setpoints", id>>
       IN  /\ logs' = Put(logs, id, Push(RingOf(logs, id), Entry(r)))
           /\ spans' = [f \in DOMAIN spans |->
                            IF k \in DOMAIN sinks /\ sinks[k].file = f
                               /\ [file |-> f, nr |-> spans[f].nr] \in open[r].onto
                            THEN [spans[f] EXCEPT !.due = @ \cup {r}] ELSE spans[f]]
    /\ open' = Without(open, {r})
    /\ UNCHANGED <<comps, files, sinks, dir, interp, passes, pass, rings, requests, got, acts,
                   downloads, listed, recording, clashed, forgotten>>

-----------------------------------------------------------------------------
(* The clients.                                                             *)

\* scenario_csv_listing: the files in the directory of the last recording.
Listing == {f \in DOMAIN files : f.dir \in dir}

Download(f) ==
    /\ downloads < MaxDownloads /\ f \in Listing
    /\ downloads' = downloads + 1
    /\ got' = {[file |-> f, nr |-> spans[f].nr, rows |-> files[f]]}
    /\ UNCHANGED <<comps, files, sinks, dir, interp, passes, pass, rings, logs, requests, open,
                   acts, ghosts>>

\* iter_window finds a place before which all it probed are too old and after
\* which none is.
Windows(ring, since) ==
    {SubSeq(ring, cut + 1, Len(ring)) :
        cut \in {c \in 0..Len(ring) : /\ c = 0 \/ ring[c].ts < since
                                      /\ c = Len(ring) \/ ring[c + 1].ts >= since}}

\* The history and the setpoints routes; an id without a ring has none.
HistoryWindows(id, since) == Windows(RingOf(rings, id), since)
SetpointsWindows(id, since) == Windows(RingOf(logs, id), since)

Next ==
    \/ \E id \in Ids, kind \in Kinds : Register(id, kind)
    \/ \E id \in Ids : RemoveComponent(id) \/ Ask(id)
    \/ \E d \in Dirs : RecordCsv(d) \/ RecordFails(d)
    \/ SwapStream \/ Offer
    \/ CloseCsv \/ CloseStream \/ Reset
    \/ ReadAll \/ WriteAll
    \/ \E r \in DOMAIN open : LogRow(r) \/ LogEntry(r)
    \/ \E f \in Listing : Download(f)

-----------------------------------------------------------------------------
\* What is in a file or on its way there.
Written(f) ==
    LET onto == {k \in DOMAIN sinks : sinks[k].file = f}
    IN  IF onto = {} THEN files[f] ELSE Flushed(files[f], sinks[CHOOSE k \in onto : TRUE])

BeingMade(f) ==
    interp.at = "swap" /\ \E k \in DOMAIN interp.made : interp.made[k].file = f

PassesOf(f) ==
    LET s == spans[f]
        last == IF s.to = -1 THEN passes ELSE s.to
    IN  {p \in s.from + 1..last : f.id \in DOMAIN listed[p] /\ f.stream \in StreamsOf(listed[p][f.id])}

\* Unless it was opened again by a recording over a recording, a file is its
\* header and a row for each pass that found its component, none twice, none
\* missing, in order; one of setpoints has a row for every request that came
\* and was logged while it was open.  What a client has of a file stays its
\* beginning (scenario_csv.rs, microgrid_site/scenarios.rs:160-237).
RecordingsAreWhole ==
    /\ \A f \in DOMAIN spans \ clashed : ~BeingMade(f) =>
        IF f.stream # "setpoints"
        THEN Written(f) = <<0>> \o SetToSortSeq(PassesOf(f), <)
        ELSE /\ Head(Written(f)) = 0 /\ IsInjective(Written(f))
             /\ spans[f].due \subseteq ToSet(Written(f))
    /\ \A g \in got :
        g.file \in clashed \/ spans[g.file].nr # g.nr \/ IsPrefix(g.rows, Written(g.file))

\* A window of samples is the newest that were kept, from its first on; one of
\* requests lacks only what a request with an earlier stamp came after
\* (history.rs:155-205, setpoints.rs:88-125).
WindowsAreTrue ==
    /\ \A id \in Ids, since \in 0..MaxPasses + 1 :
        LET all == SetToSortSeq({p \in forgotten[id] + 1..passes : id \in DOMAIN listed[p]}, <)
            kept == SubSeq(all, Len(all) - Capacity + 1, Len(all))
            newest == IF Len(all) <= Capacity THEN all ELSE kept
        IN  HistoryWindows(id, since) = {[i \in DOMAIN w |-> Sample(w[i])] :
                                            w \in {SelectSeq(newest, LAMBDA p : p >= since)}}
    /\ \A id \in DOMAIN logs, since \in 0..MaxPasses + 1, i \in 1..Capacity :
        i <= Len(logs[id]) /\ logs[id][i].ts >= since =>
            \/ \E j \in i + 1..Len(logs[id]) : logs[id][j].ts < logs[id][i].ts
            \/ \A w \in SetpointsWindows(id, since) : logs[id][i] \in ToSet(w)
=============================================================================
