------------------------------- MODULE Daemon -------------------------------
(***************************************************************************)
(* The life of the daemon: start-up step by step, the socket files, the    *)
(* recording of commands through a buffered writer, the ways it stops, and *)
(* the replay of the recording that is left.                               *)
(*                                                                         *)
(* A frame in the recording is two pieces, so that a partial write can     *)
(* tear it; piece <<n, h>> is half h of the n-th command of the life that  *)
(* is recorded.  A command carries what it causes: "report" for an         *)
(* execution report, "market" for a Trade or BookUpdate.                   *)
(*                                                                         *)
(* A definition marked "Slip" is a plausible mistake in the definition     *)
(* after it; nothing here uses it.                                         *)
(***************************************************************************)
EXTENDS Integers, Sequences, SequencesExt, FiniteSets

CONSTANTS Commands,     \* what commands cause: sequences over {"report", "market"}
          RiskFiles,    \* contents risk.toml may have: sequences of <<key, value>>,
                        \* with a negative value for one that does not parse
          BufCap,       \* capacity of the BufWriter, in pieces
          MaxCommands,  \* bound: commands in one life
          MaxStarts     \* bound: starts of the daemon

ASSUME DaemonAssumption == BufCap \in Nat /\ BufCap > 2

VARIABLES pc,           \* where bin::run is; in Sockets while that socket is bound
          step,         \* where in bind: "look", "remove" or "bind"
          path,         \* path[x]: "none", "stale" or "live", for both socket files
          riskFile,     \* risk.toml
          limits,       \* the RiskConfig loaded
          record,       \* whether --record was given
          recorder,     \* the BufWriter is open
          buffer,       \* pieces it holds
          file,         \* pieces in the recording file
          engineSeq,    \* engine_seq of the matching thread
          source,       \* commands of the life the file is of, with the limits they met
          skipped,      \* those of them whose write_all failed
          reports,      \* execution reports that life sent
          market,       \* market data it sent
          starts

recordingVars == <<file, source, skipped, reports, market>>
vars == <<pc, step, path, riskFile, limits, record, recorder, buffer, file, engineSeq, source, skipped,
          reports, market, starts>>

Sockets == {"orderEntry", "marketData"}
Running == pc \in {"running", "deaf"}

Pieces(n) == <<<<n, 1>>, <<n, 2>>>>

\* RiskConfig::load: each key has its last value that parses, or the default.
Defaults == [maxOpenOrders |-> 10, maxNotional |-> 10, priceBandPct |-> 10]

LoadConfig(lines) ==
    FoldLeft(LAMBDA config, line :
                 IF line[1] \in DOMAIN config /\ line[2] \in Nat
                 THEN [config EXCEPT ![line[1]] = line[2]] ELSE config,
             Defaults, lines)

\* process_command: the engine number, and the events, under the limits.
Caused(seq, command, config) ==
    [i \in DOMAIN command |-> [engineSeq |-> seq, kind |-> command[i], at |-> i, limits |-> config]]

IsReport(e) == e.kind = "report"
IsMarket(e) == e.kind = "market"

-----------------------------------------------------------------------------
(* Start-up *)

\* The process ends without running destructors: what is buffered is lost and
\* sockets stay behind.
Gone ==
    /\ pc' = "down"
    /\ step' = "look"
    /\ recorder' = FALSE
    /\ buffer' = << >>

Stale(paths) == [x \in Sockets |-> IF paths[x] = "live" THEN "stale" ELSE paths[x]]

Start ==
    /\ pc = "down"
    /\ starts < MaxStarts
    /\ starts' = starts + 1
    /\ pc' = "orderEntry"
    /\ step' = "look"
    /\ record' \in BOOLEAN
    /\ engineSeq' = 0
    /\ UNCHANGED <<path, riskFile, limits, recorder, buffer, recordingVars>>

\* Slip: the last life is trusted to have removed its file.
LookNowhere(x) ==
    /\ pc = x /\ step = "look"
    /\ step' = "bind"
    /\ UNCHANGED <<pc, path, riskFile, limits, record, recorder, buffer, engineSeq, recordingVars, starts>>

\* UdsTransport::bind and marketdata::bind: if path.exists() ..
Look(x) ==
    /\ pc = x /\ step = "look"
    /\ step' = IF path[x] # "none" THEN "remove" ELSE "bind"
    /\ UNCHANGED <<pc, path, riskFile, limits, record, recorder, buffer, engineSeq, recordingVars, starts>>

\* .. remove_file(path)? ..
RemoveFile(x) ==
    /\ pc = x /\ step = "remove"
    /\ step' = "bind"
    /\ path' = [path EXCEPT ![x] = "none"]
    /\ UNCHANGED <<pc, riskFile, limits, record, recorder, buffer, engineSeq, recordingVars, starts>>

\* .. and UnixListener::bind(path)?, to which any file is in the way.
Bind(x) ==
    /\ pc = x /\ step = "bind"
    /\ path[x] = "none"
    /\ path' = [path EXCEPT ![x] = "live"]
    /\ pc' = IF x = "orderEntry" THEN "marketData" ELSE "configure"
    /\ step' = "look"
    /\ UNCHANGED <<riskFile, limits, record, recorder, buffer, engineSeq, recordingVars, starts>>

\* The file cannot be removed, or bind fails: exit(1).
BindFails(x) ==
    /\ pc = x /\ step \in {"remove", "bind"}
    /\ path' = Stale(path)
    /\ Gone
    /\ UNCHANGED <<riskFile, limits, record, engineSeq, recordingVars, starts>>

Configure ==
    /\ pc = "configure"
    /\ pc' = IF record THEN "open recorder" ELSE "running"
    /\ limits' = LoadConfig(riskFile)
    /\ UNCHANGED <<step, path, riskFile, record, recorder, buffer, engineSeq, recordingVars, starts>>

\* File::create: an earlier recording is gone.
OpenRecorder ==
    /\ pc = "open recorder"
    /\ pc' = "running"
    /\ recorder' = TRUE
    /\ file' = << >>
    /\ source' = << >>
    /\ skipped' = {}
    /\ reports' = << >>
    /\ market' = << >>
    /\ UNCHANGED <<step, path, riskFile, limits, record, buffer, engineSeq, starts>>

OpenRecorderFails ==
    /\ pc = "open recorder"
    /\ path' = Stale(path)
    /\ Gone
    /\ UNCHANGED <<riskFile, limits, record, engineSeq, recordingVars, starts>>

-----------------------------------------------------------------------------
(* The matching thread *)

\* BufWriter::write_all copies a frame for which there is room.
Fits == Len(buffer) + 2 <= BufCap

Buffered(n) ==
    /\ Fits
    /\ buffer' = buffer \o Pieces(n)
    /\ UNCHANGED <<file, skipped>>

\* It flushes first when there is none.
Flushed(n) ==
    /\ ~Fits
    /\ file' = file \o buffer
    /\ buffer' = Pieces(n)
    /\ UNCHANGED skipped

\* Slip: what a failed flush did not write is thrown away.
FlushFailsForgetting(n) ==
    /\ ~Fits
    /\ \E k \in 0 .. Len(buffer) - 1 : file' = file \o SubSeq(buffer, 1, k)
    /\ buffer' = << >>
    /\ skipped' = skipped \cup {n}

\* The flush fails, perhaps in the middle: what is not written stays in the
\* buffer and the new frame is not taken.
FlushFails(n) ==
    /\ ~Fits
    /\ \E k \in 0 .. Len(buffer) - 1 :
          /\ file' = file \o SubSeq(buffer, 1, k)
          /\ buffer' = SubSeq(buffer, k + 1, Len(buffer))
    /\ skipped' = skipped \cup {n}

\* Slip: commands are recorded after the risk gate, so without the refused ones.
RecordsAdmitted(n, command) ==
    IF \E i \in DOMAIN command : command[i] = "market"
    THEN Buffered(n) \/ Flushed(n) \/ FlushFails(n)
    ELSE UNCHANGED <<file, buffer, skipped>>

\* let _ = writer.write_all(..), before the command is processed.
Records(n, command) == Buffered(n) \/ Flushed(n) \/ FlushFails(n)

Process(command) ==
    LET n      == engineSeq + 1
        events == Caused(n, command, limits)
    IN  /\ Running
        /\ n <= MaxCommands
        /\ engineSeq' = n
        /\ IF recorder
           THEN /\ Records(n, command)
                /\ source' = Append(source, [command |-> command, limits |-> limits])
                /\ reports' = reports \o SelectSeq(events, IsReport)
                /\ market' = market \o SelectSeq(events, IsMarket)
           ELSE UNCHANGED <<buffer, recordingVars>>
        /\ UNCHANGED <<step, pc, path, riskFile, limits, record, recorder, starts>>

-----------------------------------------------------------------------------
(* How it stops *)

\* Killed at any point.
Crash ==
    /\ pc # "down"
    /\ path' = Stale(path)
    /\ Gone
    /\ UNCHANGED <<riskFile, limits, record, engineSeq, recordingVars, starts>>

\* An error of accept ends the accept loop of order entry; the transport is
\* dropped, which removes its socket file if it can.  Open connections go on.
OrderEntryAcceptError ==
    /\ pc = "running"
    /\ pc' = "deaf"
    /\ \E left \in {"none", "stale"} : path' = [path EXCEPT !["orderEntry"] = left]
    /\ UNCHANGED <<step, riskFile, limits, record, recorder, buffer, engineSeq, recordingVars, starts>>

\* The same for market data, whose listener leaves its file behind.
MarketDataAcceptError ==
    /\ pc \in {"running", "deaf", "joining"}
    /\ path["marketData"] = "live"
    /\ path' = [path EXCEPT !["marketData"] = "stale"]
    /\ UNCHANGED <<step, pc, riskFile, limits, record, recorder, buffer, engineSeq, recordingVars, starts>>

\* Then the last connection closes: the matching thread returns, which drops
\* the recorder and flushes it as far as possible.
MatchingEnds ==
    /\ pc = "deaf"
    /\ pc' = "joining"
    /\ \E k \in 0 .. Len(buffer) : file' = file \o SubSeq(buffer, 1, k)
    /\ buffer' = << >>
    /\ recorder' = FALSE
    /\ UNCHANGED <<step, path, riskFile, limits, record, engineSeq, source, skipped, reports, market, starts>>

\* bin::run returns once the market-data accept loop has ended too.
Finish ==
    /\ pc = "joining"
    /\ path["marketData"] # "live"
    /\ Gone
    /\ UNCHANGED <<path, riskFile, limits, record, engineSeq, recordingVars, starts>>

\* An operator edits risk.toml.
EditRiskFile ==
    /\ riskFile' \in RiskFiles \ {riskFile}
    /\ UNCHANGED <<step, pc, path, limits, record, recorder, buffer, engineSeq, recordingVars, starts>>

-----------------------------------------------------------------------------
(* Replay *)

\* The framer keeps what is left of a torn last frame, so it is not replayed.
WholeFrames == [i \in 1 .. Len(file) \div 2 |-> source[file[2 * i - 1][1]].command]

\* replay_file on what is in the recording now, with risk.toml as it is now.
\* The position of an event in its list is its StreamSeq.
Replay ==
    FoldLeft(LAMBDA out, command :
                 LET n == out.engineSeq + 1
                     events == Caused(n, command, LoadConfig(riskFile))
                 IN  [engineSeq |-> n,
                      reports   |-> out.reports \o SelectSeq(events, IsReport),
                      market    |-> out.market \o SelectSeq(events, IsMarket)],
             [engineSeq |-> 0, reports |-> << >>, market |-> << >>], WholeFrames)

-----------------------------------------------------------------------------

Init ==
    /\ pc = "down"
    /\ step = "look"
    /\ path = [x \in Sockets |-> "none"]
    /\ riskFile \in RiskFiles
    /\ limits = Defaults
    /\ record = FALSE
    /\ recorder = FALSE
    /\ buffer = << >>
    /\ file = << >>
    /\ engineSeq = 0
    /\ source = << >>
    /\ skipped = {}
    /\ reports = << >>
    /\ market = << >>
    /\ starts = 0

Next ==
    \/ Start
    \/ \E x \in Sockets : Look(x) \/ RemoveFile(x) \/ Bind(x) \/ BindFails(x)
    \/ Configure
    \/ OpenRecorder
    \/ OpenRecorderFails
    \/ \E command \in Commands : Process(command)
    \/ Crash
    \/ OrderEntryAcceptError
    \/ MarketDataAcceptError
    \/ MatchingEnds
    \/ Finish
    \/ EditRiskFile

Spec == Init /\ [][Next]_vars

-----------------------------------------------------------------------------
(* Properties *)

\* The pieces of the commands whose write did not fail, in order.
Kept == FlattenSeq([n \in DOMAIN source |-> IF n \in skipped THEN << >> ELSE Pieces(n)])

\* Whatever flushes failed or were cut, whenever the daemon was killed and
\* however often it was started, the recording holds commands of one life, in
\* the order they were taken, each whole, with a torn one at most at the end;
\* and while the recorder is open the file and the BufWriter together hold every
\* command whose write_all did not fail.  This is what makes the best-effort
\* "let _ = writer.write_all(..)" of the matching thread safe to frame later.
\* With no failed write, however the life ended, its recording lacks at most
\* what BufWriter holds.
RecordingFaithful ==
    /\ IsPrefix(file, Kept)
    /\ recorder => file \o buffer = Kept
    /\ skipped = {} => 2 * Len(source) - Len(file) <= BufCap

\* Replaying, with limits like those the life had, gives the reports and the
\* market data of that life with the same EngineSeq, up to the first command
\* whose write failed (from there on the numbers are behind).
ReplayAgrees ==
    LET Undrifted(e) == \A n \in skipped : e.engineSeq < n
        Agrees(replayed, live) ==
            \A i \in DOMAIN replayed :
                Undrifted(replayed[i]) => i \in DOMAIN live /\ replayed[i] = live[i]
    IN  (\A n \in DOMAIN source : source[n].limits = LoadConfig(riskFile))
            => Agrees(Replay.reports, reports) /\ Agrees(Replay.market, market)

\* However the earlier lives ended (killed, a failed start with one socket bound,
\* an accept error) and whatever they left at its path, a socket is bound at a
\* free path: the daemon never fails with "address already in use" against a path
\* nobody listens on, which is what Transport::bind is asked for.
PathFreeAtBind == pc \in Sockets /\ step = "bind" => path[pc] = "none"
=============================================================================
