----------------------------- MODULE RecordPipe -----------------------------
(***************************************************************************)
(* ProcessElement of the byte-stream source as the three goroutines it     *)
(* runs: the feeder writes lines to an io.Pipe, the decoder turns them     *)
(* into records on a bounded channel, ProcessElement drains the records,   *)
(* then the decoder's errors, then the feeder's, and closes the read end   *)
(* of the pipe when it returns.                                            *)
(*                                                                         *)
(* A line is what the code does with it: "ok" (a record), "skip" (blank or *)
(* header), "bad" (csv read error, JSONL parse error, array element of the *)
(* wrong type), "syntax" (array element that is not JSON), "close" (the    *)
(* array's closing bracket), "ioerr" (the storage read fails there).  The  *)
(* array's opening bracket is part of its first line.                      *)
(***************************************************************************)
EXTENDS Integers, Sequences, FiniteSets

CONSTANTS Formats,      \* the formats tried, of "csv", "jsonl", "json_array"
          NumLines,     \* lines of the restriction
          LineKinds,    \* the kinds of line tried
          AllowTrailing,\* may lines follow the array's closing bracket?
          Cancellable,  \* may the bundle's context be cancelled?
          RecCap,       \* capacity of recChan (100 in the code)
          ErrCap        \* capacity of errChan (10 in the code)

ASSUME PipeAssumption ==
  /\ Formats \subseteq {"csv", "jsonl", "json_array"}
  /\ LineKinds \subseteq {"ok", "skip", "bad", "syntax", "close", "ioerr"}
  /\ NumLines \in Nat /\ RecCap \in Nat \ {0} /\ ErrCap \in Nat \ {0}
  /\ AllowTrailing \in BOOLEAN /\ Cancellable \in BOOLEAN

VARIABLES
  format, lines,         \* the input; never change
  ctxDone,               \* the context was cancelled
  feeder, next,          \* the feeder's control point and its next line
  pipe,                  \* the line a pw.Write is offering, 0 for none
  feedErr,               \* feedErrChan holds an error
  decoder, got,          \* the decoder's control point and its current line
  recChan, errs,         \* queued records, and how many errors are queued
  consumer, emitted,     \* ProcessElement's control point and its output
  result                 \* what ProcessElement returned

inputVars == <<format, lines>>
feedVars == <<feeder, next, feedErr>>
decVars == <<decoder, got, errs>>
conVars == <<consumer, emitted, result>>
pipeVars == <<inputVars, ctxDone, feedVars, pipe, decVars, recChan, conVars>>

Line == 1..NumLines

(* The lines each format can hold. *)
KindsOf(f) ==
  LineKinds \cap CASE f = "json_array" -> {"ok", "skip", "bad", "syntax", "close", "ioerr"}
                   [] OTHER -> {"ok", "skip", "bad", "ioerr"}

PipeInit ==
  /\ format \in Formats
  /\ lines \in [Line -> KindsOf(format)]
  /\ ~AllowTrailing => \A i \in Line : lines[i] = "close" => i = NumLines
  /\ ctxDone = FALSE
  /\ feeder = "loop" /\ next = 1 /\ pipe = 0 /\ feedErr = FALSE
  /\ decoder = "unstarted" /\ got = 0
  /\ recChan = <<>> /\ errs = 0
  /\ consumer = "setup" /\ emitted = <<>> /\ result = "none"

Cancel ==
  /\ Cancellable /\ ~ctxDone
  /\ ctxDone' = TRUE
  /\ UNCHANGED <<inputVars, feedVars, pipe, decVars, recChan, conVars>>

-----------------------------------------------------------------------------
(* The feeder.  Leaving the loop closes the write end and feedErrChan. *)

FeederEnd(failed) == feeder' = "ended" /\ feedErr' = failed

FeederLoop ==
  /\ feeder = "loop"
  /\ IF ctxDone
       THEN FeederEnd(TRUE) /\ UNCHANGED pipe
       ELSE IF next > NumLines
         THEN FeederEnd(FALSE) /\ UNCHANGED pipe
         ELSE IF lines[next] = "ioerr"
           THEN FeederEnd(TRUE) /\ UNCHANGED pipe
           ELSE feeder' = "write" /\ pipe' = next /\ UNCHANGED feedErr
  /\ UNCHANGED next

(* A feeder that tries again when the write fails. *)
FeederRetriesWrite ==
  /\ feeder = "write"
  /\ \/ pipe = 0 /\ feeder' = "loop" /\ next' = next + 1
     \/ pipe # 0 /\ consumer = "returned" /\ feeder' = "loop" /\ UNCHANGED next
  /\ pipe' = 0
  /\ UNCHANGED feedErr

(* External, io.Pipe: a write returns when a read took the line, or with   *)
(* the reader's error when the read end is closed.                         *)
FeederWritten ==
  /\ feeder = "write"
  /\ \/ /\ pipe = 0
        /\ feeder' = "loop" /\ next' = next + 1
        /\ UNCHANGED <<pipe, feedErr>>
     \/ /\ pipe # 0 /\ consumer = "returned"
        /\ FeederEnd(TRUE) /\ pipe' = 0
        /\ UNCHANGED next

Feeder ==
  /\ FeederLoop \/ FeederWritten
  /\ UNCHANGED <<inputVars, ctxDone, decVars, recChan, conVars>>

-----------------------------------------------------------------------------
(* The decoders.  Returning closes errChan and recChan. *)

Take == pipe # 0 /\ got' = pipe /\ pipe' = 0
AtEOF == pipe = 0 /\ feeder = "ended"
DecoderEnd == decoder' = "ended"

(* select { case errChan <- err: default: } *)
OfferErr == errs' = IF errs < ErrCap THEN errs + 1 ELSE errs
(* errChan <- err *)
SendErr == errs < ErrCap /\ errs' = errs + 1

DecodeCSV ==
  \/ /\ decoder = "loop" /\ ctxDone
     /\ SendErr /\ DecoderEnd
     /\ UNCHANGED <<got, pipe, recChan>>
  \/ /\ decoder = "loop" /\ ~ctxDone
     /\ decoder' = "read"
     /\ UNCHANGED <<got, pipe, recChan, errs>>
  \/ /\ decoder = "read" /\ Take
     /\ CASE lines[pipe] = "bad"  -> SendErr /\ DecoderEnd
          [] lines[pipe] = "skip" -> decoder' = "loop" /\ UNCHANGED errs
          [] OTHER                -> decoder' = "send" /\ UNCHANGED errs
     /\ UNCHANGED recChan
  \/ /\ decoder = "read" /\ AtEOF
     /\ DecoderEnd
     /\ UNCHANGED <<got, pipe, recChan, errs>>
  \/ /\ decoder = "send" /\ Len(recChan) < RecCap
     /\ recChan' = Append(recChan, got)
     /\ decoder' = "loop"
     /\ UNCHANGED <<got, pipe, errs>>

(* A JSONL decoder that waits for room to report what it cannot parse. *)
ParseJSONLineWaits ==
  CASE lines[got] = "skip" -> decoder' = "loop" /\ UNCHANGED errs
    [] lines[got] = "bad"  -> decoder' = "loop" /\ SendErr
    [] OTHER               -> decoder' = "send" /\ UNCHANGED errs

ParseJSONLine ==
  CASE lines[got] = "skip" -> decoder' = "loop" /\ UNCHANGED errs
    [] lines[got] = "bad"  -> decoder' = "loop" /\ OfferErr
    [] OTHER               -> decoder' = "send" /\ UNCHANGED errs

(* An array element: dec.More() saw it, dec.Decode reads it.  External,    *)
(* json.Decoder: after a syntax error Decode returns the same error again, *)
(* without reading on, and More stays true.                                *)
ParseElement ==
  CASE lines[got] = "bad"    -> decoder' = "loop" /\ OfferErr
    [] lines[got] = "syntax" -> decoder' = "check" /\ OfferErr
    [] OTHER                 -> decoder' = "send" /\ UNCHANGED errs

(* The JSON decoder reads (scanner.Scan, dec.More), then checks the        *)
(* context, then parses; it gives up sending when the context is done.     *)
DecodeJSON ==
  \/ /\ decoder = "loop" /\ Take
     /\ decoder' = IF format = "json_array"
                     THEN CASE lines[pipe] = "close" -> "ended"
                            [] lines[pipe] = "skip"  -> "loop"
                            [] OTHER                 -> "check"
                     ELSE "check"
     /\ UNCHANGED <<recChan, errs>>
  \/ /\ decoder = "loop" /\ AtEOF
     /\ DecoderEnd
     /\ UNCHANGED <<got, pipe, recChan, errs>>
  \/ /\ decoder = "check" /\ ctxDone
     /\ OfferErr /\ DecoderEnd
     /\ UNCHANGED <<got, pipe, recChan>>
  \/ /\ decoder = "check" /\ ~ctxDone
     /\ IF format = "json_array" THEN ParseElement ELSE ParseJSONLine
     /\ UNCHANGED <<got, pipe, recChan>>
  \/ /\ decoder = "send" /\ Len(recChan) < RecCap
     /\ recChan' = Append(recChan, got)
     /\ decoder' = "loop"
     /\ UNCHANGED <<got, pipe, errs>>
  \/ /\ decoder = "send" /\ ctxDone
     /\ DecoderEnd
     /\ UNCHANGED <<got, pipe, recChan, errs>>

Decoder ==
  /\ IF format = "csv" THEN DecodeCSV ELSE DecodeJSON
  /\ UNCHANGED <<inputVars, ctxDone, feedVars, conVars>>

-----------------------------------------------------------------------------
(* ProcessElement after it has started the feeder. *)

Finish(r) == consumer' = "returned" /\ result' = r

(* Wrapping the stream fails, or the decoder is started. *)
Setup ==
  /\ consumer = "setup"
  /\ \/ Finish("error") /\ UNCHANGED decoder
     \/ consumer' = "records" /\ decoder' = "loop" /\ UNCHANGED result
  /\ UNCHANGED <<got, errs, recChan, emitted>>

DrainRecords ==
  /\ consumer = "records"
  /\ \/ /\ recChan # <<>>
        /\ emitted' = Append(emitted, Head(recChan)) /\ recChan' = Tail(recChan)
        /\ UNCHANGED consumer
     \/ /\ recChan = <<>> /\ decoder = "ended"
        /\ consumer' = "decErrs"
        /\ UNCHANGED <<emitted, recChan>>
  /\ UNCHANGED <<result, decVars>>

DrainDecErrs ==
  /\ consumer = "decErrs"
  /\ IF errs > 0 THEN Finish("error") /\ errs' = errs - 1
                 ELSE consumer' = "feedErrs" /\ UNCHANGED <<result, errs>>
  /\ UNCHANGED <<decoder, got, recChan, emitted>>

(* Returning success as soon as the decoder is done. *)
DrainFeedErrsNot ==
  /\ consumer = "feedErrs"
  /\ Finish("nil")
  /\ UNCHANGED <<decVars, recChan, emitted>>

DrainFeedErrs ==
  /\ consumer = "feedErrs"
  /\ feedErr \/ feeder = "ended"
  /\ Finish(IF feedErr THEN "error" ELSE "nil")
  /\ UNCHANGED <<decVars, recChan, emitted>>

Consumer ==
  /\ Setup \/ DrainRecords \/ DrainDecErrs \/ DrainFeedErrs
  /\ UNCHANGED <<inputVars, ctxDone, feedVars, pipe>>

-----------------------------------------------------------------------------
AllEnded == consumer = "returned" /\ feeder = "ended" /\ decoder \in {"unstarted", "ended"}
PipeTerminated == AllEnded /\ UNCHANGED pipeVars

PipeNext == Cancel \/ Feeder \/ Decoder \/ Consumer \/ PipeTerminated

(* Each goroutine that can run eventually does: the Go scheduler's promise. *)
Fairness == WF_pipeVars(Feeder) /\ WF_pipeVars(Decoder) /\ WF_pipeVars(Consumer)

PipeSpec == PipeInit /\ [][PipeNext]_pipeVars /\ Fairness

-----------------------------------------------------------------------------
(* A sequence in file order, and what it holds. *)
InFileOrder(s) == \A i, j \in DOMAIN s : i < j => s[i] < s[j]
Held(s) == {s[i] : i \in DOMAIN s}

(* Success means the whole restriction: when ProcessElement returns nil,   *)
(* every record was emitted once, in file order, and nothing was malformed *)
(* (byte_stream_sdf.go:253-271: the errors of both goroutines are          *)
(* collected before success is reported).  The JSON decoder drops a record *)
(* without an error when the context is done while it waits to send, so    *)
(* there the promise ends with a cancellation.                             *)
NoSilentLoss ==
  result = "nil" /\ (format = "csv" \/ ~ctxDone) =>
    /\ InFileOrder(emitted) /\ Held(emitted) = {i \in Line : lines[i] = "ok"}
    /\ \A i \in Line : lines[i] \notin {"bad", "syntax", "ioerr"}

(* ProcessElement returns: feeder, decoder and consumer never wait for     *)
(* each other for ever (byte_stream_sdf.go:196 and :234).                  *)
Returns == <>(consumer = "returned")

(* The same where the decoder never leaves the feeder alone: always for    *)
(* CSV, whose decoder reports a cancellation; for JSON, whose decoder ends *)
(* silently when it is cancelled while it waits to send, only as long as   *)
(* the context lives (jsonl_parser.go:94-98 and :133-137).  An array that  *)
(* is not JSON is left out: its decoder loops on the sticky error.         *)
ReturnsUncancelled ==
  (\A i \in Line : lines[i] # "syntax") /\ [](format = "csv" \/ ~ctxDone) => Returns

(* No goroutine is left behind once ProcessElement has returned: closing   *)
(* the read end of the pipe frees the feeder (byte_stream_sdf.go:234).     *)
NoGoroutineLeft == (consumer = "returned") ~> AllEnded
=============================================================================
