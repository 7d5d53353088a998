--------------------------- MODULE SpeakerStream ---------------------------
(***************************************************************************)
(* Playback: the samples queued by `play` and drained by the audio         *)
(* thread's callback, the counters of underruns with a worker each, and    *)
(* the reopening of the stream (drivers/speaker.py).  A driver's actions   *)
(* run one at a time; callbacks and workers run beside them.               *)
(***************************************************************************)
EXTENDS Integers, Sequences, FiniteSets, FiniteSetsExt, SequencesExt

CONSTANTS SpeakerRates,   \* sample rates
          FirstRate,      \* the rate the driver starts with
          Lengths,        \* samples of one `play`
          Block,          \* samples of one callback (1024)
          MaxPlays,       \* bound on plays
          MaxOpens,       \* bound on changes of the rate
          MaxUnderflows   \* bound on reported underflows

VARIABLES speaker,    \* the driver's fields and how far a reopen is
          open,       \* a stream calls back
          chunks,     \* queued chunks: number, length, rate when queued
          offset,     \* samples of the first chunk already played
          pending,    \* samples that wait
          heard,      \* last sample played; one was played at another rate than its own
          plays, opens,
          counters,   \* the underrun counters whose worker lives
          under       \* underflows: happened, reported, dropped by a close

playVars == <<chunks, offset, pending, heard, plays>>
streamVars == <<speaker, open, opens>>
countVars == <<counters, under>>
spVars == <<speaker, open, opens, chunks, offset, pending, heard, plays, counters, under>>

Total(cs) == FoldSeq(LAMBDA c, sum : c.len + sum, 0, cs)
Resting == "idle"

SpeakerTypeOK ==
  /\ speaker \in [state : {"running", "errored", "stopped"}, rate : SpeakerRates,
                  previous : SpeakerRates, step : {Resting, "stop", "join", "open", "restore"}]
  /\ open \in BOOLEAN /\ offset \in Nat /\ pending \in Nat
  /\ \A i \in DOMAIN chunks : chunks[i] \in [id : 1..MaxPlays, len : Lengths, rate : SpeakerRates]
  /\ heard \in [id : 0..MaxPlays, at : Nat, otherRate : BOOLEAN]
  /\ plays \in 0..MaxPlays /\ opens \in 0..MaxOpens
  /\ \A c \in counters : c \in [id : 0..(2 * MaxOpens + 1), count : 0..MaxUnderflows, taken : 0..MaxUnderflows,
                                closed : BOOLEAN, waits : BOOLEAN]
  /\ under \in [happened : 0..MaxUnderflows, reported : Nat, dropped : Nat]

NewCounter(n) == [id |-> n, count |-> 0, taken |-> 0, closed |-> FALSE, waits |-> FALSE]

SpeakerInit ==
  /\ speaker = [state |-> "running", rate |-> FirstRate, previous |-> FirstRate, step |-> Resting]
  /\ open = TRUE /\ chunks = <<>> /\ offset = 0 /\ pending = 0
  /\ heard = [id |-> 0, at |-> 0, otherRate |-> FALSE]
  /\ plays = 0 /\ opens = 0
  /\ counters = {NewCounter(0)} /\ under = [happened |-> 0, reported |-> 0, dropped |-> 0]

-----------------------------------------------------------------------------
(* Playing                                                                  *)

Play ==
  /\ speaker.step = Resting /\ speaker.state # "stopped" /\ plays < MaxPlays /\ plays' = plays + 1
  /\ \E n \in Lengths :
       /\ chunks' = Append(chunks, [id |-> plays', len |-> n, rate |-> speaker.rate])
       /\ pending' = pending + n
  /\ UNCHANGED <<offset, heard, streamVars, countVars>>

\* Defect: the next chunk starts where the dropped one was.
Clear_KeepsOffset ==
  /\ speaker.step = Resting /\ chunks # <<>>
  /\ chunks' = <<>> /\ pending' = 0
  /\ UNCHANGED <<offset, heard, plays, streamVars, countVars>>

Clear ==
  /\ speaker.step = Resting /\ chunks # <<>>
  /\ chunks' = <<>> /\ offset' = 0 /\ pending' = 0
  /\ UNCHANGED <<heard, plays, streamVars, countVars>>

\* Where a read of n samples, at most what is queued, ends: the chunks that
\* are left and the offset into the first of them.
After(cs, from, n) ==
  LET used == CHOOSE k \in 0..Len(cs) :
                /\ Total(SubSeq(cs, 1, k)) <= from + n
                /\ k = Len(cs) \/ Total(SubSeq(cs, 1, k + 1)) > from + n
  IN [chunks |-> SubSeq(cs, used + 1, Len(cs)),
      offset |-> from + n - Total(SubSeq(cs, 1, used))]

\* read_into: fills the block from as many chunks as it takes.
ReadInto ==
  /\ open /\ chunks # <<>>
  /\ LET all == Total(chunks) - offset
         n == IF all < Block THEN all ELSE Block
         left == After(chunks, offset, n)
         touched == {i \in 1..Len(chunks) : i <= Len(chunks) - Len(left.chunks)
                                            \/ (i = Len(chunks) - Len(left.chunks) + 1 /\ left.offset > 0)}
         last == CHOOSE i \in touched : \A j \in touched : j <= i
     IN /\ chunks' = left.chunks /\ offset' = left.offset /\ pending' = pending - n
        /\ heard' = [heard EXCEPT !.id = chunks[last].id, !.at = IF left.offset > 0 THEN left.offset ELSE chunks[last].len,
                                  !.otherRate = @ \/ \E i \in touched : chunks[i].rate # speaker.rate]
  /\ UNCHANGED <<plays, streamVars, countVars>>

-----------------------------------------------------------------------------
(* Underruns                                                                *)

Becomes(c, d) == counters' = (counters \ {c}) \cup {d}

\* add, by the callback of the open stream.
Underflow ==
  /\ open /\ under.happened < MaxUnderflows
  /\ under' = [under EXCEPT !.happened = @ + 1]
  /\ \E c \in counters : ~c.closed /\ Becomes(c, [c EXCEPT !.count = @ + 1])
  /\ UNCHANGED <<playVars, streamVars>>

\* _run: takes the count ...
TakeCount ==
  /\ \E c \in counters : /\ c.count > 0 /\ c.taken = 0 /\ ~c.waits /\ ~c.closed
                         /\ Becomes(c, [c EXCEPT !.taken = c.count, !.count = 0])
  /\ UNCHANGED <<under, playVars, streamVars>>

\* Defect: the count is cleared once it was reported.
ReportCount_ClearsAfter ==
  /\ \E c \in counters :
       /\ c.taken > 0
       /\ under' = [under EXCEPT !.reported = @ + c.taken]
       /\ Becomes(c, [c EXCEPT !.taken = 0, !.count = 0, !.waits = TRUE])
  /\ UNCHANGED <<playVars, streamVars>>

\* ... reports it outside the lock ...
ReportCount ==
  /\ \E c \in counters :
       /\ c.taken > 0
       /\ under' = [under EXCEPT !.reported = @ + c.taken]
       /\ Becomes(c, [c EXCEPT !.taken = 0, !.waits = TRUE])
  /\ UNCHANGED <<playVars, streamVars>>

\* ... and waits before the next.
IntervalOver ==
  /\ \E c \in counters : c.waits /\ ~c.closed /\ Becomes(c, [c EXCEPT !.waits = FALSE])
  /\ UNCHANGED <<under, playVars, streamVars>>

CounterEnds ==
  /\ \E c \in counters : c.closed /\ c.taken = 0 /\ counters' = counters \ {c}
  /\ UNCHANGED <<under, playVars, streamVars>>

-----------------------------------------------------------------------------
(* The stream                                                               *)

\* _reopen, by set_device or set_samplerate.
ReopenSpeaker ==
  /\ speaker.step = Resting /\ speaker.state # "stopped" /\ opens < MaxOpens /\ opens' = opens + 1
  /\ \E rate \in SpeakerRates :
       speaker' = [speaker EXCEPT !.step = "stop", !.previous = speaker.rate, !.rate = rate]
  /\ UNCHANGED <<open, playVars, countVars>>

StopSpeaker ==
  /\ speaker.step = Resting /\ speaker.state # "stopped"
  /\ speaker' = [speaker EXCEPT !.step = "stop", !.state = "stopped"]
  /\ UNCHANGED <<open, opens, playVars, countVars>>

\* _close_stream: no callback any more; what was not reported is dropped.
CloseSpeaker ==
  /\ speaker.step = "stop"
  /\ open' = FALSE /\ speaker' = [speaker EXCEPT !.step = "join"]
  /\ counters' = {[c EXCEPT !.closed = TRUE, !.count = 0, !.waits = FALSE] : c \in counters}
  /\ under' = [under EXCEPT !.dropped = @ + MapThenSumSet(LAMBDA c : c.count, counters)]
  /\ UNCHANGED <<opens, playVars>>

\* join(1.0), which may give up on a worker inside a report.
SpeakerJoined ==
  /\ speaker.step = "join"
  /\ speaker' = [speaker EXCEPT !.step = IF speaker.state = "stopped" THEN Resting ELSE "open"]
  /\ UNCHANGED <<open, opens, playVars, countVars>>

OpenSpeaker ==
  /\ speaker.step \in {"open", "restore"}
  /\ open' = TRUE /\ speaker' = [speaker EXCEPT !.step = Resting]
  /\ counters' = counters \cup {NewCounter(2 * opens + IF speaker.step = "open" THEN 0 ELSE 1)}
  /\ UNCHANGED <<opens, under, playVars>>

OpenSpeakerFails ==
  /\ speaker.step \in {"open", "restore"}
  /\ speaker' = IF speaker.step = "open"
                THEN [speaker EXCEPT !.step = "restore", !.rate = speaker.previous]
                ELSE [speaker EXCEPT !.step = Resting, !.state = "errored"]
  /\ UNCHANGED <<open, opens, playVars, countVars>>

SpeakerNext ==
  \/ Play \/ Clear \/ ReadInto \/ Underflow \/ TakeCount \/ ReportCount \/ IntervalOver
  \/ CounterEnds \/ ReopenSpeaker \/ StopSpeaker \/ CloseSpeaker \/ SpeakerJoined
  \/ OpenSpeaker \/ OpenSpeakerFails

SpeakerSpec == SpeakerInit /\ [][SpeakerNext]_spVars

-----------------------------------------------------------------------------
\* The next sample to be played follows the last one that was, and the count
\* the `play` action answers with is the number of samples that wait.
SamplesAddUp ==
  /\ pending = Total(chunks) - offset
  /\ chunks # <<>> => IF heard.id = chunks[1].id THEN offset = heard.at ELSE offset = 0

\* Every underflow is reported once, or was not yet when its stream closed.
UnderrunsAddUp ==
  under.happened = under.reported + under.dropped
                   + MapThenSumSet(LAMBDA c : c.count + c.taken, counters)

\* Only the open stream calls back, into a counter whose worker runs.
StreamIsCounted ==
  /\ speaker.step = Resting /\ speaker.state = "running" => open
  /\ Cardinality({c \in counters : ~c.closed}) = IF open THEN 1 ELSE 0

SpeakerIsSound == SamplesAddUp /\ UnderrunsAddUp /\ StreamIsCounted

\* What the code does not keep: `play` says the samples are at the stream's
\* rate, and a later set_samplerate plays what is queued at another.
PlayedAtItsRate == ~heard.otherRate
=============================================================================
