---------------------------- MODULE BridgeWriter ----------------------------
(***************************************************************************)
(* The thread that owns the bridge's stdout (bridge.py, _Writer), what the *)
(* drivers' threads post to it, and the end of the bridge.                 *)
(*                                                                         *)
(* A message is one of three kinds: an ordered one (a reply, a log, a      *)
(* state, an ordinary event), the latest value of a stream, or a value in  *)
(* a bounded queue.  Messages are numbered as they are posted.             *)
(***************************************************************************)
EXTENDS Integers, FiniteSets, Sequences, SequencesExt

CONSTANTS Streams,   \* events of which only the latest value waits
          Buffers,   \* events that wait in a queue
          MaxSize,   \* the size of those queues
          MaxPosts   \* bound on messages

VARIABLES
  posted,    \* messages posted so far, in order
  ordered,   \* _Writer._ordered
  latest,    \* _Writer._latest, in the order it is written
  buffered,  \* _Writer._buffered
  uncounted, \* values dropped whose sample is not added yet
  dropped,   \* samples of "<event>_dropped" that no flush took
  failed,    \* _failed_event_keys
  batch,     \* what _drain_once took and has not written
  writer,    \* "waiting", "flushing", "writing" or "ended", and what it saw of `closed`
  out,       \* lines written
  broken,    \* the pipe is gone
  closed     \* how much was posted when _closed was set, or -1

writerVars == <<posted, ordered, latest, buffered, uncounted, dropped, failed, batch,
                writer, out, broken, closed>>

Events == Streams \cup Buffers
Ordered == "ordered"
\* An event that is `bad` cannot be serialized; `n` is the message's number.
Messages == [key : Events \cup {Ordered}, bad : BOOLEAN, n : 1..MaxPosts]
DropReports == [dropped : 1..MaxPosts]

WriterTypeOK ==
  /\ posted \in Seq(Messages) /\ Len(posted) <= MaxPosts
  /\ ordered \in Seq(Messages \cup DropReports)
  /\ latest \in Seq(Messages) /\ buffered \in [Buffers -> Seq(Messages)]
  /\ uncounted \in 0..MaxPosts /\ dropped \in 0..MaxPosts /\ failed \subseteq Events
  /\ batch \in Seq(Messages \cup DropReports)
  /\ writer \in [at : {"waiting", "flushing", "writing", "ended"}, closing : BOOLEAN]
  /\ out \in Seq(Messages \cup DropReports) /\ broken \in BOOLEAN
  /\ closed \in -1..MaxPosts

WriterInit ==
  /\ posted = <<>> /\ ordered = <<>> /\ latest = <<>> /\ buffered = [k \in Buffers |-> <<>>]
  /\ uncounted = 0 /\ dropped = 0 /\ failed = {} /\ batch = <<>>
  /\ writer = [at |-> "waiting", closing |-> FALSE]
  /\ out = <<>> /\ broken = FALSE /\ closed = -1

queues == <<ordered, latest, buffered, uncounted, dropped>>

-----------------------------------------------------------------------------
(* The threads that post                                                    *)

\* Defect: a full queue takes no newer value.
PostBuffered_DropsNewest(q, m) == IF Len(q) >= MaxSize THEN q ELSE Append(q, m)
PostBuffered(q, m) == IF Len(q) >= MaxSize THEN Append(Tail(q), m) ELSE Append(q, m)

\* Defect: the first value stays.
PostLatest_KeepsFirst(m) ==
  IF \E i \in DOMAIN latest : latest[i].key = m.key THEN latest ELSE Append(latest, m)
PostLatest(m) == Append(SelectSeq(latest, LAMBDA x : x.key # m.key), m)

Post(k, bad) ==
  /\ Len(posted) < MaxPosts
  /\ LET m == [key |-> k, bad |-> bad, n |-> Len(posted) + 1]
     IN /\ posted' = Append(posted, m)
        /\ \/ /\ k = Ordered /\ ordered' = Append(ordered, m)
              /\ UNCHANGED <<latest, buffered, uncounted>>
           \/ /\ k \in Streams /\ latest' = PostLatest(m)
              /\ UNCHANGED <<ordered, buffered, uncounted>>
           \/ /\ k \in Buffers /\ buffered' = [buffered EXCEPT ![k] = PostBuffered(@, m)]
              /\ uncounted' = uncounted + (IF Len(buffered[k]) >= MaxSize THEN 1 ELSE 0)
              /\ UNCHANGED <<ordered, latest>>
  /\ UNCHANGED <<dropped, failed, batch, writer, out, broken, closed>>

\* _Metrics.add: the value dropped is counted after the queues' lock is released.
Count ==
  /\ uncounted > 0
  /\ uncounted' = uncounted - 1 /\ dropped' = dropped + 1
  /\ UNCHANGED <<posted, ordered, latest, buffered, failed, batch, writer, out, broken,
                 closed>>

-----------------------------------------------------------------------------
(* The writer thread                                                        *)

Waiting == ordered # <<>> \/ latest # <<>> \/ \E k \in Buffers : buffered[k] # <<>>

\* _run: it wakes for messages, for a flush that is due, or to close.
Wake ==
  /\ writer.at = "waiting"
  /\ Waiting \/ closed >= 0 \/ dropped > 0
  /\ writer' = [at |-> "flushing", closing |-> closed >= 0]
  /\ UNCHANGED <<posted, queues, failed, batch, out, broken, closed>>

\* Whenever a flush is due, and in every round once it closes.
Flush ==
  /\ writer.at = "flushing" /\ dropped > 0
  /\ ordered' = Append(ordered, [dropped |-> dropped]) /\ dropped' = 0
  /\ UNCHANGED <<posted, latest, buffered, uncounted, failed, batch, writer, out,
                 broken, closed>>

BufferedInOrder == FlattenSeq([i \in 1..Cardinality(Buffers) |-> buffered[SetToSeq(Buffers)[i]]])

\* Defect: what it takes stays in the queue.
Emptied_Kept == UNCHANGED <<ordered, latest, buffered>>
Emptied == ordered' = <<>> /\ latest' = <<>> /\ buffered' = [k \in Buffers |-> <<>>]

\* Defect: the thread ends as soon as it sees the close.
Ends_AtOnce == writer.closing
\* It ends when it closes and a round wrote nothing.
Ends == writer.closing /\ ~Waiting

\* _drain_once takes everything under the lock.
Drain ==
  /\ writer.at = "flushing" /\ (writer.closing => dropped = 0)
  /\ writer' = [writer EXCEPT !.at = IF Ends THEN "ended" ELSE IF Waiting THEN "writing" ELSE "waiting"]
  /\ batch' = ordered \o BufferedInOrder \o latest
  /\ Emptied
  /\ UNCHANGED <<posted, uncounted, dropped, failed, out, broken, closed>>

\* _encode_event: an event that cannot be serialized is replaced by an error,
\* but only the first time in a row.  `acc` is [lines, failed].
Encoded(acc, m) ==
  IF "dropped" \in DOMAIN m \/ m.key = Ordered THEN [acc EXCEPT !.lines = Append(@, m)]
  ELSE IF ~m.bad THEN [lines |-> Append(acc.lines, m), failed |-> acc.failed \ {m.key}]
  ELSE IF m.key \in acc.failed THEN acc
  ELSE [lines |-> Append(acc.lines, m), failed |-> acc.failed \cup {m.key}]

\* Node may be gone by then: the thread goes on draining, for nobody.
Write ==
  /\ writer.at = "writing"
  /\ LET e == FoldLeft(Encoded, [lines |-> <<>>, failed |-> failed], batch)
     IN /\ failed' = e.failed
        /\ \/ ~broken /\ out' = out \o e.lines /\ UNCHANGED broken
           \/ broken' = TRUE /\ UNCHANGED out
  /\ batch' = <<>> /\ writer' = [writer EXCEPT !.at = "waiting"]
  /\ UNCHANGED <<posted, queues, closed>>

-----------------------------------------------------------------------------
\* close: the thread writes what is left, as long as the caller waits for it.
Close ==
  /\ closed = -1 /\ closed' = Len(posted)
  /\ UNCHANGED <<posted, queues, failed, batch, writer, out, broken>>

\* A running process runs its writer thread, and Node reads.
WriterProgress == Wake \/ Flush \/ Drain \/ Write

WriterNext ==
  \/ Count \/ WriterProgress \/ Close
  \/ Post(Ordered, FALSE) \/ \E k \in Events, bad \in BOOLEAN : Post(k, bad)

WriterSpec == WriterInit /\ [][WriterNext]_writerVars
WriterFairSpec == WriterSpec /\ WF_writerVars(WriterProgress)

-----------------------------------------------------------------------------
Of(k, s) == SelectSeq(s, LAMBDA m : "key" \in DOMAIN m /\ m.key = k)
Numbers(s) == [i \in DOMAIN s |-> s[i].n]
\* Every message of an event on its way, the oldest first.
OnItsWay(k) ==
  Numbers(Of(k, batch)) \o Numbers(Of(k, IF k = Ordered THEN ordered
                                         ELSE IF k \in Streams THEN latest ELSE buffered[k]))
Done(k) == Numbers(Of(k, out))
Sent(k) == Numbers(Of(k, posted))
Increasing(s) == \A i, j \in DOMAIN s : i < j => s[i] < s[j]
Total(s) == FoldLeft(LAMBDA a, m : a + IF "dropped" \in DOMAIN m THEN m.dropped ELSE 0, 0, s)

\* While Node reads: ordered messages are all written, once and in the order
\* they were posted; of an event nothing is written twice or out of order and
\* its newest value is never lost; whatever a queue dropped is counted;
\* and a thread that ended by itself left nothing posted before the close.
WriterIsSound ==
  ~broken =>
    /\ Done(Ordered) \o OnItsWay(Ordered) = Sent(Ordered)
    /\ \A k \in Events : Increasing(Done(k) \o OnItsWay(k))
    /\ \A k \in Events :
         Sent(k) # <<>> /\ ~posted[Last(Sent(k))].bad =>
           Last(Sent(k)) \in Range(Done(k) \o OnItsWay(k))
    /\ (\A i \in DOMAIN posted : ~posted[i].bad) =>
         Cardinality({i \in DOMAIN posted : posted[i].key \in Buffers
                        /\ i \notin Range(Done(posted[i].key) \o OnItsWay(posted[i].key))})
           = uncounted + dropped + Total(ordered \o batch \o out)
    /\ writer.at = "ended" =>
         \A n \in 1..closed : posted[n].key = Ordered => n \in Range(Done(Ordered))

\* The writer thread never sleeps on a message, until it closes.
NothingWaits == closed = -1 => ~Waiting
EverythingIsWritten == []<>NothingWaits
=============================================================================
