------------------------- MODULE EventWrapup_proofs -------------------------
(***************************************************************************)
(* Safety of EventWrapup for any number of events, workers and retries:    *)
(* the receiver keeps the safety part of EventDelivery, and the end of a   *)
(* job is notified once.                                                   *)
(***************************************************************************)
EXTENDS EventWrapup, FiniteSetTheorems, SequenceTheorems, TLAPS

RunType == [at : {"running", "over", "notify", "done", "dead"}, ct : 0 .. NEvents, wrapup : BOOLEAN]
RowType == [status : {"running", "final", "reaped"}, counts : BOOLEAN, tally : 0 .. NEvents]
BufferType == UNION {[S -> 0 .. MaxTries - 1] : S \in SUBSET Events}

Types ==
  /\ kind \in {"playbook", "system"} /\ run \in RunType /\ row \in RowType
  /\ queue \in Seq(1 .. EOF) /\ buffer \in [Workers -> BufferType]
  /\ wrapping \in [Workers -> {"no", "counts", "send"}]
  /\ saved \in [Events -> {0, 1}] /\ harm \subseteq EventFaults

Increasing(seq) == \A i, k \in DOMAIN seq : i < k => seq[i] < seq[k]

(* An event that was sent is in the queue, or in one buffer, or has a row, or is in
   none of them. *)
Unique ==
  /\ Increasing(queue)
  /\ \A e \in Range(queue) :
       /\ e \in Events => e <= run.ct /\ saved[e] = 0 /\ \A w \in Workers : e \notin DOMAIN buffer[w]
       /\ e = EOF => run.at # "running"
  /\ \A w \in Workers : \A e \in DOMAIN buffer[w] :
       e <= run.ct /\ saved[e] = 0 /\ \A v \in Workers : e \in DOMAIN buffer[v] => v = w
  /\ \A e \in Events : saved[e] = 1 => e <= run.ct

-----------------------------------------------------------------------------
(* The queue and the buffers.                                               *)

LEMMA EventsAndEOF ==
  /\ NEvents \in Nat /\ EOF \in Nat /\ EOF = NEvents + 1 /\ EOF \notin Events
  /\ 1 .. EOF = Events \cup {EOF} /\ NEvents \in Events /\ Events \subseteq Nat
  BY EventAssumption DEF Events, EOF

LEMMA QueueAppended ==
  ASSUME NEW seq \in Seq(1 .. EOF), NEW e \in 1 .. EOF, Increasing(seq), \A x \in Range(seq) : x < e
  PROVE  /\ Append(seq, e) \in Seq(1 .. EOF) /\ Increasing(Append(seq, e))
         /\ Range(Append(seq, e)) = Range(seq) \cup {e}
<1>1. /\ Append(seq, e) \in Seq(1 .. EOF) /\ DOMAIN Append(seq, e) = 1 .. Len(seq) + 1
      /\ Append(seq, e)[Len(seq) + 1] = e /\ \A i \in 1 .. Len(seq) : Append(seq, e)[i] = seq[i]
      /\ DOMAIN seq = 1 .. Len(seq) /\ Len(seq) \in Nat
  OBVIOUS
<1>2. Range(Append(seq, e)) = Range(seq) \cup {e}
  BY <1>1 DEF Range
<1>3. \A i \in 1 .. Len(seq) : seq[i] < e
  BY <1>1 DEF Range
<1>. QED  BY <1>1, <1>2, <1>3 DEF Increasing

LEMMA QueuePopped ==
  ASSUME NEW seq \in Seq(1 .. EOF), seq # <<>>, Increasing(seq)
  PROVE  /\ Head(seq) \in Range(seq) /\ Head(seq) \in 1 .. EOF
         /\ Tail(seq) \in Seq(1 .. EOF) /\ Increasing(Tail(seq))
         /\ Range(Tail(seq)) = Range(seq) \ {Head(seq)}
<1>1. /\ Len(seq) \in Nat \ {0} /\ DOMAIN seq = 1 .. Len(seq) /\ Head(seq) = seq[1]
      /\ Tail(seq) \in Seq(1 .. EOF) /\ DOMAIN Tail(seq) = 1 .. Len(seq) - 1
      /\ \A i \in 1 .. Len(seq) - 1 : Tail(seq)[i] = seq[i + 1]
      /\ \A i \in 1 .. Len(seq) : seq[i] \in 1 .. EOF
  <2>1. Len(seq) \in Nat \ {0} /\ DOMAIN seq = 1 .. Len(seq)
    BY EmptySeq, LenProperties
  <2>4. \A i \in 1 .. Len(seq) : seq[i] \in 1 .. EOF
    BY ElementOfSeq
  <2>5. Head(seq) = seq[1]
    OBVIOUS
  <2>2. Tail(seq) \in Seq(1 .. EOF) /\ Len(Tail(seq)) = Len(seq) - 1
        /\ \A i \in 1 .. Len(Tail(seq)) : Tail(seq)[i] = seq[i + 1]
    BY HeadTailProperties
  <2>3. DOMAIN Tail(seq) = 1 .. Len(Tail(seq))
    BY <2>2, LenProperties
  <2>. QED  BY <2>1, <2>2, <2>3, <2>4, <2>5
<1>2. ASSUME NEW i \in 2 .. Len(seq)  PROVE seq[i] # seq[1]
  <2>1. i \in DOMAIN seq /\ 1 \in DOMAIN seq /\ 1 < i
    BY <1>1
  <2>2. seq[1] < seq[i]
    BY <2>1 DEF Increasing
  <2>3. seq[1] \in Nat
    BY <1>1, EventsAndEOF
  <2>. QED  BY <2>2, <2>3
<1>3. Range(Tail(seq)) \subseteq Range(seq) \ {Head(seq)}
  BY <1>1, <1>2 DEF Range
<1>4. ASSUME NEW x \in Range(seq) \ {Head(seq)}  PROVE x \in Range(Tail(seq))
  <2>1. PICK i \in 2 .. Len(seq) : x = seq[i]
    BY <1>1 DEF Range
  <2>2. i - 1 \in 1 .. Len(seq) - 1 /\ Tail(seq)[i - 1] = x
    BY <1>1, <2>1
  <2>. QED  BY <1>1, <2>2 DEF Range
<1>5. Increasing(Tail(seq)) /\ Head(seq) \in Range(seq)
  BY <1>1 DEF Increasing, Range
<1>. QED  BY <1>1, <1>3, <1>4, <1>5

LEMMA QueueType ==
  ASSUME Types
  PROVE  Range(queue) \subseteq 1 .. EOF
<1>1. \A i \in DOMAIN queue : queue[i] \in 1 .. EOF
  BY ElementOfSeq, LenProperties DEF Types
<1>. QED  BY <1>1 DEF Range

LEMMA BufferOf ==
  ASSUME Types, NEW w \in Workers
  PROVE  DOMAIN buffer[w] \in SUBSET Events /\ buffer[w] \in [DOMAIN buffer[w] -> 0 .. MaxTries - 1]
  BY DEF Types, BufferType

LEMMA EmptyBuffer == <<>> \in BufferType /\ DOMAIN <<>> = {}
<1>1. <<>> \in [{} -> 0 .. MaxTries - 1] /\ DOMAIN <<>> = {}
  OBVIOUS
<1>. QED  BY <1>1 DEF BufferType

-----------------------------------------------------------------------------
(* Types and Unique are inductive.                                          *)

EInv == Types /\ Unique

LEMMA InitiallyUnique == EventInit => EInv
<1>. SUFFICES ASSUME EventInit  PROVE EInv
  OBVIOUS
<1>1. run \in RunType /\ row \in RowType
  BY EventAssumption DEF EventInit, RunType, RowType
<1>2. Types /\ Range(queue) = {} /\ \A w \in Workers : DOMAIN buffer[w] = {}
  BY <1>1, EmptyBuffer DEF EventInit, Types, Range
<1>3. Unique
  BY <1>2 DEF EventInit, Unique, Increasing
<1>. QED  BY <1>2, <1>3 DEF EInv

LEMMA RunTyped ==
  ASSUME EInv, Emit \/ EmitFails \/ Over \/ SaveStatus \/ RunNotifies \/ RunDies
  PROVE  run' \in RunType
<1>. DEFINE b(x) == run.wrapup \/ x
<1>1. run \in RunType /\ run.ct \in Nat /\ run.wrapup \in BOOLEAN /\ NEvents \in Nat
  BY EventsAndEOF DEF EInv, Types, RunType
<1>2. \A x \in BOOLEAN : b(x) \in BOOLEAN
  OBVIOUS
<1>3. (run.ct + 1 = Wrapup) \in BOOLEAN /\ (Wrapup = EOF) \in BOOLEAN
  OBVIOUS
<1>. HIDE DEF b
<1>4. CASE Emit
  <2>1. run' = [run EXCEPT !.ct = @ + 1, !.wrapup = b(run.ct + 1 = Wrapup)] /\ run.ct < NEvents
    BY <1>4 DEF Emit, b
  <2>2. PICK c \in BOOLEAN : run' = [run EXCEPT !.ct = @ + 1, !.wrapup = c]
    BY <1>2, <1>3, <2>1
  <2>3. run.ct + 1 \in 0 .. NEvents
    BY <1>1, <2>1 DEF RunType
  <2>. QED  BY <1>1, <2>2, <2>3 DEF RunType
<1>5. CASE EmitFails
  <2>1. run' = [run EXCEPT !.at = "over", !.wrapup = b(run.ct + 1 = Wrapup)]
    BY <1>5 DEF EmitFails, b
  <2>. QED  BY <1>1, <1>2, <1>3, <2>1 DEF RunType
<1>6. CASE Over
  <2>1. run' = [run EXCEPT !.at = "over", !.wrapup = b(Wrapup = EOF)]
    BY <1>6 DEF Over, b
  <2>. QED  BY <1>1, <1>2, <1>3, <2>1 DEF RunType
<1>7. CASE SaveStatus \/ RunNotifies \/ RunDies
  BY <1>1, <1>7 DEF SaveStatus, RunNotifies, RunDies, RunType
<1>. QED  BY <1>4, <1>5, <1>6, <1>7

LEMMA EmitUnique ==
  ASSUME EInv, Emit
  PROVE  EInv'
<1>1. run.at = "running" /\ run' \in RunType /\ run'.ct = run.ct + 1 /\ run.ct + 1 \in Events
      /\ run.ct \in Nat /\ run'.at = "running"
  BY RunTyped, EventsAndEOF DEF Emit, EInv, Types, RunType, Events
<1>2. \A x \in Range(queue) : x < run.ct + 1
  BY <1>1, QueueType, EventsAndEOF DEF EInv, Unique
<1>3. queue' \in Seq(1 .. EOF) /\ Increasing(queue') /\ Range(queue') = Range(queue) \cup {run.ct + 1}
  BY <1>1, <1>2, QueueAppended, EventsAndEOF DEF Emit, EInv, Types, Unique
<1>4. Types'
  BY <1>1, <1>3 DEF Emit, EInv, Types
<1>5. saved[run.ct + 1] = 0 /\ \A w \in Workers : run.ct + 1 \notin DOMAIN buffer[w]
  <2>1. ~(run.ct + 1 <= run.ct)
    BY <1>1
  <2>. QED  BY <1>1, <2>1 DEF EInv, Types, Unique
<1>6. \A e \in Events : e <= run.ct => e <= run'.ct
  BY <1>1, EventsAndEOF
<1>7. \A w \in Workers : DOMAIN buffer[w] \subseteq Events
  BY BufferOf DEF EInv
<1>8. (\A e \in Range(queue) :
         /\ e \in Events => e <= run.ct /\ saved[e] = 0 /\ \A w \in Workers : e \notin DOMAIN buffer[w]
         /\ e = EOF => run.at # "running")'
  <2>1. run.ct + 1 <= run'.ct /\ EOF # run.ct + 1
    BY <1>1, EventsAndEOF
  <2>. QED  BY <1>1, <1>3, <1>5, <1>6, <2>1 DEF Emit, EInv, Unique
<1>9. (\A w \in Workers : \A e \in DOMAIN buffer[w] :
         e <= run.ct /\ saved[e] = 0 /\ \A v \in Workers : e \in DOMAIN buffer[v] => v = w)'
  BY <1>6, <1>7 DEF Emit, EInv, Unique
<1>10. Unique'
  BY <1>3, <1>6, <1>8, <1>9 DEF Emit, EInv, Unique
<1>. QED  BY <1>4, <1>10 DEF EInv

LEMMA OverUnique ==
  ASSUME EInv, Over
  PROVE  EInv'
<1>1. run.at = "running" /\ run' \in RunType /\ run'.ct = run.ct /\ run'.at = "over"
  BY RunTyped DEF Over, EInv, Types, RunType
<1>2. \A x \in Range(queue) : x < EOF
  BY <1>1, QueueType, EventsAndEOF DEF EInv, Unique
<1>3. queue' \in Seq(1 .. EOF) /\ Increasing(queue') /\ Range(queue') = Range(queue) \cup {EOF}
  BY <1>2, QueueAppended, EventsAndEOF DEF Over, EInv, Types, Unique
<1>4. Types'
  BY <1>1, <1>3 DEF Over, EInv, Types
<1>5. Unique'
  BY <1>1, <1>3, EventsAndEOF DEF Over, EInv, Unique
<1>. QED  BY <1>4, <1>5 DEF EInv

LEMMA RunUnique ==
  ASSUME EInv, EmitFails \/ SaveStatus \/ RunNotifies \/ RunDies \/ Reap
  PROVE  EInv'
<1>1. run \in RunType /\ run' \in RunType /\ run'.ct = run.ct /\ (run.at # "running" => run'.at # "running")
  BY RunTyped DEF EmitFails, SaveStatus, RunNotifies, RunDies, Reap, EInv, Types, RunType
<1>2. row' \in RowType
  <2>1. row \in RowType /\ run.ct \in 0 .. NEvents
    BY <1>1 DEF EInv, Types, RunType
  <2>. QED  BY <2>1 DEF EmitFails, SaveStatus, RunNotifies, RunDies, Reap, RowType
<1>3. UNCHANGED <<kind, queue, buffer, wrapping, saved>> /\ harm' \subseteq EventFaults
  BY DEF EmitFails, SaveStatus, RunNotifies, RunDies, Reap, Harm, EInv, Types
<1>4. Types'
  BY <1>1, <1>2, <1>3 DEF EInv, Types
<1>. QED  BY <1>1, <1>3, <1>4 DEF EInv, Unique, Increasing

LEMMA PopUnique ==
  ASSUME EInv, NEW w \in Workers, Pop(w)
  PROVE  EInv'
<1>. DEFINE e == Head(queue)
<1>1. /\ e \in Range(queue) /\ e \in 1 .. EOF /\ queue' \in Seq(1 .. EOF)
      /\ Increasing(queue') /\ Range(queue') = Range(queue) \ {e}
  BY QueuePopped DEF Pop, EInv, Types, Unique
<1>2. UNCHANGED <<kind, run, saved, row, harm>>
      /\ wrapping' \in [Workers -> {"no", "counts", "send"}]
  BY DEF Pop, EInv, Types
<1>3. CASE e = EOF
  <2>1. buffer' = buffer
    BY <1>3 DEF Pop, EInv, Types
  <2>2. Types'
    BY <1>1, <1>2, <2>1 DEF EInv, Types
  <2>. QED  BY <1>1, <1>2, <2>1, <2>2 DEF EInv, Unique
<1>4. CASE e # EOF
  <2>. DEFINE f == [x \in DOMAIN buffer[w] \cup {e} |-> IF x = e THEN 0 ELSE buffer[w][x]]
  <2>1. buffer' = [buffer EXCEPT ![w] = f]
    BY <1>4 DEF Pop
  <2>2. e \in Events /\ e <= run.ct /\ saved[e] = 0 /\ \A v \in Workers : e \notin DOMAIN buffer[v]
    BY <1>1, <1>4, EventsAndEOF DEF EInv, Unique
  <2>3. f \in [DOMAIN buffer[w] \cup {e} -> 0 .. MaxTries - 1] /\ DOMAIN buffer[w] \cup {e} \in SUBSET Events
    BY <2>2, BufferOf, EventAssumption DEF EInv
  <2>4. f \in BufferType /\ DOMAIN f = DOMAIN buffer[w] \cup {e}
    BY <2>3 DEF BufferType
  <2>. HIDE DEF f, e
  <2>5. /\ buffer' \in [Workers -> BufferType] /\ DOMAIN buffer'[w] = DOMAIN buffer[w] \cup {e}
        /\ \A v \in Workers \ {w} : buffer'[v] = buffer[v]
    BY <2>1, <2>4 DEF EInv, Types
  <2>6. Types'
    BY <1>1, <1>2, <2>5 DEF EInv, Types
  <2>7. Unique'
    <3>1. (\A x \in Range(queue) :
             /\ x \in Events => x <= run.ct /\ saved[x] = 0 /\ \A v \in Workers : x \notin DOMAIN buffer[v]
             /\ x = EOF => run.at # "running")'
      BY <1>1, <1>2, <2>5 DEF EInv, Unique
    <3>2. (\A v \in Workers : \A x \in DOMAIN buffer[v] :
             x <= run.ct /\ saved[x] = 0 /\ \A u \in Workers : x \in DOMAIN buffer[u] => u = v)'
      BY <1>2, <2>2, <2>5 DEF EInv, Unique
    <3>. QED  BY <1>1, <1>2, <3>1, <3>2 DEF EInv, Unique
  <2>. QED  BY <2>6, <2>7 DEF EInv
<1>. QED  BY <1>3, <1>4

(* What follows on the saving of the events in S, whether errors came up or not. *)
Wrapped(w, S) ==
  /\ \/ wrapping' = [wrapping EXCEPT ![w] = IF Wrapup \in S THEN "counts" ELSE "no"]
     \/ UNCHANGED wrapping
  /\ UNCHANGED harm \/ Harm("websocket") \/ Harm("database")

(* Flushing: the events of S get rows and leave the buffer, which keeps some of the
   others. *)
LEMMA FlushUnique ==
  ASSUME EInv, NEW w \in Workers, NEW S \in SUBSET DOMAIN buffer[w],
         NEW f \in BufferType, DOMAIN f \subseteq DOMAIN buffer[w] \ S,
         buffer' = [buffer EXCEPT ![w] = f], InsertRows(S), Wrapped(w, S),
         UNCHANGED <<kind, run, queue, row>>
  PROVE  EInv'
<1>1. /\ buffer' \in [Workers -> BufferType] /\ DOMAIN buffer'[w] \subseteq DOMAIN buffer[w] \ S
      /\ \A v \in Workers \ {w} : buffer'[v] = buffer[v]
  BY DEF EInv, Types
<1>2. S \subseteq Events /\ \A e \in S : saved[e] = 0 /\ e <= run.ct
  BY BufferOf DEF EInv, Unique
<1>3. saved' \in [Events -> {0, 1}] /\ \A e \in Events : saved'[e] = IF e \in S THEN 1 ELSE saved[e]
  BY <1>2 DEF InsertRows, EInv, Types
<1>4. wrapping' \in [Workers -> {"no", "counts", "send"}] /\ harm' \subseteq EventFaults
  BY DEF Wrapped, Harm, EInv, Types
<1>5. Types'
  BY <1>1, <1>3, <1>4 DEF EInv, Types
<1>6. \A e \in S : \A v \in Workers \ {w} : e \notin DOMAIN buffer[v]
  BY DEF EInv, Unique
<1>7. \A v \in Workers : DOMAIN buffer'[v] \subseteq DOMAIN buffer[v] \cap (Events \ S)
  BY <1>1, <1>6, BufferOf DEF EInv
<1>8. S \cap Range(queue) = {}
  BY <1>2 DEF EInv, Unique
<1>9. (\A x \in Range(queue) :
         /\ x \in Events => x <= run.ct /\ saved[x] = 0 /\ \A v \in Workers : x \notin DOMAIN buffer[v]
         /\ x = EOF => run.at # "running")'
  BY <1>3, <1>7, <1>8 DEF EInv, Unique
<1>10. (\A v \in Workers : \A x \in DOMAIN buffer[v] :
          x <= run.ct /\ saved[x] = 0 /\ \A u \in Workers : x \in DOMAIN buffer[u] => u = v)'
  BY <1>3, <1>7 DEF EInv, Unique
<1>11. Unique'
  BY <1>2, <1>3, <1>9, <1>10 DEF EInv, Unique
<1>. QED  BY <1>5, <1>11 DEF EInv

(* What SaveEach keeps in the buffer. *)
LEMMA KeptBuffer ==
  ASSUME EInv, NEW w \in Workers, NEW F \in SUBSET DOMAIN buffer[w]
  PROVE  /\ [e \in RetriedLater(w, F) |-> buffer[w][e] + 1] \in BufferType
         /\ RetriedLater(w, F) \subseteq F
         /\ DOMAIN buffer[w] \ F \in SUBSET DOMAIN buffer[w]
<1>1. RetriedLater(w, F) \subseteq F
  BY DEF RetriedLater
<1>2. RetriedLater(w, F) \in SUBSET Events
  BY <1>1, BufferOf DEF EInv
<1>3. \A e \in RetriedLater(w, F) : buffer[w][e] + 1 \in 0 .. MaxTries - 1
  BY <1>1, BufferOf, EventAssumption DEF EInv, RetriedLater
<1>. QED  BY <1>1, <1>2, <1>3 DEF BufferType

LEMMA FlushAllUnique ==
  ASSUME EInv, NEW w \in Workers, FlushAll(w)
  PROVE  EInv'
<1>1. DOMAIN <<>> \subseteq DOMAIN buffer[w] \ DOMAIN buffer[w]
  BY EmptyBuffer
<1>2. Wrapped(w, DOMAIN buffer[w])
  BY DEF FlushAll, AfterSaving, Wrapped
<1>. QED  BY <1>1, <1>2, EmptyBuffer, FlushUnique DEF FlushAll

LEMMA SaveEachUnique ==
  ASSUME EInv, NEW w \in Workers, NEW F \in SUBSET DOMAIN buffer[w], SaveEach(w, F),
         Wrapped(w, DOMAIN buffer[w] \ F)
  PROVE  EInv'
<1>. DEFINE f == [e \in RetriedLater(w, F) |-> buffer[w][e] + 1]
<1>1. DOMAIN f = RetriedLater(w, F)
  OBVIOUS
<1>2. buffer' = [buffer EXCEPT ![w] = f] /\ InsertRows(DOMAIN buffer[w] \ F)
      /\ UNCHANGED <<kind, run, queue, row>>
  BY DEF SaveEach
<1>3. f \in BufferType /\ RetriedLater(w, F) \subseteq DOMAIN buffer[w] \ (DOMAIN buffer[w] \ F)
  BY KeptBuffer
<1>. HIDE DEF f
<1>. QED  BY <1>1, <1>2, <1>3, FlushUnique

LEMMA FlushEachUnique ==
  ASSUME EInv, NEW w \in Workers, FlushEach(w) \/ FlushPoorly(w)
  PROVE  EInv'
<1>1. PICK F \in SUBSET DOMAIN buffer[w] : SaveEach(w, F) /\ Wrapped(w, DOMAIN buffer[w] \ F)
  BY DEF FlushEach, FlushPoorly, Refused, Wrapped, AfterSaving
<1>. QED  BY <1>1, SaveEachUnique

LEMMA LoseUnique ==
  ASSUME EInv, NEW w \in Workers, LoseBuffer(w)
  PROVE  EInv'
<1>1. /\ buffer' \in [Workers -> BufferType] /\ DOMAIN buffer'[w] = {}
      /\ \A v \in Workers \ {w} : buffer'[v] = buffer[v]
  BY EmptyBuffer DEF LoseBuffer, EInv, Types
<1>2. Types'
  BY <1>1 DEF LoseBuffer, Harm, EInv, Types
<1>. QED  BY <1>1, <1>2 DEF LoseBuffer, EInv, Unique

LEMMA WrapUnique ==
  ASSUME EInv, NEW w \in Workers, SetCounts(w) \/ ReceiverNotifies(w)
  PROVE  EInv'
<1>1. row' \in RowType
  BY DEF SetCounts, ReceiverNotifies, EInv, Types, RowType
<1>2. wrapping' \in [Workers -> {"no", "counts", "send"}]
  BY DEF SetCounts, ReceiverNotifies, EInv, Types
<1>. QED  BY <1>1, <1>2 DEF SetCounts, ReceiverNotifies, EInv, Types, Unique

LEMMA UniqueInvariance == EInv /\ [EventNext]_evVars => EInv'
<1>. SUFFICES ASSUME EInv, [EventNext]_evVars  PROVE EInv'
  OBVIOUS
<1>1. CASE UNCHANGED evVars
  BY <1>1 DEF evVars, EInv, Types, Unique
<1>2. CASE Emit \/ EmitFails \/ Over \/ SaveStatus \/ RunNotifies \/ RunDies \/ Reap
  BY <1>2, EmitUnique, OverUnique, RunUnique
<1>3. ASSUME NEW w \in Workers, \/ Pop(w) \/ FlushAll(w) \/ FlushEach(w) \/ FlushPoorly(w)
                                \/ LoseBuffer(w) \/ SetCounts(w) \/ ReceiverNotifies(w)
      PROVE  EInv'
  BY <1>3, PopUnique, FlushAllUnique, FlushEachUnique, LoseUnique, WrapUnique
<1>. QED  BY <1>1, <1>2, <1>3 DEF EventNext

LEMMA UniqueInvariant == EventSpec => []EInv
  BY InitiallyUnique, UniqueInvariance, PTL DEF EventSpec
-----------------------------------------------------------------------------
(* The end of a job is notified once. The wrap-up event comes by once, since every *)
(* event does; host_status_counts is set then, and notes for run() that it did.     *)

Passed ==
  IF kind = "system" THEN run.at # "running" /\ EOF \notin Range(queue) ELSE saved[NEvents] = 1

NoneSends == \A w \in Workers : wrapping[w] # "send"

Emitted ==
  IF kind = "system" THEN EOF \in Range(queue) => run.wrapup ELSE NEvents <= run.ct => run.wrapup

Wrapping ==
  /\ row.counts => Passed /\ run.wrapup /\ \A w \in Workers : wrapping[w] # "counts"
  /\ \A w \in Workers : wrapping[w] # "no" =>
       Passed /\ run.wrapup /\ \A v \in Workers : wrapping[v] # "no" => v = w
  /\ \A w \in Workers : wrapping[w] = "send" => row.counts /\ row.status # "running"

Sent ==
  /\ row.status = "running" => sent = <<>>
  /\ row.status = "final" => sent \in {<<>>, <<"run">>, <<"receiver">>}
  /\ row.status = "reaped" => sent \in {<<"reaper">>, <<"reaper", "receiver">>} /\ run.at = "dead"
  /\ run.at \in {"running", "over"} => row.status = "running"
  /\ run.at \in {"notify", "done"} => row.status = "final"
  /\ run.at = "notify" => sent = <<>>
  /\ run.at = "notify" \/ sent = <<"run">> => (row.counts \/ ~run.wrapup) /\ NoneSends
  /\ sent \in {<<"receiver">>, <<"reaper", "receiver">>} => row.counts /\ NoneSends

IInv == EInv /\ Emitted /\ Wrapping /\ Sent

LEMMA Initially == EventInit => IInv
<1>. SUFFICES ASSUME EventInit  PROVE IInv
  OBVIOUS
<1>1. EInv /\ Emitted
  BY InitiallyUnique, EventsAndEOF DEF EventInit, Emitted, Range
<1>2. Wrapping /\ Sent
  BY DEF EventInit, Wrapping, Sent, NoneSends
<1>. QED  BY <1>1, <1>2 DEF IInv

(* What run() does: the wrap-up event is noted before it is pushed. *)
LEMMA EmitStep ==
  ASSUME IInv, Emit
  PROVE  Emitted' /\ Wrapping' /\ Sent'
<1>1. /\ run.at = "running" /\ run'.at = "running" /\ run'.ct = run.ct + 1 /\ run.ct \in Nat /\ run.ct < NEvents
      /\ run \in RunType
  BY DEF Emit, IInv, EInv, Types, RunType
<1>2. (run.wrapup => run'.wrapup) /\ (run.ct + 1 = Wrapup => run'.wrapup)
  BY <1>1 DEF Emit, RunType
<1>3. run.ct + 1 \in 1 .. EOF /\ run.ct + 1 # EOF /\ \A x \in Range(queue) : x < run.ct + 1
  BY <1>1, QueueType, EventsAndEOF DEF IInv, EInv, Unique
<1>4. Range(queue') = Range(queue) \cup {run.ct + 1}
  BY <1>3, QueueAppended DEF Emit, IInv, EInv, Types, Unique
<1>5. Emitted'
  BY <1>1, <1>2, <1>3, <1>4, EventsAndEOF DEF Emit, IInv, Emitted, Wrapup
<1>6. Passed => Passed'
  BY <1>1 DEF Emit, Passed
<1>7. Wrapping'
  BY <1>2, <1>6 DEF Emit, IInv, Wrapping
<1>8. Sent'
  <2>1. row.status = "running" /\ sent = <<>> /\ UNCHANGED <<row, sent>>
    BY <1>1 DEF Emit, IInv, Sent
  <2>2. <<>> # <<"run">> /\ <<>> # <<"receiver">> /\ <<>> # <<"reaper", "receiver">>
    OBVIOUS
  <2>. QED  BY <1>1, <2>1, <2>2 DEF Sent
<1>. QED  BY <1>5, <1>7, <1>8

LEMMA OverStep ==
  ASSUME IInv, Over
  PROVE  Emitted' /\ Wrapping' /\ Sent'
<1>1. run.at = "running" /\ run'.at = "over" /\ run'.ct = run.ct /\ run \in RunType
  BY DEF Over, IInv, EInv, Types, RunType
<1>2. (run.wrapup => run'.wrapup) /\ (kind = "system" => run'.wrapup)
  BY <1>1 DEF Over, RunType, Wrapup
<1>3. Emitted'
  BY <1>1, <1>2 DEF Over, IInv, Emitted
<1>4. Passed => Passed'
  BY <1>1 DEF Over, Passed
<1>5. Wrapping'
  BY <1>2, <1>4 DEF Over, IInv, Wrapping
<1>6. Sent'
  BY <1>1 DEF Over, IInv, Sent, NoneSends
<1>. QED  BY <1>3, <1>5, <1>6

LEMMA EmitFailsStep ==
  ASSUME IInv, EmitFails
  PROVE  Emitted' /\ Wrapping' /\ Sent'
<1>1. run.at = "running" /\ run'.at = "over" /\ run'.ct = run.ct /\ run \in RunType
  BY DEF EmitFails, IInv, EInv, Types, RunType
<1>2. run.wrapup => run'.wrapup
  BY <1>1 DEF EmitFails, RunType
<1>3. Emitted'
  BY <1>1, <1>2 DEF EmitFails, IInv, Emitted
<1>4. Passed => Passed'
  BY <1>1 DEF EmitFails, Passed
<1>5. Wrapping'
  BY <1>2, <1>4 DEF EmitFails, IInv, Wrapping
<1>6. Sent'
  BY <1>1 DEF EmitFails, IInv, Sent, NoneSends
<1>. QED  BY <1>3, <1>5, <1>6

LEMMA SaveStatusStep ==
  ASSUME IInv, SaveStatus
  PROVE  Emitted' /\ Wrapping' /\ Sent'
<1>1. /\ run.at = "over" /\ run'.ct = run.ct /\ run'.wrapup = run.wrapup
      /\ run'.at = IF RunSends THEN "notify" ELSE "done"
      /\ row'.status = "final" /\ row'.counts = row.counts /\ row.status = "running" /\ sent' = <<>>
  BY DEF SaveStatus, IInv, EInv, Types, RunType, RowType, Sent
<1>2. Emitted'
  BY <1>1 DEF SaveStatus, IInv, Emitted
<1>3. Passed' = Passed
  BY <1>1 DEF SaveStatus, Passed
<1>4. Wrapping'
  BY <1>1, <1>3 DEF SaveStatus, IInv, Wrapping
<1>5. NoneSends'
  BY <1>1 DEF SaveStatus, IInv, Wrapping, NoneSends
<1>6. run'.at = "notify" => row'.counts \/ ~run'.wrapup
  BY <1>1 DEF RunSends
<1>7. Sent'
  BY <1>1, <1>5, <1>6 DEF Sent
<1>. QED  BY <1>2, <1>4, <1>7

LEMMA RunEndsStep ==
  ASSUME IInv, RunNotifies \/ RunDies \/ Reap
  PROVE  Emitted' /\ Wrapping' /\ Sent'
<1>1. /\ run'.ct = run.ct /\ run'.wrapup = run.wrapup /\ (run.at # "running" => run'.at # "running")
      /\ row'.counts = row.counts /\ (row.status # "running" => row'.status # "running")
      /\ UNCHANGED <<kind, queue, buffer, wrapping, saved>>
  BY DEF RunNotifies, RunDies, Reap, IInv, EInv, Types, RunType, RowType
<1>2. Emitted'
  BY <1>1 DEF IInv, Emitted
<1>3. Passed => Passed'
  BY <1>1 DEF Passed
<1>4. Wrapping'
  BY <1>1, <1>3 DEF IInv, Wrapping
<1>5. Sent'
  <2>1. CASE RunNotifies
    <3>1. sent' = <<"run">> /\ run'.at = "done" /\ UNCHANGED row /\ row.status = "final"
      BY <2>1 DEF RunNotifies, IInv, EInv, Types, RunType, Sent
    <3>2. (row.counts \/ ~run.wrapup) /\ NoneSends
      BY <2>1 DEF RunNotifies, IInv, Sent
    <3>. QED  BY <1>1, <3>1, <3>2 DEF Sent, NoneSends
  <2>2. CASE RunDies
    <3>1. run'.at = "dead" /\ UNCHANGED <<row, sent>>
      BY <2>2 DEF RunDies, IInv, EInv, Types, RunType
    <3>. QED  BY <1>1, <3>1 DEF IInv, Sent, NoneSends
  <2>3. CASE Reap
    <3>1. sent' = <<"reaper">> /\ row'.status = "reaped" /\ run'.at = "dead"
      BY <2>3 DEF Reap, IInv, EInv, Types, RowType, Sent
    <3>. QED  BY <3>1 DEF Sent
  <2>. QED  BY <2>1, <2>2, <2>3
<1>. QED  BY <1>2, <1>4, <1>5

-----------------------------------------------------------------------------
(* What the receiver does: it takes up the wrap-up once.                    *)

LEMMA WrapUpBegins ==
  ASSUME IInv, NEW w \in Workers, UNCHANGED <<kind, run, row, sent>>, Free(w),
         wrapping' = [wrapping EXCEPT ![w] = "counts"], ~Passed, Passed', run.wrapup
  PROVE  Wrapping' /\ Sent'
<1>1. ~row.counts /\ \A v \in Workers : wrapping[v] = "no"
  BY DEF IInv, Wrapping, EInv, Types
<1>2. /\ wrapping' \in [Workers -> {"no", "counts", "send"}] /\ wrapping'[w] = "counts"
      /\ \A v \in Workers \ {w} : wrapping'[v] = "no"
  BY <1>1 DEF IInv, EInv, Types
<1>. QED  BY <1>1, <1>2 DEF Wrapping, IInv, Sent, NoneSends

LEMMA WrapUpRests ==
  ASSUME IInv, UNCHANGED <<kind, run, row, sent>>, Passed => Passed',
         \A v \in Workers : wrapping'[v] = wrapping[v] \/ wrapping'[v] = "no"
  PROVE  Wrapping' /\ Sent'
<1>1. Wrapping'
  BY DEF IInv, Wrapping
<1>2. Sent'
  BY DEF IInv, Sent, NoneSends
<1>. QED  BY <1>1, <1>2

LEMMA PopStep ==
  ASSUME IInv, NEW w \in Workers, Pop(w)
  PROVE  Emitted' /\ Wrapping' /\ Sent'
<1>. DEFINE e == Head(queue)
<1>1. e \in Range(queue) /\ Range(queue') = Range(queue) \ {e}
  BY QueuePopped DEF Pop, IInv, EInv, Types, Unique
<1>2. UNCHANGED <<kind, run, saved, row, sent>> /\ Free(w)
      /\ wrapping' = [wrapping EXCEPT ![w] = IF WrapsAtOnce(e) THEN "counts" ELSE "no"]
  BY DEF Pop
<1>. HIDE DEF e
<1>3. Emitted'
  BY <1>1, <1>2 DEF IInv, Emitted
<1>4. CASE WrapsAtOnce(e)
  <2>1. kind = "system" /\ e = EOF
    BY <1>4, EventsAndEOF DEF WrapsAtOnce, Wrapup, IInv, EInv, Types
  <2>2. ~Passed /\ Passed' /\ run.wrapup
    BY <1>1, <1>2, <2>1 DEF Passed, IInv, EInv, Unique, Emitted
  <2>. QED  BY <1>2, <1>3, <1>4, <2>2, WrapUpBegins
<1>5. CASE ~WrapsAtOnce(e)
  <2>1. Passed => Passed'
    BY <1>1, <1>2 DEF Passed
  <2>2. \A v \in Workers : wrapping'[v] = wrapping[v] \/ wrapping'[v] = "no"
    BY <1>2, <1>5 DEF IInv, EInv, Types
  <2>. QED  BY <1>2, <1>3, <2>1, <2>2, WrapUpRests
<1>. QED  BY <1>4, <1>5

LEMMA FlushStep ==
  ASSUME IInv, NEW w \in Workers, NEW S \in SUBSET DOMAIN buffer[w], Free(w),
         InsertRows(S), Wrapped(w, S), UNCHANGED <<kind, run, queue, row, sent>>
  PROVE  Emitted' /\ Wrapping' /\ Sent'
<1>1. S \subseteq Events /\ \A e \in S : saved[e] = 0 /\ e <= run.ct
  BY BufferOf DEF IInv, EInv, Unique
<1>2. saved'[NEvents] = IF NEvents \in S THEN 1 ELSE saved[NEvents]
  BY <1>1, EventsAndEOF DEF InsertRows, IInv, EInv, Types
<1>3. Emitted'
  BY DEF IInv, Emitted
<1>4. Passed => Passed'
  BY <1>1, <1>2 DEF Passed
<1>5. CASE Wrapup \in S /\ wrapping' = [wrapping EXCEPT ![w] = "counts"]
  <2>1. kind # "system" /\ NEvents \in S
    BY <1>1, <1>5, EventsAndEOF DEF Wrapup
  <2>2. ~Passed /\ Passed' /\ run.wrapup
    BY <1>1, <1>2, <2>1 DEF Passed, IInv, Emitted
  <2>. QED  BY <1>3, <1>5, <2>2, WrapUpBegins
<1>6. CASE \A v \in Workers : wrapping'[v] = wrapping[v] \/ wrapping'[v] = "no"
  BY <1>3, <1>4, <1>6, WrapUpRests
<1>7. \/ Wrapup \in S /\ wrapping' = [wrapping EXCEPT ![w] = "counts"]
      \/ \A v \in Workers : wrapping'[v] = wrapping[v] \/ wrapping'[v] = "no"
  BY DEF Wrapped, IInv, EInv, Types
<1>. QED  BY <1>5, <1>6, <1>7

LEMMA LoseStep ==
  ASSUME IInv, NEW w \in Workers, LoseBuffer(w)
  PROVE  Emitted' /\ Wrapping' /\ Sent'
<1>1. UNCHANGED <<kind, run, queue, saved, row, sent>>
      /\ \A v \in Workers : wrapping'[v] = wrapping[v] \/ wrapping'[v] = "no"
  BY DEF LoseBuffer, IInv, EInv, Types
<1>2. Emitted' /\ (Passed => Passed')
  BY <1>1 DEF IInv, Emitted, Passed
<1>. QED  BY <1>1, <1>2, WrapUpRests

(* The receiver sends only if the status was there before host_status_counts was, so
   that run() did not see it, while it did note the wrap-up event. *)
LEMMA SetCountsStep ==
  ASSUME IInv, NEW w \in Workers, SetCounts(w)
  PROVE  Emitted' /\ Wrapping' /\ Sent'
<1>1. /\ UNCHANGED <<kind, run, queue, saved, sent>> /\ row'.counts /\ row'.status = row.status
      /\ wrapping[w] = "counts"
  BY DEF SetCounts, IInv, EInv, Types, RowType
<1>2. Passed /\ run.wrapup /\ ~row.counts /\ \A v \in Workers \ {w} : wrapping[v] = "no"
  BY <1>1 DEF IInv, Wrapping
<1>3. /\ wrapping'[w] = IF row.status # "running" THEN "send" ELSE "no"
      /\ \A v \in Workers \ {w} : wrapping'[v] = "no"
  BY <1>2 DEF SetCounts, ReceiverSends, IInv, EInv, Types
<1>4. Emitted' /\ Passed'
  BY <1>1, <1>2 DEF IInv, Emitted, Passed
<1>5. Wrapping'
  BY <1>1, <1>2, <1>3, <1>4 DEF Wrapping
<1>6. /\ run.at # "notify" /\ sent # <<"run">>
      /\ sent \notin {<<"receiver">>, <<"reaper", "receiver">>}
  BY <1>2 DEF IInv, Sent
<1>7. Sent'
  BY <1>1, <1>6 DEF IInv, Sent
<1>. QED  BY <1>4, <1>5, <1>7

LEMMA AppendToOne ==
  ASSUME NEW x, NEW y
  PROVE  Append(<<x>>, y) = <<x, y>>
<1>. DEFINE S == {x, y}
<1>1. <<x>> \in Seq(S) /\ y \in S /\ Len(<<x>>) = 1 /\ <<x>>[1] = x
  OBVIOUS
<1>2. <<x, y>> \in Seq(S) /\ Len(<<x, y>>) = 2 /\ <<x, y>>[1] = x /\ <<x, y>>[2] = y
  OBVIOUS
<1>. HIDE DEF S
<1>3. Append(<<x>>, y) \in Seq(S) /\ Len(Append(<<x>>, y)) = 2
      /\ Append(<<x>>, y)[1] = x /\ Append(<<x>>, y)[2] = y
  BY <1>1, AppendProperties
<1>. DEFINE p == Append(<<x>>, y)
            q == <<x, y>>
<1>4. p \in Seq(S) /\ q \in Seq(S) /\ Len(p) = Len(q) /\ Len(p) = 2 /\ p[1] = q[1] /\ p[2] = q[2]
  BY <1>2, <1>3
<1>. HIDE DEF p, q
<1>5. \A i \in 1 .. Len(p) : p[i] = q[i]
  BY <1>4
<1>6. p = q
  BY <1>4, <1>5, SeqEqual
<1>. QED  BY <1>6 DEF p, q

LEMMA ReceiverNotifiesStep ==
  ASSUME IInv, NEW w \in Workers, ReceiverNotifies(w)
  PROVE  Emitted' /\ Wrapping' /\ Sent'
<1>1. /\ UNCHANGED <<kind, run, queue, saved, row>> /\ wrapping[w] = "send"
      /\ sent' = Append(sent, "receiver")
  BY DEF ReceiverNotifies
<1>2. row.counts /\ row.status # "running" /\ \A v \in Workers \ {w} : wrapping[v] = "no"
  BY <1>1 DEF IInv, Wrapping
<1>3. \A v \in Workers : wrapping'[v] = "no"
  BY <1>2 DEF ReceiverNotifies, IInv, EInv, Types
<1>4. Emitted' /\ Wrapping'
  BY <1>1, <1>3 DEF IInv, Emitted, Wrapping, Passed
<1>5. run.at # "notify" /\ sent # <<"run">> /\ sent \notin {<<"receiver">>, <<"reaper", "receiver">>}
  BY <1>1 DEF IInv, Sent, NoneSends
<1>6. \/ row.status = "final" /\ sent' = <<"receiver">>
      \/ row.status = "reaped" /\ sent' = <<"reaper", "receiver">> /\ run.at = "dead"
  <2>1. CASE row.status = "final"
    <3>1. sent = <<>>
      BY <1>5, <2>1 DEF IInv, Sent
    <3>2. Append(<<>>, "receiver") = <<"receiver">>
      OBVIOUS
    <3>. QED  BY <1>1, <2>1, <3>1, <3>2
  <2>2. CASE row.status = "reaped"
    <3>1. sent = <<"reaper">> /\ run.at = "dead"
      BY <1>5, <2>2 DEF IInv, Sent
    <3>2. Append(<<"reaper">>, "receiver") = <<"reaper", "receiver">>
      BY AppendToOne
    <3>. QED  BY <1>1, <2>2, <3>1, <3>2
  <2>3. row.status \in {"final", "reaped"}
    BY <1>2 DEF IInv, EInv, Types, RowType
  <2>. QED  BY <2>1, <2>2, <2>3
<1>7. Sent'
  <2>1. NoneSends'
    BY <1>3 DEF NoneSends
  <2>. QED  BY <1>1, <1>2, <1>5, <1>6, <2>1 DEF IInv, Sent
<1>. QED  BY <1>4, <1>7

-----------------------------------------------------------------------------
LEMMA Invariance == IInv /\ [EventNext]_evVars => IInv'
<1>. SUFFICES ASSUME IInv, [EventNext]_evVars  PROVE Emitted' /\ Wrapping' /\ Sent'
  BY UniqueInvariance DEF IInv
<1>1. CASE UNCHANGED evVars
  BY <1>1 DEF evVars, IInv, Emitted, Wrapping, Passed, Sent, NoneSends
<1>2. CASE Emit \/ EmitFails \/ Over \/ SaveStatus \/ RunNotifies \/ RunDies \/ Reap
  BY <1>2, EmitStep, EmitFailsStep, OverStep, SaveStatusStep, RunEndsStep
<1>3. ASSUME NEW w \in Workers, FlushAll(w)  PROVE Emitted' /\ Wrapping' /\ Sent'
  BY <1>3, FlushStep DEF FlushAll, AfterSaving, Wrapped
<1>4. ASSUME NEW w \in Workers, FlushEach(w) \/ FlushPoorly(w)
      PROVE  Emitted' /\ Wrapping' /\ Sent'
  <2>1. PICK F \in SUBSET DOMAIN buffer[w] :
          SaveEach(w, F) /\ Wrapped(w, DOMAIN buffer[w] \ F) /\ Free(w)
    BY <1>4 DEF FlushEach, FlushPoorly, Refused, Wrapped, AfterSaving
  <2>2. DOMAIN buffer[w] \ F \in SUBSET DOMAIN buffer[w]
    OBVIOUS
  <2>. QED  BY <2>1, <2>2, FlushStep DEF SaveEach
<1>5. ASSUME NEW w \in Workers, Pop(w) \/ LoseBuffer(w) \/ SetCounts(w) \/ ReceiverNotifies(w)
      PROVE  Emitted' /\ Wrapping' /\ Sent'
  BY <1>5, PopStep, LoseStep, SetCountsStep, ReceiverNotifiesStep
<1>. QED  BY <1>1, <1>2, <1>3, <1>4, <1>5 DEF EventNext

LEMMA Invariant == EventSpec => []IInv
  BY Initially, Invariance, PTL DEF EventSpec

LEMMA SentWhat ==
  ASSUME IInv
  PROVE  \/ sent \in {<<>>, <<"run">>, <<"receiver">>, <<"reaper">>}
         \/ sent = <<"reaper", "receiver">> /\ row.status = "reaped"
<1>1. row.status \in {"running", "final", "reaped"}
  BY DEF IInv, EInv, Types, RowType
<1>. QED  BY <1>1 DEF IInv, Sent

LEMMA OnceNotified == IInv => NotifiedOnce
<1>. SUFFICES ASSUME IInv  PROVE NotifiedOnce
  OBVIOUS
<1>. DEFINE K == {k \in DOMAIN sent : sent[k] # "reaper"}
<1>1. \/ sent \in {<<>>, <<"run">>, <<"receiver">>, <<"reaper">>}
      \/ sent = <<"reaper", "receiver">> /\ row.status = "reaped"
  BY SentWhat
<1>2. K = {} \/ K = {1} \/ K = {2}
  <2>1. CASE sent = <<>>
    BY <2>1
  <2>2. CASE sent \in {<<"run">>, <<"receiver">>, <<"reaper">>}
    BY <2>2
  <2>3. CASE sent = <<"reaper", "receiver">>
    BY <2>3
  <2>. QED  BY <1>1, <2>1, <2>2, <2>3
<1>3. Cardinality(K) <= 1
  <2>1. Cardinality({}) = 0 /\ Cardinality({1}) = 1 /\ Cardinality({2}) = 1
    BY FS_EmptySet, FS_Singleton
  <2>. HIDE DEF K
  <2>. QED  BY <1>2, <2>1
<1>4. Len(sent) > 1 => row.status = "reaped"
  <2>1. Len(<<>>) = 0 /\ Len(<<"run">>) = 1 /\ Len(<<"receiver">>) = 1 /\ Len(<<"reaper">>) = 1
    OBVIOUS
  <2>. QED  BY <1>1, <2>1
<1>. QED  BY <1>3, <1>4 DEF NotifiedOnce

(* Every variable keeps its type; in particular no event is kept in a buffer after
   INDIVIDUAL_EVENT_RETRIES attempts. *)
THEOREM TypeCorrect == EventSpec => []EventTypeOK
<1>1. IInv => EventTypeOK
  <2>. SUFFICES ASSUME IInv  PROVE EventTypeOK
    OBVIOUS
  <2>2. sent \in Seq({"run", "receiver", "reaper"})
    <3>1. \A x, y \in {"run", "receiver", "reaper"} : /\ <<>> \in Seq({"run", "receiver", "reaper"})
                                                    /\ <<x>> \in Seq({"run", "receiver", "reaper"})
                                                    /\ <<x, y>> \in Seq({"run", "receiver", "reaper"})
      OBVIOUS
    <3>. QED  BY <3>1, SentWhat
  <2>3. \A w \in Workers : /\ DOMAIN buffer[w] \subseteq Events
                           /\ \A e \in DOMAIN buffer[w] : buffer[w][e] < MaxTries
    BY BufferOf, EventAssumption DEF IInv, EInv
  <2>. QED  BY <2>2, <2>3 DEF IInv, EInv, Types, RunType, RowType, EventTypeOK
<1>. QED  BY <1>1, Invariant, PTL

(* run() and the receiver never both notify of a job's end, in whatever order its
   status and its wrap-up are saved (worker/callback.py 46-49; jobs.py 650-653). *)
THEOREM NotifiedOnceAlways == EventSpec => []NotifiedOnce
  BY OnceNotified, Invariant, PTL
-----------------------------------------------------------------------------
(* The receiver implements the safety part of EventDelivery.                *)

Failed == harm \cap {"receiver", "database"} # {}

(* What becomes of an event, read off the rows and what is waiting. *)
FatesRight ==
  \A e \in Events :
    /\ saved[e] = 1 => e \notin Waiting /\ e <= run.ct /\ Fate(e) = "stored"
    /\ saved[e] # 1 /\ e \in Waiting => e <= run.ct /\ Fate(e) = "underway"
    /\ saved[e] # 1 /\ e \notin Waiting => Fate(e) = IF e <= run.ct THEN "lost" ELSE "unsent"

LEMMA InWaiting ==
  ASSUME NEW e
  PROVE  e \in Waiting <=> e \in Range(queue) \/ \E w \in Workers : e \in DOMAIN buffer[w]
  BY DEF Waiting

LEMMA FatesAreRight == EInv => FatesRight
<1>. SUFFICES ASSUME EInv, NEW e \in Events
              PROVE  /\ saved[e] = 1 => e \notin Waiting /\ e <= run.ct /\ Fate(e) = "stored"
                     /\ saved[e] # 1 /\ e \in Waiting => e <= run.ct /\ Fate(e) = "underway"
                     /\ saved[e] # 1 /\ e \notin Waiting => Fate(e) = IF e <= run.ct THEN "lost" ELSE "unsent"
  BY DEF FatesRight
<1>1. saved[e] \in {0, 1}
  BY DEF EInv, Types
<1>2. saved[e] = 1 => e \notin Waiting /\ e <= run.ct
  BY InWaiting DEF EInv, Unique
<1>3. e \in Waiting => e <= run.ct
  BY InWaiting DEF EInv, Unique
<1>. QED  BY <1>1, <1>2, <1>3 DEF Fate

LEMMA InvariantFates == EventSpec => [](EInv /\ FatesRight)
  BY UniqueInvariant, FatesAreRight, PTL

(* A step of the fate of one event. *)
FateStep(e) ==
  \/ Fate(e)' = Fate(e)
  \/ Fate(e) = "unsent" /\ Fate(e)' = "underway"
  \/ Fate(e) = "underway" /\ Fate(e)' = "stored"
  \/ Fate(e) = "underway" /\ Fate(e)' = "lost" /\ (Failed' \/ e \in Bad)

FateSteps == (Failed => Failed') /\ \A e \in Events : FateStep(e)

(* Events whose place and row remain, and that were not just sent. *)
LEMMA FatesStay ==
  ASSUME EInv, FatesRight, FatesRight', Failed => Failed', UNCHANGED saved, run'.ct = run.ct,
         \A e \in Events : e \in Waiting' <=> e \in Waiting
  PROVE  FateSteps
  BY DEF FateSteps, FateStep, FatesRight

LEMMA EmitFates ==
  ASSUME EInv, FatesRight, FatesRight', Emit
  PROVE  FateSteps
<1>1. run'.ct = run.ct + 1 /\ run.ct \in Nat /\ run.ct + 1 \in 1 .. EOF /\ UNCHANGED <<saved, buffer, harm>>
      /\ run.at = "running"
  BY EventsAndEOF DEF Emit, EInv, Types, RunType
<1>2. \A x \in Range(queue) : x < run.ct + 1
  BY <1>1, QueueType, EventsAndEOF DEF EInv, Unique
<1>3. Range(queue') = Range(queue) \cup {run.ct + 1}
  BY <1>1, <1>2, QueueAppended DEF Emit, EInv, Types, Unique
<1>4. Waiting' = Waiting \cup {run.ct + 1}
  BY <1>1, <1>3 DEF Waiting
<1>5. ASSUME NEW e \in Events  PROVE FateStep(e)
  <2>1. CASE e = run.ct + 1
    <3>1. ~(e <= run.ct)
      BY <1>1, <2>1
    <3>. QED  BY <1>1, <1>4, <2>1, <3>1 DEF FateStep, FatesRight
  <2>2. CASE e # run.ct + 1
    <3>1. e \in Nat /\ (e <= run'.ct <=> e <= run.ct)
      BY <1>1, <2>2, EventsAndEOF
    <3>. QED  BY <1>1, <1>4, <2>2, <3>1 DEF FateStep, FatesRight
  <2>. QED  BY <2>1, <2>2
<1>. QED  BY <1>1, <1>5 DEF FateSteps, Failed

LEMMA RunFates ==
  ASSUME EInv, FatesRight, FatesRight',
         EmitFails \/ Over \/ SaveStatus \/ RunNotifies \/ RunDies \/ Reap
  PROVE  FateSteps
<1>1. run'.ct = run.ct /\ UNCHANGED <<saved, buffer>> /\ (Failed => Failed')
  BY DEF EmitFails, Over, SaveStatus, RunNotifies, RunDies, Reap, Harm, Failed, EInv, Types, RunType
<1>2. \A e \in Events : e \in Range(queue') <=> e \in Range(queue)
  <2>1. CASE Over
    <3>1. \A x \in Range(queue) : x < EOF
      BY <2>1, QueueType, EventsAndEOF DEF Over, EInv, Unique
    <3>2. Range(queue') = Range(queue) \cup {EOF}
      BY <2>1, <3>1, QueueAppended, EventsAndEOF DEF Over, EInv, Types, Unique
    <3>. QED  BY <3>2, EventsAndEOF
  <2>2. CASE queue' = queue
    BY <2>2
  <2>. QED  BY <2>1, <2>2 DEF EmitFails, SaveStatus, RunNotifies, RunDies, Reap
<1>3. \A e \in Events : e \in Waiting' <=> e \in Waiting
  BY <1>1, <1>2 DEF Waiting
<1>. QED  BY <1>1, <1>3, FatesStay

LEMMA PopFates ==
  ASSUME EInv, FatesRight, FatesRight', NEW w \in Workers, Pop(w)
  PROVE  FateSteps
<1>. DEFINE x == Head(queue)
<1>1. x \in Range(queue) /\ Range(queue') = Range(queue) \ {x}
  BY QueuePopped DEF Pop, EInv, Types, Unique
<1>2. run'.ct = run.ct /\ UNCHANGED <<saved, harm>>
  BY DEF Pop
<1>3. CASE x = EOF
  <2>1. buffer' = buffer
    BY <1>3 DEF Pop, EInv, Types
  <2>. HIDE DEF x
  <2>2. \A e \in Events : e \in Waiting' <=> e \in Waiting
    BY <1>1, <1>3, <2>1, EventsAndEOF DEF Waiting
  <2>. QED  BY <1>2, <2>2, FatesStay DEF Failed
<1>4. CASE x # EOF
  <2>1. DOMAIN buffer'[w] = DOMAIN buffer[w] \cup {x} /\ \A v \in Workers \ {w} : buffer'[v] = buffer[v]
    BY <1>4 DEF Pop, EInv, Types
  <2>. HIDE DEF x
  <2>2. \A e \in Events : e \in Waiting' <=> e \in Waiting
    BY <1>1, <2>1 DEF Waiting
  <2>. QED  BY <1>2, <2>2, FatesStay DEF Failed
<1>. QED  BY <1>3, <1>4

(* Events leave the buffer of w: those in S are stored, and the others in T lost. *)
LEMMA LeaveFates ==
  ASSUME EInv, FatesRight, FatesRight', Failed => Failed', NEW w \in Workers,
         NEW S \in SUBSET DOMAIN buffer[w], NEW T \in SUBSET DOMAIN buffer[w],
         \A e \in T \ S : Failed' \/ e \in Bad,
         run'.ct = run.ct, UNCHANGED queue, S \subseteq T,
         \A e \in Events : saved'[e] = IF e \in S THEN 1 ELSE saved[e],
         DOMAIN buffer'[w] = DOMAIN buffer[w] \ T, \A v \in Workers \ {w} : buffer'[v] = buffer[v]
  PROVE  FateSteps
<1>1. \A e \in T : e \notin Range(queue) /\ \A v \in Workers \ {w} : e \notin DOMAIN buffer[v]
  BY BufferOf DEF EInv, Unique
<1>2. \A e \in Events : e \in Waiting' <=> e \in Waiting \ T
  <2>1. Waiting' = Range(queue) \cup UNION {DOMAIN buffer'[v] : v \in Workers}
    BY DEF Waiting
  <2>. QED  BY <1>1, <2>1 DEF Waiting
<1>3. T \subseteq Waiting /\ \A e \in T : saved[e] # 1 /\ e <= run.ct
  BY DEF Waiting, EInv, Unique
<1>4. ASSUME NEW e \in Events  PROVE FateStep(e)
  <2>1. CASE e \in S
    BY <1>3, <2>1 DEF FateStep, FatesRight
  <2>2. CASE e \in T \ S
    BY <1>2, <1>3, <2>2 DEF FateStep, FatesRight
  <2>3. CASE e \notin T
    BY <1>2, <2>3 DEF FateStep, FatesRight
  <2>. QED  BY <2>1, <2>2, <2>3
<1>. QED  BY <1>4 DEF FateSteps

LEMMA RowsInserted ==
  ASSUME EInv, NEW w \in Workers, NEW S \in SUBSET DOMAIN buffer[w], InsertRows(S)
  PROVE  \A e \in Events : saved'[e] = IF e \in S THEN 1 ELSE saved[e]
<1>1. \A e \in S : saved[e] = 0
  BY DEF EInv, Unique
<1>. QED  BY <1>1 DEF InsertRows

LEMMA FlushFates ==
  ASSUME EInv, FatesRight, FatesRight', NEW w \in Workers,
         FlushAll(w) \/ FlushEach(w) \/ FlushPoorly(w) \/ LoseBuffer(w)
  PROVE  FateSteps
<1>1. run'.ct = run.ct /\ UNCHANGED queue /\ (Failed => Failed')
  BY DEF FlushAll, FlushEach, FlushPoorly, SaveEach, LoseBuffer, AfterSaving, Harm, Failed
<1>2. CASE FlushAll(w)
  <2>. DEFINE D == DOMAIN buffer[w]
  <2>1. DOMAIN buffer'[w] = {} /\ \A v \in Workers \ {w} : buffer'[v] = buffer[v]
    BY <1>2 DEF FlushAll, EInv, Types
  <2>2. \A e \in Events : saved'[e] = IF e \in D THEN 1 ELSE saved[e]
    BY <1>2, RowsInserted DEF FlushAll
  <2>3. DOMAIN buffer'[w] = D \ D
    BY <2>1
  <2>. QED  BY <1>1, <2>1, <2>2, <2>3, LeaveFates
<1>3. CASE FlushEach(w) \/ FlushPoorly(w)
  <2>0. PICK F \in SUBSET DOMAIN buffer[w] : SaveEach(w, F) /\ (F = Refused(w) \/ Failed')
    BY <1>3 DEF FlushEach, FlushPoorly, Refused, Harm, Failed
  <2>. DEFINE S == DOMAIN buffer[w] \ F
              T == DOMAIN buffer[w] \ RetriedLater(w, F)
  <2>1. DOMAIN buffer'[w] = RetriedLater(w, F) /\ \A v \in Workers \ {w} : buffer'[v] = buffer[v]
    BY <2>0 DEF SaveEach, EInv, Types
  <2>2. \A e \in Events : saved'[e] = IF e \in S THEN 1 ELSE saved[e]
    BY <2>0, KeptBuffer, RowsInserted DEF SaveEach
  <2>3. /\ S \in SUBSET DOMAIN buffer[w] /\ T \in SUBSET DOMAIN buffer[w] /\ S \subseteq T
        /\ DOMAIN buffer'[w] = DOMAIN buffer[w] \ T
    BY <2>1, KeptBuffer
  <2>4. ASSUME NEW e \in T \ S  PROVE Failed' \/ e \in Bad
    <3>1. e \in F /\ e \in DOMAIN buffer[w] /\ ~(buffer[w][e] + 1 < MaxTries)
      BY <2>0 DEF RetriedLater
    <3>2. buffer[w][e] # 0
      BY <3>1, EventAssumption
    <3>. QED  BY <2>0, <3>1, <3>2 DEF Refused
  <2>. QED  BY <1>1, <2>1, <2>2, <2>3, <2>4, LeaveFates
<1>4. CASE LoseBuffer(w)
  <2>. DEFINE T == DOMAIN buffer[w]
  <2>0. buffer' = [buffer EXCEPT ![w] = <<>>] /\ buffer \in [Workers -> BufferType]
    BY <1>4 DEF LoseBuffer, EInv, Types
  <2>1. DOMAIN buffer'[w] = T \ T /\ (\A v \in Workers \ {w} : buffer'[v] = buffer[v]) /\ Failed'
    <3>1. Failed'
      BY <1>4 DEF LoseBuffer, Harm, Failed
    <3>. QED  BY <2>0, <3>1
  <2>2. \A e \in Events : saved'[e] = IF e \in {} THEN 1 ELSE saved[e]
    BY <1>4 DEF LoseBuffer
  <2>3. {} \in SUBSET T /\ T \in SUBSET T /\ {} \subseteq T
    OBVIOUS
  <2>. QED  BY <1>1, <2>1, <2>2, <2>3, LeaveFates
<1>. QED  BY <1>2, <1>3, <1>4

LEMMA Fated == EInv /\ FatesRight /\ FatesRight' /\ [EventNext]_evVars => FateSteps
<1>. SUFFICES ASSUME EInv, FatesRight, FatesRight', [EventNext]_evVars  PROVE FateSteps
  OBVIOUS
<1>1. CASE UNCHANGED evVars
  BY <1>1, FatesStay DEF evVars, Waiting, Failed
<1>2. CASE Emit \/ EmitFails \/ Over \/ SaveStatus \/ RunNotifies \/ RunDies \/ Reap
  BY <1>2, EmitFates, RunFates
<1>3. ASSUME NEW w \in Workers,
             Pop(w) \/ FlushAll(w) \/ FlushEach(w) \/ FlushPoorly(w) \/ LoseBuffer(w)
      PROVE  FateSteps
  BY <1>3, PopFates, FlushFates
<1>4. ASSUME NEW w \in Workers, SetCounts(w) \/ ReceiverNotifies(w)  PROVE FateSteps
  <2>1. UNCHANGED <<run, queue, buffer, saved, harm>>
    BY <1>4 DEF SetCounts, ReceiverNotifies
  <2>. QED  BY <2>1, FatesStay DEF Waiting, Failed
<1>. QED  BY <1>1, <1>2, <1>3, <1>4 DEF EventNext

LEMMA FatesInit == EventInit => Delivery!DeliveryInit
<1>. SUFFICES ASSUME EventInit  PROVE Delivery!DeliveryInit
  OBVIOUS
<1>1. FatesRight /\ Waiting = {} /\ run.ct = 0 /\ \A e \in Events : saved[e] = 0 /\ ~(e <= 0)
  BY InitiallyUnique, FatesAreRight, EventsAndEOF DEF EventInit, Waiting, Range, Events
<1>2. \A e \in Events : Fate(e) = "unsent"
  BY <1>1 DEF FatesRight
<1>3. (harm \cap {"receiver", "database"} # {}) = FALSE
  BY DEF EventInit
<1>. QED  BY <1>2, <1>3 DEF Delivery!DeliveryInit

LEMMA FatesStep ==
  EInv /\ FatesRight /\ FatesRight' /\ [EventNext]_evVars => [Delivery!DeliveryNext]_Delivery!deliveryVars
<1>. SUFFICES ASSUME EInv, FatesRight, FatesRight', [EventNext]_evVars  PROVE Delivery!DeliveryNext
  OBVIOUS
<1>1. (Failed => Failed') /\ \A e \in Events : FateStep(e)
  BY Fated DEF FateSteps
<1>2. \A e \in Events : Fate(e)' \in {"unsent", "underway", "stored", "lost"}
  BY DEF FatesRight
<1>3. [e \in Events |-> Fate(e)]' = [e \in Events |-> Fate(e)']
  OBVIOUS
<1>. QED  BY <1>1, <1>2, <1>3 DEF Delivery!DeliveryNext, Delivery!Lose, Delivery!Fates, FateStep, Failed

(* The receiver keeps the safety part of what EventDelivery promises: an event gets at
   most one row, and is lost only if the database refuses it or a worker dies or gives
   up (worker/callback.py 147-227). *)
THEOREM DeliveredSafely == EventSpec => Delivery!DeliverySafety
  BY FatesInit, FatesStep, InvariantFates, PTL DEF EventSpec, Delivery!DeliverySafety
=============================================================================
