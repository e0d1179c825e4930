------------------------- MODULE EventStreamProofs -------------------------
(***************************************************************************)
(* Every process hands events on in the order of the stream, none twice,   *)
(* and none is acknowledged undelivered, for every number of events and    *)
(* processes, every batch size and all faults.                             *)
(*                                                                         *)
(* Neither is inductive alone.  An event is on its way in four places: not *)
(* published, in the stream behind the group's position, in one batch, or  *)
(* handed on.  The invariant says that it is in one of them at a time:     *)
(* once in the stream (Published), once in the batches (InHand), and while *)
(* it is due there in no local bus.  The group hands an entry to one       *)
(* process (Competing), which is why FanOut does not hold.                 *)
(***************************************************************************)
EXTENDS EventStream, SequenceTheorems, TLAPS

(* What the group has handed out.                                          *)
Handed == {stream[k] : k \in 1 .. next}

(* The entries a read of n entries gets.                                   *)
Part(n) == SubSeq(stream, next + 1, next + n)

(* An event is published once.                                             *)
Published ==
  /\ \A k \in 1 .. Len(stream) : stream[k] \notin todo
  /\ \A k, l \in 1 .. Len(stream) : stream[k] = stream[l] => k = l

(* A process has a batch while it yields and acknowledges.                 *)
Holding ==
  \A i \in Instances :
    /\ batch[i] # <<>> <=> at[i] \in {"yield", "ack"}
    /\ ~started[i] => at[i] = "down"

(* What is in a batch is in no other and at one place of it, and as long   *)
(* as it has not been yielded no local bus has got it.                     *)
InHand ==
  \A i \in Instances : \A m \in 1 .. Len(batch[i]) :
    /\ batch[i][m] \in Handed
    /\ \A j \in Instances : \A n \in 1 .. Len(batch[j]) : batch[i][m] = batch[j][n] => i = j /\ m = n
    /\ m > 1 \/ at[i] = "yield" => batch[i][m] \notin Delivered

(* Only what was handed out is delivered.                                  *)
Past == Delivered \subseteq Handed

(* What a process is about to acknowledge it has handed on.                *)
Owed == \A i \in Instances : at[i] = "ack" => batch[i][1] \in Delivered \cup Corrupt

(* One local bus gets an event, once.                                      *)
Competing ==
  \A i, j \in Instances : \A m \in 1 .. Len(delivered[i]), n \in 1 .. Len(delivered[j]) :
    delivered[i][m] = delivered[j][n] => i = j /\ m = n

Inv == TypeOK /\ Published /\ Holding /\ InHand /\ Past /\ Owed /\ Competing /\ AckedIsDelivered

-----------------------------------------------------------------------------
(* Facts about sequences of events.                                        *)
LEMMA TailIs ==
  ASSUME NEW s \in Seq(Events), s # <<>>
  PROVE  /\ Len(s) \in Nat \ {0}
         /\ Head(s) = s[1]
         /\ Tail(s) \in Seq(Events)
         /\ Len(Tail(s)) = Len(s) - 1
         /\ \A m \in 1 .. Len(s) - 1 : Tail(s)[m] = s[m + 1]
         /\ Tail(s) = <<>> <=> Len(s) = 1
<1>1. Len(s) \in Nat \ {0} /\ Head(s) = s[1] /\ Tail(s) \in Seq(Events) /\ Len(Tail(s)) = Len(s) - 1
  BY HeadTailProperties, EmptySeq
<1>2. \A m \in 1 .. Len(s) - 1 : Tail(s)[m] = s[m + 1]
  BY HeadTailProperties
<1>3. Tail(s) = <<>> <=> Len(s) = 1
  BY <1>1, EmptySeq
<1> QED
  BY <1>1, <1>2, <1>3

LEMMA PartIs ==
  ASSUME TypeOK, NEW n \in 1 .. Batch, next + n <= Len(stream)
  PROVE  /\ Part(n) \in Seq(Events)
         /\ Len(Part(n)) = n
         /\ \A m \in 1 .. n : Part(n)[m] = stream[next + m]
         /\ ToSet(Part(n)) = {stream[next + m] : m \in 1 .. n}
         /\ ToSet(Part(n)) \subseteq Events
<1>1. next \in Nat /\ n \in Nat \ {0} /\ Len(stream) \in Nat /\ stream \in Seq(Events)
  BY StreamAssumption DEF TypeOK
<1>2. Part(n) \in Seq(Events) /\ Len(Part(n)) = n
  BY <1>1, SubSeqProperties DEF Part
<1>3. \A m \in 1 .. n : Part(n)[m] = stream[next + m]
  BY <1>1, SubSeqProperties DEF Part
<1>4. DOMAIN Part(n) = 1 .. n
  BY <1>2
<1>5. ToSet(Part(n)) = {stream[next + m] : m \in 1 .. n}
  BY <1>3, <1>4 DEF ToSet
<1>6. \A m \in 1 .. n : stream[next + m] \in Events
  BY <1>1, ElementOfSeq
<1> QED
  BY <1>2, <1>3, <1>5, <1>6

(* An event is delivered if it is somewhere in what a local bus got.       *)
LEMMA DeliveredIs ==
  ASSUME TypeOK, NEW e
  PROVE  e \in Delivered <=> \E i \in Instances : \E m \in 1 .. Len(delivered[i]) : delivered[i][m] = e
<1>1. \A i \in Instances : DOMAIN delivered[i] = 1 .. Len(delivered[i])
  BY DEF TypeOK
<1> QED
  BY <1>1 DEF Delivered, ToSet

-----------------------------------------------------------------------------
(* The types.                                                              *)
LEMMA TypeInit == Init => TypeOK
  BY StreamAssumption, EmptySeq DEF Init, TypeOK

LEMMA TypeStep ==
  ASSUME TypeOK, Holding, [Next]_vars
  PROVE  TypeOK'
<1>1. ASSUME NEW e \in Events, Publish(e) PROVE TypeOK'
  <2>1. stream' \in Seq(Events) /\ Len(stream') = Len(stream) + 1
    BY <1>1, AppendProperties DEF Publish, TypeOK
  <2>2. next' \in 0 .. Len(stream')
    BY <1>1, <2>1 DEF Publish, TypeOK
  <2> QED
    BY <1>1, <2>1, <2>2 DEF Publish, consumer, TypeOK
<1>2. ASSUME NEW i \in Instances, Start(i) PROVE TypeOK'
  BY <1>2 DEF Start, Goto, TypeOK
<1>3. ASSUME NEW i \in Instances, Read(i) PROVE TypeOK'
  <2>1. PICK n \in 1 .. Batch :
          /\ next + n <= Len(stream)
          /\ next' = next + n
          /\ batch' = [batch EXCEPT ![i] = Part(n)]
          /\ pel' = pel \cup ToSet(Part(n))
    BY <1>3 DEF Read, Part
  <2>2. Part(n) \in Seq(Events) /\ ToSet(Part(n)) \subseteq Events
    BY <2>1, PartIs
  <2>3. next' \in 0 .. Len(stream)
    BY <2>1, StreamAssumption DEF TypeOK
  <2>4. UNCHANGED <<todo, stream, started, delivered, faults>> /\ Goto(i, "yield")
    BY <1>3 DEF Read
  <2> QED
    BY <2>1, <2>2, <2>3, <2>4 DEF Goto, TypeOK
<1>4. ASSUME NEW i \in Instances, Yield(i) PROVE TypeOK'
  <2>1. batch[i] \in Seq(Events) /\ batch[i] # <<>>
    BY <1>4 DEF Yield, Holding, TypeOK
  <2>2. Head(batch[i]) \in Events
    BY <2>1, HeadTailProperties
  <2>3. Append(delivered[i], Head(batch[i])) \in Seq(Events)
    BY <2>2, AppendProperties DEF TypeOK
  <2> QED
    BY <1>4, <2>3 DEF Yield, Goto, TypeOK
<1>5. ASSUME NEW i \in Instances, Ack(i) PROVE TypeOK'
  <2>1. batch[i] \in Seq(Events) /\ batch[i] # <<>>
    BY <1>5 DEF Ack, Holding, TypeOK
  <2>2. Tail(batch[i]) \in Seq(Events)
    BY <2>1, TailIs
  <2> QED
    BY <1>5, <2>2 DEF Ack, Goto, TypeOK
<1>6. ASSUME NEW i \in Instances, Crash(i) PROVE TypeOK'
  BY <1>6, StreamAssumption, EmptySeq DEF Crash, Goto, TypeOK
<1>7. ASSUME NEW i \in Instances, RedisError(i) PROVE TypeOK'
  BY <1>7, StreamAssumption, EmptySeq DEF RedisError, Goto, TypeOK
<1>8. CASE UNCHANGED vars
  BY <1>8 DEF vars, consumer, TypeOK
<1> QED
  BY <1>1, <1>2, <1>3, <1>4, <1>5, <1>6, <1>7, <1>8 DEF Next, Consume

-----------------------------------------------------------------------------
(* The invariant.                                                          *)
LEMMA InvInit == Init => Inv
<1> SUFFICES ASSUME Init PROVE Inv
  OBVIOUS
<1>1. TypeOK
  BY TypeInit
<1>2. Len(stream) = 0 /\ next = 0 /\ \A i \in Instances : Len(batch[i]) = 0 /\ Len(delivered[i]) = 0
  BY EmptySeq DEF Init
<1>3. \A e : e \notin Delivered
  BY <1>1, <1>2, DeliveredIs
<1> QED
  BY <1>1, <1>2, <1>3 DEF Init, Inv, Published, Holding, InHand, Past, Owed, Competing, AckedIsDelivered, Handed

(* What an event is handed out as stays handed out.                        *)
LEMMA PublishKeeps ==
  ASSUME Inv, TypeOK', NEW e \in Events, Publish(e)
  PROVE  Inv'
<1>1. /\ stream \in Seq(Events) /\ next \in 0 .. Len(stream) /\ Len(stream) \in Nat
      /\ stream' = Append(stream, e) /\ Len(stream') = Len(stream) + 1
      /\ \A k \in 1 .. Len(stream) : stream'[k] = stream[k]
      /\ stream'[Len(stream) + 1] = e
  BY AppendProperties DEF Inv, TypeOK, Publish
<1>2. e \in todo /\ todo' = todo \ {e}
      /\ UNCHANGED <<next, pel, at, started, batch, delivered>>
  BY DEF Publish, consumer
<1>3. Delivered' = Delivered
  BY <1>2 DEF Delivered
<1>4. Handed' = Handed
  BY <1>1, <1>2 DEF Handed
<1>5. Published'
  BY <1>1, <1>2 DEF Inv, Published
<1>6. AckedIsDelivered'
  BY <1>1, <1>2, <1>3 DEF Inv, AckedIsDelivered
<1>7. Holding' /\ Owed'
  BY <1>2, <1>3 DEF Inv, Holding, Owed
<1>8. InHand'
  BY <1>2, <1>3, <1>4 DEF Inv, InHand
<1>9. Past' /\ Competing'
  BY <1>2, <1>3, <1>4 DEF Inv, Past, Competing
<1> QED
  BY <1>5, <1>6, <1>7, <1>8, <1>9 DEF Inv

LEMMA StartKeeps ==
  ASSUME Inv, TypeOK', NEW i \in Instances, Start(i)
  PROVE  Inv'
<1>1. /\ ~started[i] /\ at' = [at EXCEPT ![i] = "read"] /\ started' = [started EXCEPT ![i] = TRUE]
      /\ UNCHANGED <<todo, stream, next, pel, batch, delivered>>
  BY DEF Start, Goto
<1>2. at[i] = "down" /\ batch[i] = <<>>
  BY <1>1 DEF Inv, Holding
<1>3. at \in [Instances -> {"down", "read", "yield", "ack", "dead"}] /\ started \in [Instances -> BOOLEAN]
  BY DEF Inv, TypeOK
<1>4. Delivered' = Delivered /\ Handed' = Handed
  BY <1>1 DEF Delivered, Handed
<1>5. Holding' /\ Owed'
  BY <1>1, <1>2, <1>3, <1>4 DEF Inv, Holding, Owed
<1>6. InHand'
  BY <1>1, <1>2, <1>3, <1>4 DEF Inv, InHand
<1> QED
  BY <1>1, <1>4, <1>5, <1>6 DEF Inv, Published, Past, Competing, AckedIsDelivered

(* What a read hands out was behind the position, so in no batch and       *)
(* nowhere delivered.                                                      *)
LEMMA ReadKeeps ==
  ASSUME Inv, TypeOK', NEW i \in Instances, Read(i)
  PROVE  Inv'
<1>1. PICK n \in 1 .. Batch :
        /\ next + n <= Len(stream)
        /\ next' = next + n
        /\ batch' = [batch EXCEPT ![i] = Part(n)]
        /\ pel' = pel \cup ToSet(Part(n))
  BY DEF Read, Part
<1>2. /\ at[i] = "read" /\ at' = [at EXCEPT ![i] = "yield"]
      /\ UNCHANGED <<todo, stream, started, delivered>>
  BY DEF Read, Goto
<1>3. /\ next \in Nat /\ n \in Nat \ {0} /\ Len(stream) \in Nat
      /\ at \in [Instances -> {"down", "read", "yield", "ack", "dead"}]
      /\ batch \in [Instances -> Seq(Events)]
  BY StreamAssumption DEF Inv, TypeOK
<1>4. /\ Part(n) \in Seq(Events) /\ Len(Part(n)) = n
      /\ \A m \in 1 .. n : Part(n)[m] = stream[next + m]
      /\ ToSet(Part(n)) = {stream[next + m] : m \in 1 .. n}
  BY <1>1, PartIs DEF Inv
<1>5. Delivered' = Delivered
  BY <1>2 DEF Delivered
<1>6. Handed' = Handed \cup {stream[next + m] : m \in 1 .. n}
  <2>1. \A k \in 1 .. next + n : k \in 1 .. next \/ k - next \in 1 .. n
    BY <1>3
  <2>2. \A k \in 1 .. next + n : k - next \in 1 .. n => stream[k] = stream[next + (k - next)]
    BY <1>3
  <2> QED
    BY <1>1, <1>2, <1>3, <2>1, <2>2 DEF Handed
<1>7. \A m \in 1 .. n : stream[next + m] \notin Handed
  <2>1. \A k, l \in 1 .. Len(stream) : stream[k] = stream[l] => k = l
    BY DEF Inv, Published
  <2>2. ASSUME NEW m \in 1 .. n, NEW k \in 1 .. next, stream[k] = stream[next + m] PROVE FALSE
    <3>1. k \in 1 .. Len(stream) /\ next + m \in 1 .. Len(stream) /\ k # next + m
      BY <1>1, <1>3
    <3> QED
      BY <2>1, <2>2, <3>1
  <2> QED
    BY <2>2 DEF Handed
<1>8. \A m, l \in 1 .. n : stream[next + m] = stream[next + l] => m = l
  BY <1>1, <1>3 DEF Inv, Published
<1>9. \A j \in Instances : batch'[j] = IF j = i THEN Part(n) ELSE batch[j]
  BY <1>1, <1>3
<1>10. \A j \in Instances : at'[j] = IF j = i THEN "yield" ELSE at[j]
  BY <1>2, <1>3
<1>11. Holding'
  <2>1. Part(n) # <<>>
    BY <1>3, <1>4, EmptySeq
  <2> QED
    BY <1>2, <1>9, <1>10, <2>1 DEF Inv, Holding
<1>12. InHand'
  <2>1. \A m \in 1 .. n : Part(n)[m] \in Handed' /\ Part(n)[m] \notin Handed /\ Part(n)[m] \notin Delivered
    BY <1>4, <1>6, <1>7 DEF Inv, Past
  <2>2. \A m, l \in 1 .. n : Part(n)[m] = Part(n)[l] => m = l
    BY <1>4, <1>8
  <2>3. \A j \in Instances : \A m \in 1 .. Len(batch[j]) : batch[j][m] \in Handed
    BY DEF Inv, InHand
  <2>4. ASSUME NEW j \in Instances, NEW m \in 1 .. Len(batch'[j])
        PROVE  batch'[j][m] \in Handed' /\ (m > 1 \/ at'[j] = "yield" => batch'[j][m] \notin Delivered')
    <3>1. CASE j = i
      BY <3>1, <1>4, <1>5, <1>9, <2>1
    <3>2. CASE j # i
      BY <3>2, <1>5, <1>6, <1>9, <1>10 DEF Inv, InHand
    <3> QED
      BY <3>1, <3>2
  <2>5. ASSUME NEW j \in Instances, NEW m \in 1 .. Len(batch'[j]),
               NEW k \in Instances, NEW l \in 1 .. Len(batch'[k]), batch'[j][m] = batch'[k][l]
        PROVE  j = k /\ m = l
    <3>1. CASE j = i /\ k = i
      BY <3>1, <2>5, <2>2, <1>4, <1>9
    <3>2. CASE j = i /\ k # i
      BY <3>2, <2>5, <2>1, <2>3, <1>4, <1>9
    <3>3. CASE j # i /\ k = i
      BY <3>3, <2>5, <2>1, <2>3, <1>4, <1>9
    <3>4. CASE j # i /\ k # i
      BY <3>4, <2>5, <1>9 DEF Inv, InHand
    <3> QED
      BY <3>1, <3>2, <3>3, <3>4
  <2> QED
    BY <2>4, <2>5 DEF InHand
<1>13. Past'
  BY <1>5, <1>6 DEF Inv, Past
<1>14. Owed'
  BY <1>5, <1>9, <1>10 DEF Inv, Owed
<1>15. AckedIsDelivered'
  <2> SUFFICES ASSUME NEW k \in 1 .. next' PROVE stream'[k] \in pel' \cup Delivered' \cup Corrupt
    BY DEF AckedIsDelivered
  <2>1. CASE k \in 1 .. next
    BY <2>1, <1>1, <1>2, <1>5 DEF Inv, AckedIsDelivered
  <2>2. CASE k \notin 1 .. next
    <3>1. k - next \in 1 .. n /\ stream[k] = stream[next + (k - next)]
      BY <2>2, <1>1, <1>3
    <3> QED
      BY <3>1, <1>1, <1>2, <1>4
  <2> QED
    BY <2>1, <2>2
<1>16. Published' /\ Competing'
  BY <1>2 DEF Inv, Published, Competing
<1> QED
  BY <1>11, <1>12, <1>13, <1>14, <1>15, <1>16 DEF Inv
(* A process hands on the head of its batch, which no local bus has got.   *)
LEMMA YieldKeeps ==
  ASSUME Inv, TypeOK', NEW i \in Instances, Yield(i)
  PROVE  Inv'
<1> DEFINE e == batch[i][1]
<1>1. /\ at \in [Instances -> {"down", "read", "yield", "ack", "dead"}]
      /\ batch \in [Instances -> Seq(Events)]
      /\ delivered \in [Instances -> Seq(Events)]
  BY DEF Inv, TypeOK
<1>2. at[i] = "yield" /\ batch[i] # <<>>
  BY DEF Yield, Inv, Holding
<1>3. Head(batch[i]) = e /\ Len(batch[i]) \in Nat \ {0} /\ e \in Events
  BY <1>1, <1>2, TailIs, ElementOfSeq
<1>4. /\ at' = [at EXCEPT ![i] = "ack"]
      /\ UNCHANGED <<todo, stream, next, pel, started, batch>>
  BY DEF Yield, Goto
<1>5. delivered' = IF e \in Corrupt THEN delivered ELSE [delivered EXCEPT ![i] = Append(@, e)]
  BY <1>3 DEF Yield
<1>6. \A j \in Instances : at'[j] = IF j = i THEN "ack" ELSE at[j]
  BY <1>1, <1>4
<1>7. Handed' = Handed
  BY <1>4 DEF Handed
<1>8. e \in Handed /\ e \notin Delivered
  BY <1>2, <1>3 DEF Inv, InHand
<1>9. Holding'
  BY <1>2, <1>4, <1>6 DEF Inv, Holding
<1>10. Published'
  BY <1>4 DEF Inv, Published
<1>11. CASE e \in Corrupt
  <2>1. delivered' = delivered /\ Delivered' = Delivered
    BY <1>5, <1>11 DEF Delivered
  <2>2. InHand' /\ Past' /\ Owed' /\ Competing' /\ AckedIsDelivered'
    BY <2>1, <1>4, <1>6, <1>7, <1>11 DEF Inv, InHand, Past, Owed, Competing, AckedIsDelivered
  <2> QED
    BY <2>2, <1>9, <1>10 DEF Inv
<1>12. CASE e \notin Corrupt
  <2>1. \A j \in Instances : delivered'[j] = IF j = i THEN Append(delivered[i], e) ELSE delivered[j]
    BY <1>1, <1>5, <1>12
  <2>2. /\ Len(delivered[i]) \in Nat
        /\ Len(delivered'[i]) = Len(delivered[i]) + 1
        /\ \A m \in 1 .. Len(delivered[i]) : delivered'[i][m] = delivered[i][m]
        /\ delivered'[i][Len(delivered[i]) + 1] = e
    <3>1. delivered[i] \in Seq(Events) /\ e \in Events /\ delivered'[i] = Append(delivered[i], e)
      BY <1>1, <1>3, <2>1
    <3> HIDE DEF e
    <3> QED
      BY <3>1, AppendProperties
  <2>3. \A j \in Instances : \A m \in 1 .. Len(delivered'[j]) :
          \/ j = i /\ m = Len(delivered[i]) + 1 /\ delivered'[j][m] = e
          \/ m \in 1 .. Len(delivered[j]) /\ delivered'[j][m] = delivered[j][m]
    BY <2>1, <2>2
  <2>4. \A f : f \in Delivered' <=> f \in Delivered \/ f = e
    <3>1. \A f : f \in Delivered' <=> \E j \in Instances : \E m \in 1 .. Len(delivered'[j]) : delivered'[j][m] = f
      <4>1. \A j \in Instances : DOMAIN delivered'[j] = 1 .. Len(delivered'[j])
        BY DEF TypeOK
      <4> QED
        BY <4>1 DEF Delivered, ToSet
    <3>2. ASSUME NEW f, f \in Delivered' PROVE f \in Delivered \/ f = e
      BY <3>1, <3>2, <2>3, DeliveredIs DEF Inv
    <3>3. e \in Delivered'
      <4>1. Len(delivered[i]) + 1 \in 1 .. Len(delivered'[i])
        BY <2>2
      <4> QED
        BY <4>1, <2>2, <3>1
    <3>4. ASSUME NEW f, f \in Delivered PROVE f \in Delivered'
      <4>1. PICK j \in Instances : \E m \in 1 .. Len(delivered[j]) : delivered[j][m] = f
        BY <3>4, DeliveredIs DEF Inv
      <4>2. PICK m \in 1 .. Len(delivered[j]) : delivered[j][m] = f
        BY <4>1
      <4>3. m \in 1 .. Len(delivered'[j]) /\ delivered'[j][m] = f
        BY <4>2, <2>1, <2>2
      <4> QED
        BY <4>3, <3>1
    <3> QED
      BY <3>2, <3>3, <3>4
  <2>5. Competing'
    <3>1. \A j \in Instances : \A m \in 1 .. Len(delivered[j]) : delivered[j][m] # e
      BY <1>8, DeliveredIs DEF Inv
    <3> SUFFICES ASSUME NEW j \in Instances, NEW k \in Instances,
                        NEW m \in 1 .. Len(delivered'[j]), NEW n \in 1 .. Len(delivered'[k]),
                        delivered'[j][m] = delivered'[k][n]
                 PROVE  j = k /\ m = n
      BY DEF Competing
    <3>2. CASE delivered'[j][m] = e
      <4>1. \A h \in Instances : \A l \in 1 .. Len(delivered'[h]) :
              delivered'[h][l] = e => h = i /\ l = Len(delivered[i]) + 1
        BY <3>1, <2>3
      <4>2. delivered'[k][n] = e
        BY <3>2
      <4> HIDE DEF e
      <4> QED
        BY <4>1, <4>2, <3>2
    <3>3. CASE delivered'[j][m] # e
      BY <3>3, <2>3 DEF Inv, Competing
    <3> QED
      BY <3>2, <3>3
  <2>6. InHand'
    <3>1. \A j \in Instances : \A m \in 1 .. Len(batch[j]) : batch[j][m] = e => j = i /\ m = 1
      <4>1. 1 \in 1 .. Len(batch[i])
        BY <1>3
      <4> QED
        BY <4>1 DEF Inv, InHand
    <3>2. \A j \in Instances : \A m \in 1 .. Len(batch[j]) :
            m > 1 \/ at'[j] = "yield" => batch[j][m] \notin Delivered'
      <4> SUFFICES ASSUME NEW j \in Instances, NEW m \in 1 .. Len(batch[j]), m > 1 \/ at'[j] = "yield"
                   PROVE  batch[j][m] \notin Delivered'
        OBVIOUS
      <4>1. batch[j][m] \notin Delivered
        BY <1>6 DEF Inv, InHand
      <4>2. batch[j][m] # e
        BY <3>1, <1>6
      <4> QED
        BY <4>1, <4>2, <2>4
    <3> QED
      BY <3>2, <1>4, <1>7 DEF Inv, InHand
  <2>7. Past'
    BY <2>4, <1>7, <1>8 DEF Inv, Past
  <2>8. Owed'
    BY <2>4, <1>4, <1>6 DEF Inv, Owed
  <2>9. AckedIsDelivered'
    BY <2>4, <1>4 DEF Inv, AckedIsDelivered
  <2> QED
    BY <2>5, <2>6, <2>7, <2>8, <2>9, <1>9, <1>10 DEF Inv
<1> QED
  BY <1>11, <1>12

(* What a process acknowledges it has handed on.                           *)
LEMMA AckKeeps ==
  ASSUME Inv, TypeOK', NEW i \in Instances, Ack(i)
  PROVE  Inv'
<1> DEFINE e == batch[i][1]
           to == IF Len(batch[i]) = 1 THEN "read" ELSE "yield"
<1>1. /\ at \in [Instances -> {"down", "read", "yield", "ack", "dead"}]
      /\ batch \in [Instances -> Seq(Events)]
  BY DEF Inv, TypeOK
<1>2. at[i] = "ack" /\ batch[i] # <<>>
  BY DEF Ack, Inv, Holding
<1>3. /\ Head(batch[i]) = e /\ Len(batch[i]) \in Nat \ {0}
      /\ Len(Tail(batch[i])) = Len(batch[i]) - 1
      /\ \A m \in 1 .. Len(batch[i]) - 1 : Tail(batch[i])[m] = batch[i][m + 1]
      /\ Tail(batch[i]) = <<>> <=> Len(batch[i]) = 1
  BY <1>1, <1>2, TailIs
<1>4. /\ at' = [at EXCEPT ![i] = to]
      /\ batch' = [batch EXCEPT ![i] = Tail(@)]
      /\ pel' = pel \ {e}
      /\ UNCHANGED <<todo, stream, next, started, delivered>>
  BY <1>3 DEF Ack, Goto
<1>5. \A j \in Instances : /\ at'[j] = IF j = i THEN to ELSE at[j]
                           /\ batch'[j] = IF j = i THEN Tail(batch[i]) ELSE batch[j]
  BY <1>1, <1>4
<1>6. Delivered' = Delivered /\ Handed' = Handed
  BY <1>4 DEF Delivered, Handed
<1>7. e \in Delivered \cup Corrupt
  BY <1>2 DEF Inv, Owed
<1>8. Holding'
  <2>1. batch'[i] # <<>> <=> at'[i] \in {"yield", "ack"}
    BY <1>3, <1>5
  <2>2. started'[i] /\ started' = started
    BY <1>2, <1>4 DEF Inv, Holding
  <2> QED
    BY <2>1, <2>2, <1>5 DEF Inv, Holding
<1>9. InHand'
  <2>1. ASSUME NEW j \in Instances, NEW m \in 1 .. Len(batch'[j])
        PROVE  /\ j = i => m + 1 \in 1 .. Len(batch[i]) /\ batch'[j][m] = batch[i][m + 1]
               /\ j # i => m \in 1 .. Len(batch[j]) /\ batch'[j][m] = batch[j][m]
    <3>1. CASE j = i
      <4>1. batch'[j] = Tail(batch[i]) /\ m \in 1 .. Len(batch[i]) - 1
        BY <3>1, <1>3, <1>5
      <4>2. m + 1 \in 1 .. Len(batch[i])
        BY <4>1, <1>3
      <4> QED
        BY <3>1, <4>1, <4>2, <1>3
    <3>2. CASE j # i
      BY <3>2, <1>5
    <3> QED
      BY <3>1, <3>2
  <2>2. ASSUME NEW j \in Instances, NEW m \in 1 .. Len(batch'[j])
        PROVE  batch'[j][m] \in Handed /\ (m > 1 \/ at'[j] = "yield" => batch'[j][m] \notin Delivered)
    <3>1. CASE j = i
      <4>1. m \in Nat /\ m + 1 > 1
        BY <1>3, <3>1, <1>5
      <4> QED
        BY <4>1, <2>1, <3>1 DEF Inv, InHand
    <3>2. CASE j # i
      BY <2>1, <3>2, <1>5 DEF Inv, InHand
    <3> QED
      BY <3>1, <3>2
  <2>3. ASSUME NEW j \in Instances, NEW m \in 1 .. Len(batch'[j]),
               NEW k \in Instances, NEW l \in 1 .. Len(batch'[k]), batch'[j][m] = batch'[k][l]
        PROVE  j = k /\ m = l
    <3>1. CASE j = i /\ k = i
      <4>1. m + 1 \in 1 .. Len(batch[i]) /\ l + 1 \in 1 .. Len(batch[i]) /\ batch[i][m + 1] = batch[i][l + 1]
        BY <3>1, <2>1, <2>3
      <4>2. m + 1 = l + 1 /\ m \in Int /\ l \in Int
        BY <4>1, <3>1, <1>3, <1>5 DEF Inv, InHand
      <4> QED
        BY <4>2, <3>1
    <3>2. CASE j = i /\ k # i
      BY <3>2, <2>1, <2>3 DEF Inv, InHand
    <3>3. CASE j # i /\ k = i
      BY <3>3, <2>1, <2>3 DEF Inv, InHand
    <3>4. CASE j # i /\ k # i
      BY <3>4, <2>1, <2>3 DEF Inv, InHand
    <3> QED
      BY <3>1, <3>2, <3>3, <3>4
  <2> QED
    BY <2>2, <2>3, <1>6 DEF InHand
<1>10. Owed'
  BY <1>5, <1>6 DEF Inv, Owed
<1>11. AckedIsDelivered'
  BY <1>4, <1>6, <1>7 DEF Inv, AckedIsDelivered
<1>12. Published' /\ Past' /\ Competing'
  BY <1>4, <1>6 DEF Inv, Published, Past, Competing
<1> QED
  BY <1>8, <1>9, <1>10, <1>11, <1>12 DEF Inv

(* A consumer that ends forgets its batch; what it acknowledged last it    *)
(* has handed on.                                                          *)
LEMMA EndKeeps ==
  ASSUME Inv, TypeOK', NEW i \in Instances, Crash(i) \/ RedisError(i)
  PROVE  Inv'
<1>1. /\ at \in [Instances -> {"down", "read", "yield", "ack", "dead"}]
      /\ batch \in [Instances -> Seq(Events)]
      /\ started \in [Instances -> BOOLEAN]
  BY DEF Inv, TypeOK
<1>2. /\ batch' = [batch EXCEPT ![i] = <<>>]
      /\ UNCHANGED <<todo, stream, next, delivered>>
  BY DEF Crash, RedisError
<1>3. \A j \in Instances : batch'[j] = IF j = i THEN <<>> ELSE batch[j]
  BY <1>1, <1>2
<1>4. \/ at' = [at EXCEPT ![i] = "down"] /\ started' = [started EXCEPT ![i] = FALSE]
      \/ at' = [at EXCEPT ![i] = "dead"] /\ started' = started /\ at[i] # "down"
  BY DEF Crash, RedisError, Goto
<1>5. /\ at'[i] \in {"down", "dead"} /\ \A j \in Instances \ {i} : at'[j] = at[j] /\ started'[j] = started[j]
      /\ ~started'[i] => at'[i] = "down"
  BY <1>1, <1>4 DEF Inv, Holding
<1>6. Delivered' = Delivered /\ Handed' = Handed
  BY <1>2 DEF Delivered, Handed
<1>7. pel' = pel \/ (at[i] = "ack" /\ pel' = pel \ {batch[i][1]})
  <2>1. at[i] = "ack" => Head(batch[i]) = batch[i][1]
    BY <1>1, TailIs DEF Inv, Holding
  <2> QED
    BY <2>1 DEF Crash, RedisError
<1>8. Holding'
  BY <1>3, <1>5 DEF Inv, Holding
<1>9. InHand'
  BY <1>3, <1>5, <1>6, EmptySeq DEF Inv, InHand
<1>10. Owed'
  BY <1>3, <1>5, <1>6 DEF Inv, Owed
<1>11. AckedIsDelivered'
  BY <1>2, <1>6, <1>7 DEF Inv, Owed, AckedIsDelivered
<1>12. Published' /\ Past' /\ Competing'
  BY <1>2, <1>6 DEF Inv, Published, Past, Competing
<1> QED
  BY <1>8, <1>9, <1>10, <1>11, <1>12 DEF Inv

LEMMA InvStep == Inv /\ [Next]_vars => Inv'
<1> SUFFICES ASSUME Inv, [Next]_vars PROVE Inv'
  OBVIOUS
<1>1. TypeOK'
  BY TypeStep DEF Inv
<1>2. ASSUME NEW e \in Events, Publish(e) PROVE Inv'
  BY <1>1, <1>2, PublishKeeps
<1>3. ASSUME NEW i \in Instances, Start(i) PROVE Inv'
  BY <1>1, <1>3, StartKeeps
<1>4. ASSUME NEW i \in Instances, Read(i) PROVE Inv'
  BY <1>1, <1>4, ReadKeeps
<1>5. ASSUME NEW i \in Instances, Yield(i) PROVE Inv'
  BY <1>1, <1>5, YieldKeeps
<1>6. ASSUME NEW i \in Instances, Ack(i) PROVE Inv'
  BY <1>1, <1>6, AckKeeps
<1>7. ASSUME NEW i \in Instances, Crash(i) \/ RedisError(i) PROVE Inv'
  BY <1>1, <1>7, EndKeeps
<1>8. CASE UNCHANGED vars
  <2>1. UNCHANGED <<todo, stream, next, pel, at, started, batch, delivered>>
    BY <1>8 DEF vars, consumer
  <2>2. Delivered' = Delivered /\ Handed' = Handed
    BY <2>1 DEF Delivered, Handed
  <2>3. Published' /\ Holding' /\ Past' /\ Owed'
    BY <2>1, <2>2 DEF Inv, Published, Holding, Past, Owed
  <2>4. InHand'
    BY <2>1, <2>2 DEF Inv, InHand
  <2>5. Competing' /\ AckedIsDelivered'
    BY <2>1, <2>2 DEF Inv, Competing, AckedIsDelivered
  <2> QED
    BY <1>1, <2>3, <2>4, <2>5 DEF Inv
<1> QED
  BY <1>2, <1>3, <1>4, <1>5, <1>6, <1>7, <1>8 DEF Next, Consume

(* An event is published once, handed out once, in one batch until it is   *)
(* handed on, and acknowledged after that: broker.py and bus.py together.  *)
THEOREM InvHolds == Spec => []Inv
<1> QED
  BY InvInit, InvStep, PTL DEF Spec

(* The group's position, the batches and the places of the consumers keep  *)
(* their ranges: subscribe reads no further than the stream (broker.py).   *)
THEOREM TypeCorrect == Spec => []TypeOK
<1>1. Inv => TypeOK
  BY DEF Inv
<1> QED
  BY <1>1, InvHolds, PTL

(* An entry handed out and no longer pending went to a local bus or does   *)
(* not decode: XACK comes after the yield (broker.py subscribe).           *)
THEOREM AckedIsDeliveredHolds == Spec => []AckedIsDelivered
<1>1. Inv => AckedIsDelivered
  BY DEF Inv
<1> QED
  BY <1>1, InvHolds, PTL

-----------------------------------------------------------------------------
(* The order.                                                              *)

(* A batch is in the order of the stream, and behind what its process has  *)
(* handed on.                                                              *)
Ordered ==
  \A i \in Instances : \A n \in 1 .. Len(batch[i]) :
    /\ \A m \in 1 .. Len(batch[i]) : m < n => Precedes(stream, batch[i][m], batch[i][n])
    /\ \A m \in 1 .. Len(delivered[i]) :
         n > 1 \/ at[i] = "yield" => Precedes(stream, delivered[i][m], batch[i][n])

(* What comes before in the stream still does when it has grown.           *)
LEMMA PrecedesStays ==
  ASSUME Inv, [Next]_vars, NEW d, NEW e, Precedes(stream, d, e)
  PROVE  Precedes(stream', d, e)
<1>1. stream' = stream \/ \E f \in Events : stream' = Append(stream, f)
  BY DEF Next, vars, Publish, Start, Consume, Read, Yield, Ack, Crash, RedisError
<1>2. CASE stream' = stream
  BY <1>2 DEF Precedes
<1>3. ASSUME NEW f \in Events, stream' = Append(stream, f) PROVE Precedes(stream', d, e)
  <2>1. /\ Len(stream) \in Nat /\ Len(stream') = Len(stream) + 1
        /\ \A k \in 1 .. Len(stream) : stream'[k] = stream[k]
    BY <1>3, AppendProperties DEF Inv, TypeOK
  <2> QED
    BY <2>1 DEF Precedes
<1> QED
  BY <1>1, <1>2, <1>3

(* An entry of the next part comes after all that was handed out.          *)
LEMMA PartIsBehind ==
  ASSUME Inv, NEW n \in 1 .. Batch, next + n <= Len(stream), NEW m \in 1 .. n
  PROVE  /\ \A d \in Handed : Precedes(stream, d, Part(n)[m])
         /\ \A l \in 1 .. n : l < m => Precedes(stream, Part(n)[l], Part(n)[m])
<1>1. next \in Nat /\ n \in Nat /\ Len(stream) \in Nat
  BY StreamAssumption DEF Inv, TypeOK
<1>2. \A l \in 1 .. n : Part(n)[l] = stream[next + l] /\ next + l \in 1 .. Len(stream)
  BY <1>1, PartIs DEF Inv
<1>3. ASSUME NEW d \in Handed PROVE Precedes(stream, d, Part(n)[m])
  <2>1. PICK k \in 1 .. next : stream[k] = d
    BY DEF Handed
  <2>2. k \in 1 .. Len(stream) /\ k < next + m
    BY <1>1, <1>2, <2>1
  <2> QED
    BY <1>2, <2>1, <2>2 DEF Precedes
<1>4. ASSUME NEW l \in 1 .. n, l < m PROVE Precedes(stream, Part(n)[l], Part(n)[m])
  <2>1. next + l < next + m
    BY <1>1, <1>4
  <2> QED
    BY <1>2, <2>1 DEF Precedes
<1> QED
  BY <1>3, <1>4

LEMMA OrderStep ==
  ASSUME Inv, Inv', Ordered, InStreamOrder, [Next]_vars
  PROVE  Ordered' /\ InStreamOrder'
<1> DEFINE Kept(i) ==
      \A n \in 1 .. Len(batch[i]) :
        /\ \A m \in 1 .. Len(batch[i]) : m < n => Precedes(stream, batch[i][m], batch[i][n])
        /\ \A m \in 1 .. Len(delivered[i]) :
             n > 1 \/ at[i] = "yield" => Precedes(stream, delivered[i][m], batch[i][n])
           Sorted(i) ==
      \A m, n \in 1 .. Len(delivered[i]) : m < n => Precedes(stream, delivered[i][m], delivered[i][n])
<1>0. \A i \in Instances : Kept(i) /\ Sorted(i)
  BY DEF Ordered, InStreamOrder
<1>t. /\ at \in [Instances -> {"down", "read", "yield", "ack", "dead"}]
      /\ batch \in [Instances -> Seq(Events)] /\ delivered \in [Instances -> Seq(Events)]
  BY DEF Inv, TypeOK
<1>s. ASSUME NEW j \in Instances, at'[j] = at[j], batch'[j] = batch[j], delivered'[j] = delivered[j]
      PROVE  Kept(j)' /\ Sorted(j)'
  BY <1>0, <1>s, PrecedesStays
<1>b. \A i \in Instances : batch[i] = <<>> => Len(batch[i]) = 0
  BY EmptySeq
<1>1. ASSUME NEW i \in Instances, Read(i) PROVE Kept(i)' /\ Sorted(i)'
  <2>1. PICK n \in 1 .. Batch : next + n <= Len(stream) /\ batch' = [batch EXCEPT ![i] = Part(n)]
    BY <1>1 DEF Read, Part
  <2>2. batch'[i] = Part(n) /\ Len(Part(n)) = n /\ delivered' = delivered
    BY <1>1, <1>t, <2>1, PartIs DEF Inv, Read
  <2>3. \A m \in 1 .. Len(delivered[i]) : delivered[i][m] \in Handed
    BY DeliveredIs DEF Inv, Past
  <2>4. \A m \in 1 .. n : /\ \A d \in Handed : Precedes(stream', d, Part(n)[m])
                          /\ \A l \in 1 .. n : l < m => Precedes(stream', Part(n)[l], Part(n)[m])
    BY <2>1, PartIsBehind, PrecedesStays
  <2>5. Sorted(i)'
    BY <1>0, <2>2, PrecedesStays
  <2> QED
    BY <2>2, <2>3, <2>4, <2>5
<1>2. ASSUME NEW i \in Instances, Yield(i) PROVE Kept(i)' /\ Sorted(i)'
  <2> DEFINE e == batch[i][1]
  <2>1. at[i] = "yield" /\ at'[i] = "ack" /\ batch' = batch /\ Len(batch[i]) \in Nat \ {0}
        /\ Head(batch[i]) = e /\ e \in Events
    BY <1>2, <1>t, TailIs, ElementOfSeq DEF Yield, Goto, Inv, Holding
  <2>2. CASE delivered' = delivered
    BY <1>0, <2>1, <2>2, PrecedesStays
  <2>3. CASE delivered'[i] = Append(delivered[i], e)
    <3>1. /\ Len(delivered[i]) \in Nat /\ Len(delivered'[i]) = Len(delivered[i]) + 1
          /\ \A m \in 1 .. Len(delivered[i]) : delivered'[i][m] = delivered[i][m]
          /\ delivered'[i][Len(delivered[i]) + 1] = e
      <4>1. delivered[i] \in Seq(Events) /\ e \in Events
        BY <1>t, <2>1
      <4> HIDE DEF e
      <4> QED
        BY <2>3, <4>1, AppendProperties
    <3>2. \A m \in 1 .. Len(delivered[i]) : Precedes(stream', delivered[i][m], e)
      BY <1>0, <2>1, PrecedesStays
    <3>3. \A n \in 1 .. Len(batch[i]) : n > 1 => Precedes(stream', e, batch[i][n])
      BY <1>0, <2>1, PrecedesStays
    <3>4. \A m \in 1 .. Len(delivered'[i]) :
            m \in 1 .. Len(delivered[i]) \/ m = Len(delivered[i]) + 1
      BY <3>1
    <3>5. Kept(i)'
      <4>1. ASSUME NEW n \in 1 .. Len(batch[i]), NEW m \in 1 .. Len(batch[i]), m < n
            PROVE  Precedes(stream', batch[i][m], batch[i][n])
        BY <1>0, <4>1, PrecedesStays
      <4>2. ASSUME NEW n \in 1 .. Len(batch[i]), NEW m \in 1 .. Len(delivered'[i]), n > 1
            PROVE  Precedes(stream', delivered'[i][m], batch[i][n])
        <5>1. CASE m \in 1 .. Len(delivered[i])
          BY <1>0, <3>1, <4>2, <5>1, PrecedesStays
        <5>2. CASE m = Len(delivered[i]) + 1
          BY <3>1, <3>3, <4>2, <5>2
        <5> QED
          BY <3>4, <5>1, <5>2
      <4> QED
        BY <2>1, <4>1, <4>2
    <3>6. Sorted(i)'
      <4> SUFFICES ASSUME NEW m \in 1 .. Len(delivered'[i]), NEW n \in 1 .. Len(delivered'[i]), m < n
                   PROVE  Precedes(stream', delivered'[i][m], delivered'[i][n])
        OBVIOUS
      <4>1. m \in 1 .. Len(delivered[i])
        BY <3>1, <3>4
      <4>2. CASE n \in 1 .. Len(delivered[i])
        BY <1>0, <3>1, <4>1, <4>2, PrecedesStays
      <4>3. CASE n = Len(delivered[i]) + 1
        BY <3>1, <3>2, <4>1, <4>3
      <4> QED
        BY <3>4, <4>2, <4>3
    <3> QED
      BY <3>5, <3>6
  <2> QED
    BY <1>2, <1>t, <2>1, <2>2, <2>3 DEF Yield
<1>3. ASSUME NEW i \in Instances, Ack(i) PROVE Kept(i)' /\ Sorted(i)'
  <2>1. /\ batch[i] # <<>> /\ batch'[i] = Tail(batch[i]) /\ delivered' = delivered
        /\ batch[i] \in Seq(Events)
    BY <1>3, <1>t DEF Ack, Inv, Holding
  <2>2. /\ Len(batch[i]) \in Nat \ {0} /\ Len(batch'[i]) = Len(batch[i]) - 1
        /\ \A m \in 1 .. Len(batch'[i]) : batch'[i][m] = batch[i][m + 1]
    BY <2>1, TailIs
  <2>3. \A n \in 1 .. Len(batch'[i]) : n + 1 \in 1 .. Len(batch[i]) /\ n + 1 > 1 /\ n \in Nat
    BY <2>2
  <2>4. ASSUME NEW n \in 1 .. Len(batch'[i]), NEW m \in 1 .. Len(batch'[i]), m < n
        PROVE  Precedes(stream', batch'[i][m], batch'[i][n])
    <3>1. m + 1 < n + 1
      BY <2>3, <2>4
    <3> QED
      BY <1>0, <2>2, <2>3, <3>1, PrecedesStays
  <2>5. ASSUME NEW n \in 1 .. Len(batch'[i]), NEW m \in 1 .. Len(delivered[i])
        PROVE  Precedes(stream', delivered[i][m], batch'[i][n])
    BY <1>0, <2>2, <2>3, PrecedesStays
  <2>6. Sorted(i)'
    BY <1>0, <2>1, PrecedesStays
  <2> QED
    BY <2>1, <2>4, <2>5, <2>6
<1>4. ASSUME NEW i \in Instances, Crash(i) \/ RedisError(i) \/ Start(i) PROVE Kept(i)' /\ Sorted(i)'
  <2>1. Len(batch'[i]) = 0 /\ delivered' = delivered
    <3>1. CASE Start(i)
      BY <1>4, <3>1, <1>b DEF Start, Inv, Holding
    <3>2. CASE Crash(i) \/ RedisError(i)
      BY <1>t, <3>2, EmptySeq DEF Crash, RedisError
    <3> QED
      BY <1>4, <3>1, <3>2
  <2>2. Sorted(i)'
    BY <1>0, <2>1, PrecedesStays
  <2> QED
    BY <2>1, <2>2
<1>5. ASSUME NEW i \in Instances, Start(i) \/ Consume(i) \/ Crash(i) \/ RedisError(i)
      PROVE  \A j \in Instances : Kept(j)' /\ Sorted(j)'
  <2>1. \A j \in Instances \ {i} :
          at'[j] = at[j] /\ batch'[j] = batch[j] /\ delivered'[j] = delivered[j]
    BY <1>5, <1>t DEF Start, Consume, Read, Yield, Ack, Crash, RedisError, Goto
  <2>2. Kept(i)' /\ Sorted(i)'
    BY <1>5, <1>1, <1>2, <1>3, <1>4 DEF Consume
  <2>3. ASSUME NEW j \in Instances, j # i PROVE Kept(j)' /\ Sorted(j)'
    BY <1>s, <2>1, <2>3
  <2> QED
    BY <2>2, <2>3
<1>6. ASSUME (\E e \in Events : Publish(e)) \/ UNCHANGED vars
      PROVE  \A j \in Instances : Kept(j)' /\ Sorted(j)'
  <2>1. UNCHANGED <<at, batch, delivered>>
    BY <1>6 DEF Publish, vars, consumer
  <2> QED
    BY <1>s, <2>1
<1>7. \A j \in Instances : Kept(j)' /\ Sorted(j)'
  BY <1>5, <1>6 DEF Next
<1> QED
  BY <1>7 DEF Ordered, InStreamOrder

(* However many processes read between its reads, and whatever crashes, a  *)
(* process hands on what it reads in the order of the stream and nothing   *)
(* twice (broker.py subscribe, bus.py _consume).                           *)
THEOREM InStreamOrderHolds == Spec => []InStreamOrder
<1>1. Init => Ordered /\ InStreamOrder
  <2>1. Init => \A i \in Instances : Len(batch[i]) = 0 /\ Len(delivered[i]) = 0
    BY EmptySeq DEF Init
  <2> QED
    BY <2>1 DEF Ordered, InStreamOrder
<1>2. Inv /\ [Next]_vars => Inv'
  BY InvStep
<1>3. (Inv /\ Ordered /\ InStreamOrder) /\ [Next]_vars => (Inv /\ Ordered /\ InStreamOrder)'
  BY <1>2, OrderStep
<1> QED
  BY <1>1, <1>3, InvInit, PTL DEF Spec

=============================================================================
