------------------------- MODULE MeasurementProofs -------------------------
(***************************************************************************)
(* Theorems about measurements, by their instances in Services:            *)
(*   Intake    the file of an accepted upload is kept;                     *)
(*   Folds     the digest holds an upload as often as its fold row says;   *)
(*   Flags     a pass leaves the flags in line with what it has read, but  *)
(*             for those opened beside it.                                 *)
(* The inductive invariant of the intake says that a raw file has a row or *)
(* a delivery that is about to write it, so that the sweeper, which takes  *)
(* files that have settled, finds none of an upload without a row.  The    *)
(* one of the folds says that what waits has not been folded, and that a   *)
(* run worker holds the fold row it has found, so that the two never count *)
(* one upload.  The one of the flags says what a pass knows between its    *)
(* statements: that the rows it has locked agree with the committed ones,  *)
(* that it has found every open flag but those opened since it looked, and *)
(* that what it holds open is at its lead.                                 *)
(***************************************************************************)
EXTENDS Services, Integers, Sequences, FiniteSets, SequenceTheorems, WellFoundedInduction, TLAPS

-----------------------------------------------------------------------------
(* The intake of uploads.                                                  *)

\* A delivery has an upload once it has begun, and a day from its temporary
\* file on.
DeliveryKnows ==
  \A d \in Deliveries :
    /\ delivery[d].at # "start" => delivery[d].upload \in Uploads
    /\ delivery[d].at \in {"writing", "written", "lost"} => delivery[d].day \in 1 .. LastDay

\* A temporary file is one of a delivery that writes, of the day it took, or of
\* one that has died, and settles only if it has died.
TemporaryInUse ==
  \A d \in Deliveries, n \in 1 .. LastDay :
    /\ <<d, n>> \in temporary =>
         delivery[d].at = "failed" \/ (delivery[d].at = "writing" /\ delivery[d].day = n)
    /\ <<d, n>> \in settled => delivery[d].at = "failed"

\* A delivery that has lost its race found a row.
LostFoundRow == \A d \in Deliveries : delivery[d].at = "lost" => recorded[delivery[d].upload] # 0

\* A raw file has a row of its upload, or a delivery that wrote it and has not
\* come to its row yet.
FileHasReason ==
  \A u \in Uploads, n \in 1 .. LastDay :
    <<u, n>> \in rawFiles =>
      \/ recorded[u] # 0
      \/ \E d \in Deliveries : /\ delivery[d].at = "written" /\ delivery[d].outcome = "written"
                               /\ delivery[d].upload = u /\ delivery[d].day = n

\* The file of a delivery that is about to write a row is there.
WrittenIsThere ==
  \A d \in Deliveries :
    delivery[d].at = "written" =>
      recorded[delivery[d].upload] # 0 \/ <<delivery[d].upload, delivery[d].day>> \in rawFiles

\* The sweeper meets only files of uploads with a row, and removes none that
\* the row names.
SweptIsOrphan ==
  \A u \in Uploads, n \in 1 .. LastDay :
    /\ <<u, n>> \in settled \cup sweep.listed => recorded[u] # 0
    /\ <<u, n>> \in sweep.orphans => recorded[u] # 0 /\ recorded[u] # n

NamedIsThere == \A u \in Uploads : recorded[u] # 0 => <<u, recorded[u]>> \in rawFiles

\* What holds as long as no delivery has died.
FilesAccountedFor == FileHasReason /\ WrittenIsThere /\ SweptIsOrphan /\ NamedIsThere

IntakeInv ==
  /\ Intake!TypeOK
  /\ DeliveryKnows
  /\ TemporaryInUse
  /\ LostFoundRow
  /\ crashes = 0 => FilesAccountedFor

\* What is known of a delivery.
DeliveryRecords ==
  [at : {"start", "stored", "new", "refused", "admitted", "writing", "written", "lost", "failed"},
   upload : Uploads \cup {None}, day : 0 .. LastDay, outcome : {"none", "exists", "written"}]

\* At first there is nothing.
LEMMA IntakeInit == Intake!IntakeAssumption /\ Intake!Init => IntakeInv
<1> SUFFICES ASSUME Intake!IntakeAssumption, Intake!Init PROVE IntakeInv
  OBVIOUS
<1>1. Intake!TypeOK
  BY DEF Intake!Init, Intake!TypeOK, Intake!NoDelivery, Intake!NoSweep, Intake!IntakeAssumption, Intake!Days,
         Intake!AllFiles
<1>2. DeliveryKnows /\ TemporaryInUse /\ LostFoundRow
  BY DEF Intake!Init, DeliveryKnows, TemporaryInUse, LostFoundRow, Intake!NoDelivery
<1>3. FilesAccountedFor
  BY DEF Intake!Init, FilesAccountedFor, FileHasReason, WrittenIsThere, SweptIsOrphan, NamedIsThere,
         Intake!NoDelivery, Intake!NoSweep
<1>4. QED
  BY <1>1, <1>2, <1>3 DEF IntakeInv

\* The types of what the steps read, for use in the lemmas below.
LEMMA IntakeTypes ==
  ASSUME Intake!IntakeAssumption, IntakeInv
  PROVE  /\ recorded \in [Uploads -> 0 .. LastDay]
         /\ rawFiles \subseteq Uploads \X (1 .. LastDay)
         /\ temporary \subseteq Deliveries \X (1 .. LastDay)
         /\ settled \subseteq rawFiles \cup temporary
         /\ sweep.listed \subseteq (Uploads \cup Deliveries) \X (1 .. LastDay)
         /\ sweep.orphans \subseteq (Uploads \cup Deliveries) \X (1 .. LastDay)
         /\ \A d \in Deliveries : d \notin Uploads
         /\ crashes \in Nat
  BY DEF IntakeInv, Intake!TypeOK, Intake!Days, Intake!AllFiles, Intake!IntakeAssumption

\* A step of one delivery leaves the others as they are.
OnlyOf(d, a, u, n, o) ==
  /\ delivery' \in [Deliveries -> DeliveryRecords]
  /\ delivery'[d].at = a /\ delivery'[d].upload = u /\ delivery'[d].day = n /\ delivery'[d].outcome = o
  /\ \A e \in Deliveries : e # d => delivery'[e] = delivery[e]

\* A delivery asks for the row of its upload and for the quota.
LEMMA AskStep ==
  ASSUME Intake!IntakeAssumption, IntakeInv, NEW d \in Deliveries,
         Intake!assertUploadQuotas(d) \/ \E u \in Uploads : Intake!FindStored(d, u)
  PROVE  IntakeInv'
<1>0. delivery \in [Deliveries -> DeliveryRecords]
  BY DEF IntakeInv, Intake!TypeOK, DeliveryRecords
<1>1. UNCHANGED <<recorded, rawFiles, temporary, settled, sweep, day, crashes>>
  BY DEF Intake!assertUploadQuotas, Intake!FindStored
<1>2. PICK a \in {"stored", "new", "refused", "admitted"}, u \in Uploads :
        delivery[d].at \in {"start", "new"} /\ OnlyOf(d, a, u, delivery[d].day, delivery[d].outcome)
  <2>1. CASE Intake!assertUploadQuotas(d)
    <3>1. /\ delivery[d].at = "new" /\ delivery[d].upload \in Uploads
          /\ \E a \in {"refused", "admitted"} : delivery' = [delivery EXCEPT ![d].at = a]
      BY <2>1 DEF Intake!assertUploadQuotas, IntakeInv, DeliveryKnows
    <3>2. QED
      BY <1>0, <3>1 DEF OnlyOf, DeliveryRecords
  <2>2. ASSUME NEW u \in Uploads, Intake!FindStored(d, u)
        PROVE  \E a \in {"stored", "new"} :
                 delivery[d].at = "start" /\ OnlyOf(d, a, u, delivery[d].day, delivery[d].outcome)
    <3>1. /\ delivery[d].at = "start"
          /\ \E a \in {"stored", "new"} : delivery' = [delivery EXCEPT ![d].upload = u, ![d].at = a]
      BY <2>2 DEF Intake!FindStored
    <3>2. QED
      BY <1>0, <3>1 DEF OnlyOf, DeliveryRecords
  <2>3. QED
    BY <2>1, <2>2
<1>3. Intake!TypeOK'
  BY <1>1, <1>2 DEF IntakeInv, Intake!TypeOK, OnlyOf, DeliveryRecords
<1>4. DeliveryKnows' /\ LostFoundRow'
  BY <1>1, <1>2 DEF IntakeInv, DeliveryKnows, LostFoundRow, OnlyOf
<1>5. TemporaryInUse'
  <2>1. \A n \in 1 .. LastDay : <<d, n>> \notin temporary \cup settled
    BY <1>2 DEF IntakeInv, TemporaryInUse
  <2>2. \A e \in Deliveries : e # d => delivery'[e] = delivery[e]
    BY <1>2 DEF OnlyOf
  <2>3. QED
    BY <1>1, <2>1, <2>2 DEF IntakeInv, TemporaryInUse
<1>6. FilesAccountedFor => FilesAccountedFor'
  <2>1. FileHasReason => FileHasReason'
    BY <1>1, <1>2 DEF FileHasReason, OnlyOf
  <2>2. WrittenIsThere => WrittenIsThere'
    BY <1>1, <1>2 DEF WrittenIsThere, OnlyOf
  <2>3. SweptIsOrphan' = SweptIsOrphan /\ NamedIsThere' = NamedIsThere
    BY <1>1 DEF SweptIsOrphan, NamedIsThere
  <2>4. QED
    BY <2>1, <2>2, <2>3 DEF FilesAccountedFor
<1>7. QED
  BY <1>1, <1>3, <1>4, <1>5, <1>6 DEF IntakeInv

\* A delivery writes its body to a temporary file.
LEMMA TemporaryStep ==
  ASSUME Intake!IntakeAssumption, IntakeInv, NEW d \in Deliveries, Intake!WriteTemporary(d)
  PROVE  IntakeInv'
<1>0. delivery \in [Deliveries -> DeliveryRecords] /\ day \in 1 .. LastDay /\ day \in 0 .. LastDay
  BY DEF IntakeInv, Intake!TypeOK, DeliveryRecords, Intake!Days, Intake!IntakeAssumption
<1>1. /\ delivery[d].at = "admitted" /\ temporary' = temporary \cup {<<d, day>>}
      /\ delivery' = [delivery EXCEPT ![d].at = "writing", ![d].day = day]
      /\ UNCHANGED <<recorded, rawFiles, settled, sweep, day, crashes>>
  BY DEF Intake!WriteTemporary
<1>2. OnlyOf(d, "writing", delivery[d].upload, day, delivery[d].outcome)
  BY <1>0, <1>1 DEF OnlyOf, DeliveryRecords
<1>3. Intake!TypeOK'
  BY <1>0, <1>1, <1>2 DEF IntakeInv, Intake!TypeOK, OnlyOf, DeliveryRecords, Intake!Days
<1>4. DeliveryKnows' /\ LostFoundRow'
  BY <1>0, <1>1, <1>2 DEF IntakeInv, DeliveryKnows, LostFoundRow, OnlyOf
<1>5. TemporaryInUse'
  BY <1>1, <1>2 DEF IntakeInv, TemporaryInUse, OnlyOf
<1>6. FilesAccountedFor => FilesAccountedFor'
  <2>1. FileHasReason => FileHasReason'
    BY <1>1, <1>2 DEF FileHasReason, OnlyOf
  <2>2. WrittenIsThere => WrittenIsThere'
    BY <1>1, <1>2 DEF WrittenIsThere, OnlyOf
  <2>3. SweptIsOrphan' = SweptIsOrphan /\ NamedIsThere' = NamedIsThere
    BY <1>1 DEF SweptIsOrphan, NamedIsThere
  <2>4. QED
    BY <2>1, <2>2, <2>3 DEF FilesAccountedFor
<1>7. QED
  BY <1>1, <1>3, <1>4, <1>5, <1>6 DEF IntakeInv

\* The link makes the raw file, or finds the one of the same upload and day.
LEMMA LinkStep ==
  ASSUME Intake!IntakeAssumption, IntakeInv, NEW d \in Deliveries, Intake!Link(d)
  PROVE  IntakeInv'
<1> DEFINE u == delivery[d].upload
           n == delivery[d].day
<1>0. delivery \in [Deliveries -> DeliveryRecords]
  BY DEF IntakeInv, Intake!TypeOK, DeliveryRecords
<1>1. /\ delivery[d].at = "writing" /\ rawFiles' = rawFiles \cup {<<u, n>>}
      /\ temporary' = temporary \ {<<d, n>>}
      /\ delivery' = [delivery EXCEPT ![d].at = "written",
                                      ![d].outcome = IF <<u, n>> \in rawFiles THEN "exists" ELSE "written"]
      /\ UNCHANGED <<recorded, settled, sweep, day, crashes>>
  BY DEF Intake!Link, Intake!Path
<1>2. u \in Uploads /\ n \in 1 .. LastDay
  BY <1>1 DEF IntakeInv, DeliveryKnows
<1>3. PICK o \in {"exists", "written"} :
        /\ OnlyOf(d, "written", u, n, o)
        /\ o = "exists" => <<u, n>> \in rawFiles
  BY <1>0, <1>1 DEF OnlyOf, DeliveryRecords
<1> HIDE DEF u, n
<1>4. <<d, n>> \notin settled
  BY <1>1, <1>2 DEF IntakeInv, TemporaryInUse
<1>5. Intake!TypeOK'
  <2>1. rawFiles' \subseteq Uploads \X Intake!Days /\ temporary' \subseteq Deliveries \X Intake!Days
    BY <1>1, <1>2 DEF IntakeInv, Intake!TypeOK, Intake!Days
  <2>2. settled' \subseteq rawFiles' \cup temporary'
    BY <1>1, <1>4 DEF IntakeInv, Intake!TypeOK
  <2>3. QED
    BY <1>1, <1>3, <2>1, <2>2 DEF IntakeInv, Intake!TypeOK, OnlyOf, DeliveryRecords, Intake!AllFiles
<1>6. DeliveryKnows' /\ LostFoundRow'
  BY <1>1, <1>2, <1>3 DEF IntakeInv, DeliveryKnows, LostFoundRow, OnlyOf
<1>7. TemporaryInUse'
  <2> SUFFICES ASSUME NEW e \in Deliveries, NEW m \in 1 .. LastDay
               PROVE  /\ <<e, m>> \in temporary' =>
                           delivery'[e].at = "failed" \/ (delivery'[e].at = "writing" /\ delivery'[e].day = m)
                      /\ <<e, m>> \in settled' => delivery'[e].at = "failed"
    BY DEF TemporaryInUse
  <2>1. CASE e # d
    BY <1>1, <1>3, <2>1 DEF IntakeInv, TemporaryInUse, OnlyOf
  <2>2. CASE e = d
    <3>1. <<d, m>> \notin settled
      BY <1>1 DEF IntakeInv, TemporaryInUse
    <3>2. <<d, m>> \in temporary => m = n
      BY <1>1 DEF IntakeInv, TemporaryInUse, n
    <3>3. QED
      BY <1>1, <2>2, <3>1, <3>2
  <2>3. QED
    BY <2>1, <2>2
<1>8. FilesAccountedFor => FilesAccountedFor'
  <2>1. ASSUME FileHasReason PROVE FileHasReason'
    <3> SUFFICES ASSUME NEW v \in Uploads, NEW m \in 1 .. LastDay, <<v, m>> \in rawFiles', recorded[v] = 0
                 PROVE  \E e \in Deliveries : /\ delivery'[e].at = "written" /\ delivery'[e].outcome = "written"
                                              /\ delivery'[e].upload = v /\ delivery'[e].day = m
      BY <1>1 DEF FileHasReason
    <3>1. CASE <<v, m>> \in rawFiles
      <4>1. PICK e \in Deliveries : /\ delivery[e].at = "written" /\ delivery[e].outcome = "written"
                                    /\ delivery[e].upload = v /\ delivery[e].day = m
        BY <2>1, <3>1 DEF FileHasReason
      <4>2. e # d
        BY <1>1, <4>1
      <4>3. QED
        BY <1>3, <4>1, <4>2 DEF OnlyOf
    <3>2. CASE <<v, m>> \notin rawFiles
      <4>1. v = u /\ m = n /\ o = "written"
        BY <1>1, <1>3, <3>2
      <4>2. QED
        BY <1>3, <4>1 DEF OnlyOf
    <3>3. QED
      BY <3>1, <3>2
  <2>2. WrittenIsThere => WrittenIsThere'
    BY <1>1, <1>3 DEF WrittenIsThere, OnlyOf
  <2>3. SweptIsOrphan' = SweptIsOrphan /\ (NamedIsThere => NamedIsThere')
    BY <1>1 DEF SweptIsOrphan, NamedIsThere
  <2>4. QED
    BY <2>1, <2>2, <2>3 DEF FilesAccountedFor
<1>9. QED
  BY <1>1, <1>5, <1>6, <1>7, <1>8 DEF IntakeInv

\* A delivery writes the row, or finds that another has.
LEMMA RecordStep ==
  ASSUME Intake!IntakeAssumption, IntakeInv, NEW d \in Deliveries, Intake!recordUpload(d)
  PROVE  IntakeInv'
<1> DEFINE u == delivery[d].upload
           n == delivery[d].day
           o == delivery[d].outcome
<1>0. delivery \in [Deliveries -> DeliveryRecords] /\ recorded \in [Uploads -> 0 .. LastDay] /\ LastDay \in Nat
  BY DEF IntakeInv, Intake!TypeOK, DeliveryRecords, Intake!IntakeAssumption
<1>1. delivery[d].at = "written" /\ UNCHANGED <<rawFiles, temporary, settled, sweep, day, crashes>>
  BY DEF Intake!recordUpload
<1>2. u \in Uploads /\ n \in 1 .. LastDay
  BY <1>1 DEF IntakeInv, DeliveryKnows
<1>3. PICK a \in {"lost", "stored"} :
        /\ OnlyOf(d, a, u, n, o)
        /\ \/ recorded[u] # 0 /\ recorded' = recorded
           \/ recorded[u] = 0 /\ recorded' = [recorded EXCEPT ![u] = n] /\ a = "stored"
  <2>1. CASE u \in Intake!Recorded
    <3>1. delivery' = [delivery EXCEPT ![d].at = "lost"] /\ recorded' = recorded /\ recorded[u] # 0
      BY <2>1 DEF Intake!recordUpload, Intake!Recorded
    <3>2. OnlyOf(d, "lost", u, n, o)
      BY <1>0, <3>1 DEF OnlyOf, DeliveryRecords
    <3>3. QED
      BY <3>1, <3>2
  <2>2. CASE u \notin Intake!Recorded
    <3>1. delivery' = [delivery EXCEPT ![d].at = "stored"] /\ recorded' = [recorded EXCEPT ![u] = n] /\ recorded[u] = 0
      BY <1>2, <2>2 DEF Intake!recordUpload, Intake!Recorded
    <3>2. OnlyOf(d, "stored", u, n, o)
      BY <1>0, <3>1 DEF OnlyOf, DeliveryRecords
    <3>3. QED
      BY <3>1, <3>2
  <2>3. QED
    BY <2>1, <2>2
<1> HIDE DEF u, n, o
<1>4. /\ recorded' \in [Uploads -> 0 .. LastDay] /\ recorded'[u] # 0
      /\ \A v \in Uploads : recorded[v] # 0 => recorded'[v] = recorded[v]
      /\ \A v \in Uploads : v # u => recorded'[v] = recorded[v]
  BY <1>0, <1>2, <1>3
<1>5. Intake!TypeOK'
  BY <1>1, <1>3, <1>4 DEF IntakeInv, Intake!TypeOK, OnlyOf, DeliveryRecords
<1>6. DeliveryKnows'
  BY <1>2, <1>3 DEF IntakeInv, DeliveryKnows, OnlyOf
<1>7. LostFoundRow'
  BY <1>3, <1>4 DEF IntakeInv, LostFoundRow, OnlyOf, DeliveryKnows
<1>8. TemporaryInUse'
  BY <1>1, <1>3 DEF IntakeInv, TemporaryInUse, OnlyOf
<1>9. ASSUME FilesAccountedFor PROVE FilesAccountedFor'
  <2>0. FileHasReason /\ WrittenIsThere /\ SweptIsOrphan /\ NamedIsThere
    BY <1>9 DEF FilesAccountedFor
  <2>1. FileHasReason'
    <3> SUFFICES ASSUME NEW v \in Uploads, NEW m \in 1 .. LastDay, <<v, m>> \in rawFiles', recorded'[v] = 0
                 PROVE  \E e \in Deliveries : /\ delivery'[e].at = "written" /\ delivery'[e].outcome = "written"
                                              /\ delivery'[e].upload = v /\ delivery'[e].day = m
      BY DEF FileHasReason
    <3>1. v # u /\ recorded[v] = 0
      BY <1>4
    <3>2. PICK e \in Deliveries : /\ delivery[e].at = "written" /\ delivery[e].outcome = "written"
                                  /\ delivery[e].upload = v /\ delivery[e].day = m
      BY <1>1, <2>0, <3>1 DEF FileHasReason
    <3>3. e # d
      BY <3>1, <3>2 DEF u
    <3>4. QED
      BY <1>3, <3>2, <3>3 DEF OnlyOf
  <2>2. WrittenIsThere'
    <3> SUFFICES ASSUME NEW e \in Deliveries, delivery'[e].at = "written"
                 PROVE  \/ recorded'[delivery'[e].upload] # 0
                        \/ <<delivery'[e].upload, delivery'[e].day>> \in rawFiles'
      BY DEF WrittenIsThere
    <3>1. e # d /\ delivery'[e] = delivery[e] /\ delivery[e].upload \in Uploads
      BY <1>3 DEF OnlyOf, IntakeInv, DeliveryKnows
    <3>2. QED
      BY <1>1, <1>4, <2>0, <3>1 DEF WrittenIsThere
  <2>3. SweptIsOrphan'
    BY <1>1, <1>4, <2>0 DEF SweptIsOrphan
  <2>4. NamedIsThere'
    <3> SUFFICES ASSUME NEW v \in Uploads, recorded'[v] # 0 PROVE <<v, recorded'[v]>> \in rawFiles
      BY <1>1 DEF NamedIsThere
    <3>1. CASE recorded[v] # 0
      BY <1>4, <2>0, <3>1 DEF NamedIsThere
    <3>2. CASE recorded[v] = 0
      <4>1. v = u /\ recorded[u] = 0 /\ recorded'[u] = n
        BY <1>0, <1>2, <1>3, <1>4, <3>2
      <4>2. <<u, n>> \in rawFiles
        BY <1>1, <2>0, <4>1 DEF WrittenIsThere, u, n
      <4>3. QED
        BY <4>1, <4>2
    <3>3. QED
      BY <3>1, <3>2
  <2>5. QED
    BY <2>1, <2>2, <2>3, <2>4 DEF FilesAccountedFor
<1>10. QED
  BY <1>1, <1>5, <1>6, <1>7, <1>8, <1>9 DEF IntakeInv

\* Files go that no row names, of uploads that have a row: what is accounted
\* for stays so.
LEMMA Removed ==
  ASSUME FilesAccountedFor, rawFiles' \subseteq rawFiles, settled' \subseteq settled,
         UNCHANGED recorded,
         sweep'.listed \subseteq sweep.listed, sweep'.orphans \subseteq sweep.orphans,
         \A d \in Deliveries : delivery[d].at = "written" => delivery'[d] = delivery[d],
         \A d \in Deliveries : delivery'[d].at = "written" => delivery'[d] = delivery[d],
         \A d \in Deliveries : delivery[d].at = "written" => delivery[d].upload \in Uploads,
         \A u \in Uploads, n \in 1 .. LastDay :
           <<u, n>> \in rawFiles \ rawFiles' => recorded[u] # 0 /\ recorded[u] # n,
         \A d \in Deliveries : delivery[d].at = "written" => delivery[d].day \in 1 .. LastDay,
         recorded \in [Uploads -> 0 .. LastDay], LastDay \in Nat
  PROVE  FilesAccountedFor'
<1>0. FileHasReason /\ WrittenIsThere /\ SweptIsOrphan /\ NamedIsThere
  BY DEF FilesAccountedFor
<1>1. FileHasReason'
  <2> SUFFICES ASSUME NEW v \in Uploads, NEW m \in 1 .. LastDay, <<v, m>> \in rawFiles', recorded[v] = 0
               PROVE  \E e \in Deliveries : /\ delivery'[e].at = "written" /\ delivery'[e].outcome = "written"
                                            /\ delivery'[e].upload = v /\ delivery'[e].day = m
    BY DEF FileHasReason
  <2>1. PICK e \in Deliveries : /\ delivery[e].at = "written" /\ delivery[e].outcome = "written"
                                /\ delivery[e].upload = v /\ delivery[e].day = m
    BY <1>0 DEF FileHasReason
  <2>2. QED
    BY <2>1
<1>2. WrittenIsThere'
  BY <1>0 DEF WrittenIsThere
<1>3. SweptIsOrphan'
  BY <1>0 DEF SweptIsOrphan
<1>4. NamedIsThere'
  <2>1. \A u \in Uploads : recorded[u] # 0 => recorded[u] \in 1 .. LastDay
    OBVIOUS
  <2>2. QED
    BY <1>0, <2>1 DEF NamedIsThere
<1>5. QED
  BY <1>1, <1>2, <1>3, <1>4 DEF FilesAccountedFor

\* The loser of a race removes a file that it wrote and the row does not name.
LEMMA LostRaceStep ==
  ASSUME Intake!IntakeAssumption, IntakeInv, NEW d \in Deliveries, Intake!settleLostRace(d)
  PROVE  IntakeInv'
<1> DEFINE u == delivery[d].upload
           n == delivery[d].day
<1>0. delivery \in [Deliveries -> DeliveryRecords] /\ recorded \in [Uploads -> 0 .. LastDay] /\ LastDay \in Nat
  BY DEF IntakeInv, Intake!TypeOK, DeliveryRecords, Intake!IntakeAssumption
<1>1. /\ delivery[d].at = "lost" /\ delivery' = [delivery EXCEPT ![d].at = "stored"]
      /\ settled' = settled \cap (rawFiles' \cup temporary)
      /\ UNCHANGED <<recorded, temporary, sweep, day, crashes>>
      /\ rawFiles' = rawFiles \/ (rawFiles' = rawFiles \ {<<u, n>>} /\ recorded[u] # n)
  BY DEF Intake!settleLostRace, Intake!RemovesItsFile, Intake!Path
<1>2. u \in Uploads /\ n \in 1 .. LastDay /\ recorded[u] # 0
  BY <1>1 DEF IntakeInv, DeliveryKnows, LostFoundRow
<1>3. OnlyOf(d, "stored", u, n, delivery[d].outcome)
  BY <1>0, <1>1 DEF OnlyOf, DeliveryRecords
<1> HIDE DEF u, n
<1>4. Intake!TypeOK'
  BY <1>1, <1>3 DEF IntakeInv, Intake!TypeOK, OnlyOf, DeliveryRecords
<1>5. DeliveryKnows' /\ LostFoundRow'
  BY <1>1, <1>2, <1>3 DEF IntakeInv, DeliveryKnows, LostFoundRow, OnlyOf
<1>6. TemporaryInUse'
  BY <1>1, <1>3 DEF IntakeInv, TemporaryInUse, OnlyOf
<1>7. FilesAccountedFor => FilesAccountedFor'
  <2>1. \A e \in Deliveries : delivery[e].at = "written" \/ delivery'[e].at = "written" => delivery'[e] = delivery[e]
    BY <1>1, <1>3 DEF OnlyOf
  <2>2. \A e \in Deliveries : delivery[e].at = "written" =>
                                delivery[e].upload \in Uploads /\ delivery[e].day \in 1 .. LastDay
    BY DEF IntakeInv, DeliveryKnows
  <2>3. \A v \in Uploads, m \in 1 .. LastDay : <<v, m>> \in rawFiles \ rawFiles' => recorded[v] # 0 /\ recorded[v] # m
    BY <1>1, <1>2
  <2>4. rawFiles' \subseteq rawFiles /\ settled' \subseteq settled /\ sweep' = sweep
    BY <1>1
  <2>5. QED
    BY <1>0, <1>1, <2>1, <2>2, <2>3, <2>4, Removed
<1>8. QED
  BY <1>1, <1>4, <1>5, <1>6, <1>7 DEF IntakeInv

\* After a delivery has died nothing is claimed but the types.
LEMMA CrashStep ==
  ASSUME Intake!IntakeAssumption, IntakeInv, NEW d \in Deliveries, Intake!Crash(d)
  PROVE  IntakeInv'
<1>0. delivery \in [Deliveries -> DeliveryRecords] /\ crashes \in Nat /\ MaxDeaths \in Nat
  BY DEF IntakeInv, Intake!TypeOK, DeliveryRecords, Intake!IntakeAssumption
<1>1. /\ delivery[d].at # "start" /\ delivery' = [delivery EXCEPT ![d].at = "failed"]
      /\ crashes < MaxDeaths /\ crashes' = crashes + 1
      /\ UNCHANGED <<recorded, rawFiles, temporary, settled, sweep, day>>
  BY DEF Intake!Crash
<1>2. OnlyOf(d, "failed", delivery[d].upload, delivery[d].day, delivery[d].outcome)
  BY <1>0, <1>1 DEF OnlyOf, DeliveryRecords
<1>3. Intake!TypeOK'
  <2>1. crashes' \in 0 .. MaxDeaths
    BY <1>0, <1>1
  <2>2. QED
    BY <1>1, <1>2, <2>1 DEF IntakeInv, Intake!TypeOK, OnlyOf, DeliveryRecords
<1>4. DeliveryKnows' /\ LostFoundRow'
  BY <1>1, <1>2 DEF IntakeInv, DeliveryKnows, LostFoundRow, OnlyOf
<1>5. TemporaryInUse'
  BY <1>1, <1>2 DEF IntakeInv, TemporaryInUse, OnlyOf
<1>6. crashes' # 0
  BY <1>0, <1>1
<1>7. QED
  BY <1>3, <1>4, <1>5, <1>6 DEF IntakeInv

\* A file settles: of an upload, one that has a row; of a delivery, one that
\* has died.
LEMMA SettleStep ==
  ASSUME Intake!IntakeAssumption, IntakeInv, NEW f \in Intake!AllFiles, Intake!Settle(f)
  PROVE  IntakeInv'
<1>0. PICK x \in Uploads \cup Deliveries, n \in 1 .. LastDay : f = <<x, n>>
  BY DEF Intake!AllFiles, Intake!Days
<1>1. /\ f \in rawFiles \cup temporary /\ settled' = settled \cup {f}
      /\ \A d \in Deliveries : delivery[d].at \in {"writing", "written", "lost"} =>
           /\ f # <<d, delivery[d].day>>
           /\ f = <<delivery[d].upload, delivery[d].day>> => delivery[d].outcome = "exists"
      /\ UNCHANGED <<recorded, rawFiles, temporary, delivery, sweep, day, crashes>>
  BY DEF Intake!Settle, Intake!Path
<1>2. Intake!TypeOK'
  BY <1>1 DEF IntakeInv, Intake!TypeOK
<1>3. DeliveryKnows' /\ LostFoundRow'
  BY <1>1 DEF IntakeInv, DeliveryKnows, LostFoundRow
<1>4. TemporaryInUse'
  <2>1. x \in Deliveries => delivery[x].at = "failed"
    <3>1. SUFFICES ASSUME x \in Deliveries PROVE delivery[x].at = "failed"
      OBVIOUS
    <3>2. f \in temporary
      BY <1>0, <1>1, <3>1, IntakeTypes
    <3>3. delivery[x].at = "failed" \/ (delivery[x].at = "writing" /\ delivery[x].day = n)
      BY <1>0, <3>1, <3>2 DEF IntakeInv, TemporaryInUse
    <3>4. QED
      BY <1>0, <1>1, <3>1, <3>3
  <2>2. QED
    BY <1>0, <1>1, <2>1 DEF IntakeInv, TemporaryInUse
<1>5. ASSUME FilesAccountedFor PROVE FilesAccountedFor'
  <2>0. FileHasReason /\ WrittenIsThere /\ SweptIsOrphan /\ NamedIsThere
    BY <1>5 DEF FilesAccountedFor
  <2>1. x \in Uploads => recorded[x] # 0
    <3>1. SUFFICES ASSUME x \in Uploads, recorded[x] = 0 PROVE FALSE
      OBVIOUS
    <3>2. f \in rawFiles
      BY <1>0, <1>1, <3>1, IntakeTypes
    <3>3. PICK d \in Deliveries : /\ delivery[d].at = "written" /\ delivery[d].outcome = "written"
                                  /\ delivery[d].upload = x /\ delivery[d].day = n
      BY <1>0, <2>0, <3>1, <3>2 DEF FileHasReason
    <3>4. QED
      BY <1>0, <1>1, <3>3
  <2>2. SweptIsOrphan'
    BY <1>0, <1>1, <2>0, <2>1 DEF SweptIsOrphan
  <2>3. FileHasReason' /\ WrittenIsThere' /\ NamedIsThere'
    BY <1>1, <2>0 DEF FileHasReason, WrittenIsThere, NamedIsThere
  <2>4. QED
    BY <2>2, <2>3 DEF FilesAccountedFor
<1>6. QED
  BY <1>1, <1>2, <1>3, <1>4, <1>5 DEF IntakeInv

\* The sweeper lists what has settled, and then asks for the rows.
LEMMA LookStep ==
  ASSUME Intake!IntakeAssumption, IntakeInv, Intake!ReadRows \/ \E n \in Intake!Days : Intake!ListDay(n)
  PROVE  IntakeInv'
<1>1. UNCHANGED <<recorded, rawFiles, temporary, settled, delivery, day, crashes>>
  BY DEF Intake!ReadRows, Intake!ListDay
<1>2. /\ sweep' \in [at : {"idle", "listed", "removing"},
                     listed : SUBSET Intake!AllFiles, orphans : SUBSET Intake!AllFiles]
      /\ sweep'.listed \subseteq settled
      /\ sweep'.orphans \subseteq sweep.listed \ Intake!RecordedPaths
  <2>1. CASE Intake!ReadRows
    <3>1. \/ sweep' = [at |-> "idle", listed |-> {}, orphans |-> {}]
          \/ sweep' = [at |-> "removing", listed |-> {}, orphans |-> sweep.listed \ Intake!RecordedPaths]
      BY <2>1 DEF Intake!ReadRows, Intake!NoSweep, Intake!Orphans
    <3>2. sweep.listed \subseteq Intake!AllFiles
      BY DEF IntakeInv, Intake!TypeOK
    <3>3. QED
      BY <3>1, <3>2
  <2>2. CASE \E n \in Intake!Days : Intake!ListDay(n)
    <3>1. PICK n \in Intake!Days :
            sweep' = [at |-> "listed", listed |-> {f \in settled : f[2] = n}, orphans |-> {}]
      BY <2>2 DEF Intake!ListDay
    <3>2. settled \subseteq Intake!AllFiles
      BY DEF IntakeInv, Intake!TypeOK, Intake!AllFiles
    <3>3. QED
      BY <3>1, <3>2
  <2>3. QED
    BY <2>1, <2>2
<1>3. Intake!TypeOK'
  BY <1>1, <1>2 DEF IntakeInv, Intake!TypeOK
<1>4. DeliveryKnows' /\ LostFoundRow' /\ TemporaryInUse'
  BY <1>1 DEF IntakeInv, DeliveryKnows, LostFoundRow, TemporaryInUse
<1>5. ASSUME FilesAccountedFor PROVE FilesAccountedFor'
  <2>0. FileHasReason /\ WrittenIsThere /\ SweptIsOrphan /\ NamedIsThere
    BY <1>5 DEF FilesAccountedFor
  <2>1. SweptIsOrphan'
    <3> SUFFICES ASSUME NEW u \in Uploads, NEW n \in 1 .. LastDay
                 PROVE  /\ <<u, n>> \in settled' \cup sweep'.listed => recorded'[u] # 0
                        /\ <<u, n>> \in sweep'.orphans => recorded'[u] # 0 /\ recorded'[u] # n
      BY DEF SweptIsOrphan
    <3>1. <<u, n>> \in settled \cup sweep.listed => recorded[u] # 0
      BY <2>0 DEF SweptIsOrphan
    <3>2. recorded[u] # 0 /\ recorded[u] = n => <<u, n>> \in Intake!RecordedPaths
      BY DEF Intake!RecordedPaths, Intake!Recorded
    <3>3. QED
      BY <1>1, <1>2, <3>1, <3>2
  <2>2. FileHasReason' /\ WrittenIsThere' /\ NamedIsThere'
    BY <1>1, <2>0 DEF FileHasReason, WrittenIsThere, NamedIsThere
  <2>3. QED
    BY <2>1, <2>2 DEF FilesAccountedFor
<1>6. QED
  BY <1>1, <1>3, <1>4, <1>5 DEF IntakeInv

\* The sweeper removes a file that no row named when it asked, and none does
\* since: an upload with a row keeps it.
LEMMA SweepStep ==
  ASSUME Intake!IntakeAssumption, IntakeInv, NEW f \in sweep.orphans, Intake!RemoveOrphan(f)
  PROVE  IntakeInv'
<1>1. /\ rawFiles' = rawFiles \ {f} /\ temporary' = temporary \ {f} /\ settled' = settled \ {f}
      /\ UNCHANGED <<recorded, delivery, day, crashes>>
  BY DEF Intake!RemoveOrphan
<1>2. /\ sweep' \in [at : {"idle", "listed", "removing"},
                     listed : SUBSET Intake!AllFiles, orphans : SUBSET Intake!AllFiles]
      /\ sweep'.listed \subseteq sweep.listed /\ sweep'.orphans \subseteq sweep.orphans
  <2>1. sweep \in [at : {"idle", "listed", "removing"},
                   listed : SUBSET Intake!AllFiles, orphans : SUBSET Intake!AllFiles]
    BY DEF IntakeInv, Intake!TypeOK
  <2>2. \/ sweep' = [at |-> "idle", listed |-> {}, orphans |-> {}]
        \/ sweep' = [sweep EXCEPT !.orphans = sweep.orphans \ {f}]
    BY DEF Intake!RemoveOrphan, Intake!NoSweep
  <2>3. QED
    BY <2>1, <2>2
<1>3. Intake!TypeOK'
  BY <1>1, <1>2 DEF IntakeInv, Intake!TypeOK
<1>4. DeliveryKnows' /\ LostFoundRow' /\ TemporaryInUse'
  BY <1>1 DEF IntakeInv, DeliveryKnows, LostFoundRow, TemporaryInUse
<1>5. FilesAccountedFor => FilesAccountedFor'
  <2>1. ASSUME FilesAccountedFor
        PROVE  \A u \in Uploads, n \in 1 .. LastDay :
                 <<u, n>> \in rawFiles \ rawFiles' => recorded[u] # 0 /\ recorded[u] # n
    BY <1>1, <2>1 DEF FilesAccountedFor, SweptIsOrphan
  <2>2. \A d \in Deliveries : delivery[d].at = "written" =>
                                delivery[d].upload \in Uploads /\ delivery[d].day \in 1 .. LastDay
    BY DEF IntakeInv, DeliveryKnows
  <2>3. recorded \in [Uploads -> 0 .. LastDay] /\ LastDay \in Nat
    BY IntakeTypes DEF Intake!IntakeAssumption
  <2>4. rawFiles' \subseteq rawFiles /\ settled' \subseteq settled /\ delivery' = delivery
    BY <1>1
  <2>5. QED
    BY <1>1, <1>2, <2>1, <2>2, <2>3, <2>4, Removed
<1>6. QED
  BY <1>1, <1>3, <1>4, <1>5 DEF IntakeInv

\* A day ends, or nothing happens.
LEMMA DayStep ==
  ASSUME Intake!IntakeAssumption, IntakeInv, Intake!Midnight \/ UNCHANGED Intake!vars
  PROVE  IntakeInv'
<1>1. UNCHANGED <<recorded, rawFiles, temporary, settled, delivery, sweep, crashes>>
  BY DEF Intake!Midnight, Intake!vars
<1>2. day' \in 1 .. LastDay
  BY DEF Intake!Midnight, Intake!vars, IntakeInv, Intake!TypeOK, Intake!Days, Intake!IntakeAssumption
<1>3. Intake!TypeOK'
  BY <1>1, <1>2 DEF IntakeInv, Intake!TypeOK, Intake!Days
<1>4. DeliveryKnows' /\ LostFoundRow' /\ TemporaryInUse'
  BY <1>1 DEF IntakeInv, DeliveryKnows, LostFoundRow, TemporaryInUse
<1>5. FilesAccountedFor => FilesAccountedFor'
  BY <1>1 DEF FilesAccountedFor, FileHasReason, WrittenIsThere, SweptIsOrphan, NamedIsThere
<1>6. QED
  BY <1>1, <1>3, <1>4, <1>5 DEF IntakeInv

\* Every step of a delivery and of the sweeper keeps the invariant.
LEMMA IntakeInductive ==
  Intake!IntakeAssumption /\ IntakeInv /\ [Intake!Next]_(Intake!vars) => IntakeInv'
<1> SUFFICES ASSUME Intake!IntakeAssumption, IntakeInv, [Intake!Next]_(Intake!vars) PROVE IntakeInv'
  OBVIOUS
<1>1. ASSUME NEW d \in Deliveries, Intake!Step(d) PROVE IntakeInv'
  BY <1>1, AskStep, TemporaryStep, LinkStep, RecordStep, LostRaceStep DEF Intake!Step
<1>2. CASE Intake!sweepOrphanFiles
  BY <1>2, LookStep, SweepStep DEF Intake!sweepOrphanFiles
<1>3. QED
  BY <1>1, <1>2, AskStep, CrashStep, SettleStep, DayStep DEF Intake!Next

\* The file of an upload that was accepted is there as long as no delivery has
\* died, whatever the order of deliveries, losers and the sweeper, and across
\* midnight (receiveUpload, recordUpload, settleLostRace, sweepOrphanFiles).
THEOREM AcceptedFileKept ==
  ASSUME Intake!IntakeAssumption
  PROVE  Intake!Spec => []RecordedFileKept
<1>1. IntakeInv => RecordedFileKept
  BY DEF IntakeInv, FilesAccountedFor, NamedIsThere, RecordedFileKept, Intake!RecordedFileKept,
         Intake!RecordedPaths, Intake!Recorded
<1>2. QED
  BY <1>1, IntakeInit, IntakeInductive, PTL DEF Intake!Spec

-----------------------------------------------------------------------------
(* The folds of measurements.                                              *)

\* What waits to be folded has not been folded.
WaitingIsUnfolded == \A u \in Uploads : upload[u].status \in {"received", "processing"} => fold[u] = "none"

\* A fold worker at work has an upload.
FolderKnows == \A w \in FoldWorkers : folder[w].at # "idle" => folder[w].upload \in Uploads

\* A run worker at work holds the fold row of its upload, which is as the
\* condition of its run found it; a rebuild replays other uploads.
RunnerHoldsRow ==
  \A w \in RunWorkers :
    runner[w].at # "idle" =>
      /\ runner[w].upload \in Uploads
      /\ locked[runner[w].upload] = w
      /\ runner[w].kind \in Folds!Kinds
      /\ fold[runner[w].upload] = IF runner[w].kind = "restore" THEN "unfolded" ELSE "folded"
      /\ runner[w].upload \notin runner[w].kept

FoldsInv ==
  /\ Folds!TypeOK
  /\ WaitingIsUnfolded
  /\ FolderKnows
  /\ RunnerHoldsRow
  /\ Folds!CountedOnce

LEMMA FoldsBegin == Folds!UploadFoldsAssumption /\ Folds!Init => FoldsInv
<1> SUFFICES ASSUME Folds!UploadFoldsAssumption, Folds!Init PROVE FoldsInv
  OBVIOUS
<1>1. Folds!TypeOK
  BY DEF Folds!Init, Folds!TypeOK, Folds!UploadFoldsAssumption, Folds!Statuses, Folds!Removable, Folds!Deleters,
         Folds!IdleFolder, Folds!IdleRunner
<1>2. QED
  BY <1>1 DEF Folds!Init, FoldsInv, WaitingIsUnfolded, FolderKnows, RunnerHoldsRow, Folds!CountedOnce,
              Folds!IdleFolder, Folds!IdleRunner

\* What is stored about an upload and what the workers know.
UploadRecords == [status : Folds!Statuses, claim : Nat, attempts : 0 .. MaxAttempts, gone : BOOLEAN]
FolderRecords ==
  [at : {"idle", "claimed", "read"}, upload : Uploads \cup {None}, claim : Nat, read : {"none", "samples", "rejected"}]
RunnerRecords ==
  [at : {"idle", "locked", "read"}, kind : Folds!Kinds \cup {"none"}, upload : Uploads \cup {None},
   read : BOOLEAN, kept : SUBSET Uploads]

\* The types of the state, one variable at a time.
FoldTypes ==
  /\ upload \in [Uploads -> UploadRecords]
  /\ fold \in [Uploads -> {"none", "folded", "unfolded"}]
  /\ locked \in [Uploads -> RunWorkers \cup {None}]
  /\ digest \in [Uploads -> Int]
  /\ files \subseteq Uploads /\ rebuilds \subseteq Uploads
  /\ folder \in [FoldWorkers -> FolderRecords]
  /\ runner \in [RunWorkers -> RunnerRecords]
  /\ restoring \subseteq Uploads
  /\ due \in [Folds!Deleters -> SUBSET Uploads] /\ unmarked \in [Folds!Deleters -> SUBSET Uploads]
  /\ pastRetention \subseteq Expiring /\ account \in BOOLEAN /\ claims \in Nat
  /\ spent \in [restore : 0 .. MaxRestores, refold : 0 .. MaxRefolds, crash : 0 .. MaxCrashes]

LEMMA FoldTypesAreTypes == FoldTypes <=> Folds!TypeOK
  BY DEF FoldTypes, Folds!TypeOK, UploadRecords, FolderRecords, RunnerRecords

LEMMA FoldTypesNext == FoldTypes' <=> Folds!TypeOK'
  BY DEF FoldTypes, Folds!TypeOK, UploadRecords, FolderRecords, RunnerRecords

\* Only the row of upload u changes, and has a status then.
RowBecomes(rows, u, status) ==
  /\ rows \in [Uploads -> UploadRecords]
  /\ rows[u].status = status
  /\ \A v \in Uploads : v # u => rows[v] = upload[v]

\* The row of an upload gets a status, and loses its claim, its attempts or its
\* file.
LEMMA RowTyped ==
  ASSUME FoldTypes, Folds!UploadFoldsAssumption, NEW u \in Uploads, NEW status \in Folds!Statuses
  PROVE  /\ RowBecomes([upload EXCEPT ![u].status = status], u, status)
         /\ RowBecomes([upload EXCEPT ![u].status = status, ![u].claim = 0], u, status)
         /\ RowBecomes([upload EXCEPT ![u].status = status, ![u].claim = 0, ![u].attempts = 0], u, status)
         /\ RowBecomes([upload EXCEPT ![u].gone = TRUE], u, upload[u].status)
<1>1. upload \in [Uploads -> UploadRecords] /\ 0 \in Nat /\ 0 \in 0 .. MaxAttempts
  BY DEF FoldTypes, Folds!UploadFoldsAssumption
<1>2. upload[u] \in UploadRecords
  BY <1>1
<1>3. RowBecomes([upload EXCEPT ![u].status = status], u, status)
  BY <1>1, <1>2 DEF UploadRecords, RowBecomes
<1>4. RowBecomes([upload EXCEPT ![u].status = status, ![u].claim = 0], u, status)
  BY <1>1, <1>2 DEF UploadRecords, RowBecomes
<1>5. RowBecomes([upload EXCEPT ![u].status = status, ![u].claim = 0, ![u].attempts = 0], u, status)
  BY <1>1, <1>2 DEF UploadRecords, RowBecomes
<1>6. RowBecomes([upload EXCEPT ![u].gone = TRUE], u, upload[u].status)
  BY <1>1, <1>2 DEF UploadRecords, RowBecomes
<1>7. QED
  BY <1>3, <1>4, <1>5, <1>6

\* A bounded number of events is counted up to its bound.
LEMMA SpendTyped ==
  ASSUME Folds!UploadFoldsAssumption, FoldTypes,
         Folds!Spend("restore", MaxRestores) \/ Folds!Spend("refold", MaxRefolds) \/ Folds!Spend("crash", MaxCrashes)
  PROVE  spent' \in [restore : 0 .. MaxRestores, refold : 0 .. MaxRefolds, crash : 0 .. MaxCrashes]
  BY DEF Folds!UploadFoldsAssumption, FoldTypes, Folds!Spend

\* A fold worker claims an upload, reads it, or ends.
LEMMA FolderStep ==
  ASSUME Folds!UploadFoldsAssumption, FoldsInv, NEW w \in FoldWorkers,
         Folds!FolderStep(w) \/ Folds!release(w) \/ Folds!FolderCrash(w)
  PROVE  FoldsInv'
<1>1. FoldTypes
  BY FoldTypesAreTypes DEF FoldsInv
<1>2. ASSUME NEW u \in Uploads, Folds!claim_upload(w, u) PROVE FoldsInv'
  <2>1. /\ upload[u].status \in {"received", "processing"} /\ fold[u] = "none"
        /\ upload[u] \in UploadRecords
    BY <1>1, <1>2 DEF Folds!claim_upload, Folds!Waiting, FoldsInv, WaitingIsUnfolded, FoldTypes
  <2>2. /\ upload' \in [Uploads -> UploadRecords]
        /\ \A v \in Uploads : v # u => upload'[v] = upload[v]
    <3>1. CASE Folds!GivesUp(u)
      <4>1. upload' = [upload EXCEPT ![u].status = "rejected", ![u].claim = 0]
        BY <1>2, <3>1 DEF Folds!claim_upload
      <4>2. "rejected" \in Folds!Statuses
        BY DEF Folds!Statuses, Folds!Removable
      <4>3. RowBecomes(upload', u, "rejected")
        BY <1>1, <4>1, <4>2, RowTyped
      <4>4. QED
        BY <4>3 DEF RowBecomes
    <3>2. CASE ~Folds!GivesUp(u)
      BY <1>1, <1>2, <2>1, <3>2
         DEF Folds!claim_upload, Folds!GivesUp, FoldTypes, UploadRecords, Folds!Statuses, Folds!Removable,
             Folds!UploadFoldsAssumption
    <3>3. QED
      BY <3>1, <3>2
  <2>3. /\ folder' \in [FoldWorkers -> FolderRecords] /\ claims' \in Nat
        /\ \A x \in FoldWorkers : folder'[x] = folder[x] \/ folder'[x].upload = u
    <3>1. CASE Folds!GivesUp(u)
      BY <1>1, <1>2, <3>1 DEF Folds!claim_upload, FoldTypes
    <3>2. CASE ~Folds!GivesUp(u)
      <4>1. [at |-> "claimed", upload |-> u, claim |-> claims + 1, read |-> "none"] \in FolderRecords
        BY <1>1 DEF FoldTypes, FolderRecords
      <4>2. QED
        BY <1>1, <1>2, <3>2, <4>1 DEF Folds!claim_upload, FoldTypes
    <3>3. QED
      BY <3>1, <3>2
  <2>4. UNCHANGED <<fold, digest, rebuilds, locked, files, runner, restoring, due, unmarked, pastRetention, account, spent>>
    BY <1>2 DEF Folds!claim_upload, Folds!deleter, Folds!world
  <2>5. FoldTypes'
    BY <1>1, <2>2, <2>3, <2>4 DEF FoldTypes
  <2>6. WaitingIsUnfolded' /\ FolderKnows' /\ RunnerHoldsRow'
    BY <2>1, <2>2, <2>3, <2>4 DEF FoldsInv, WaitingIsUnfolded, FolderKnows, RunnerHoldsRow
  <2>7. QED
    BY <2>4, <2>5, <2>6, FoldTypesNext DEF FoldsInv, Folds!CountedOnce
<1>3. CASE Folds!fold_upload(w)
  <2>1. UNCHANGED <<upload, fold, digest, rebuilds, locked, files, runner, restoring, due, unmarked, pastRetention, account, claims, spent>>
    BY <1>3 DEF Folds!fold_upload, Folds!tables, Folds!deleter, Folds!world
  <2>2. PICK outcome \in {"samples", "rejected"} : folder' = [folder EXCEPT ![w].at = "read", ![w].read = outcome]
    BY <1>3 DEF Folds!fold_upload
  <2>3. folder \in [FoldWorkers -> FolderRecords] /\ folder[w].at = "claimed"
    BY <1>1, <1>3 DEF FoldTypes, Folds!fold_upload
  <2>4. folder' \in [FoldWorkers -> FolderRecords] /\ \A x \in FoldWorkers : folder'[x].upload = folder[x].upload
    BY <2>2, <2>3 DEF FolderRecords
  <2>5. \A x \in FoldWorkers : folder'[x].at # "idle" => folder[x].at # "idle"
    BY <2>2, <2>3
  <2>6. QED
    BY <1>1, <2>1, <2>4, <2>5, FoldTypesNext
       DEF FoldTypes, FoldsInv, WaitingIsUnfolded, FolderKnows, RunnerHoldsRow, Folds!CountedOnce
<1>4. CASE Folds!mark_processed(w) \/ Folds!reject(w) \/ Folds!release(w) \/ Folds!FolderCrash(w)
  <2> DEFINE u == folder[w].upload
  <2>1. u \in Uploads
    BY <1>4 DEF FoldsInv, FolderKnows, Folds!mark_processed, Folds!reject, Folds!release, Folds!FolderCrash,
                Folds!IdleFolder
  <2>2. /\ folder' \in [FoldWorkers -> FolderRecords]
        /\ \A x \in FoldWorkers : folder'[x].at # "idle" => folder'[x] = folder[x]
    <3>1. folder' = [folder EXCEPT ![w] = Folds!IdleFolder]
      BY <1>4 DEF Folds!mark_processed, Folds!reject, Folds!release, Folds!FolderCrash
    <3>2. Folds!IdleFolder \in FolderRecords /\ Folds!IdleFolder.at = "idle"
      BY DEF Folds!IdleFolder, FolderRecords
    <3>3. QED
      BY <1>1, <3>1, <3>2 DEF FoldTypes
  <2>3. /\ UNCHANGED <<rebuilds, locked, files, runner, restoring, due, unmarked, pastRetention, account, claims>>
        /\ spent' \in [restore : 0 .. MaxRestores, refold : 0 .. MaxRefolds, crash : 0 .. MaxCrashes]
    <3>1. CASE Folds!FolderCrash(w)
      BY <1>1, <3>1, SpendTyped DEF Folds!FolderCrash, Folds!tables, Folds!deleter, Folds!world
    <3>2. QED
      BY <1>1, <1>4, <3>1 DEF Folds!mark_processed, Folds!reject, Folds!release, Folds!deleter, Folds!world, FoldTypes
  <2>4. FolderKnows'
    BY <2>2 DEF FoldsInv, FolderKnows
  <2>5. CASE UNCHANGED <<upload, fold, digest>>
    BY <1>1, <2>2, <2>3, <2>4, <2>5, FoldTypesNext
       DEF FoldTypes, FoldsInv, WaitingIsUnfolded, RunnerHoldsRow, Folds!CountedOnce
  <2>6. CASE ~UNCHANGED <<upload, fold, digest>>
    <3>1. Folds!HoldsClaim(w)
      <4>1. ~Folds!FolderCrash(w)
        BY <2>6 DEF Folds!FolderCrash, Folds!tables
      <4>2. Folds!mark_processed(w) => Folds!HoldsClaim(w)
        <5> SUFFICES ASSUME Folds!mark_processed(w), ~Folds!HoldsClaim(w) PROVE UNCHANGED <<upload, fold, digest>>
          BY <2>6
        <5>1. digest' = [digest EXCEPT ![u] = @ + 0] /\ UNCHANGED <<upload, fold>>
          BY DEF Folds!mark_processed, Folds!Written
        <5>2. QED
          BY <1>1, <2>1, <5>1 DEF FoldTypes
      <4>3. QED
        BY <1>4, <2>6, <4>1, <4>2 DEF Folds!reject, Folds!release
    <3>2. upload[u].status = "processing" /\ fold[u] = "none" /\ digest[u] = 0 /\ upload[u] \in UploadRecords
      BY <1>1, <2>1, <3>1 DEF Folds!HoldsClaim, FoldsInv, WaitingIsUnfolded, Folds!CountedOnce, FoldTypes
    <3>3. \E status \in Folds!Statuses :
            /\ RowBecomes(upload', u, status)
            /\ \/ status = "processed" /\ fold' = [fold EXCEPT ![u] = "folded"] /\ digest' = [digest EXCEPT ![u] = 1]
               \/ fold' = fold /\ digest' = digest
      <4>1. {"processed", "rejected", "received"} \subseteq Folds!Statuses
        BY DEF Folds!Statuses, Folds!Removable
      <4>2. CASE Folds!mark_processed(w)
        <5>1. upload' = [upload EXCEPT ![u].status = "processed"]
          BY <3>1, <4>2 DEF Folds!mark_processed, Folds!SetStatus
        <5>2. fold' = [fold EXCEPT ![u] = "folded"] /\ digest' = [digest EXCEPT ![u] = 1]
          BY <3>1, <3>2, <4>2 DEF Folds!mark_processed, Folds!Written
        <5>3. RowBecomes(upload', u, "processed")
          BY <1>1, <2>1, <4>1, <5>1, RowTyped
        <5>4. QED
          BY <4>1, <5>2, <5>3
      <4>3. CASE Folds!reject(w)
        <5>1. upload' = [upload EXCEPT ![u].status = "rejected"] /\ UNCHANGED <<fold, digest>>
          BY <3>1, <4>3 DEF Folds!reject, Folds!SetStatus
        <5>2. RowBecomes(upload', u, "rejected")
          BY <1>1, <2>1, <4>1, <5>1, RowTyped
        <5>3. QED
          BY <4>1, <5>1, <5>2
      <4>4. CASE Folds!release(w)
        <5>1. upload' = [upload EXCEPT ![u].status = "received", ![u].claim = 0] /\ UNCHANGED <<fold, digest>>
          BY <3>1, <4>4 DEF Folds!release
        <5>2. RowBecomes(upload', u, "received")
          BY <1>1, <2>1, <4>1, <5>1, RowTyped
        <5>3. QED
          BY <4>1, <5>1, <5>2
      <4>5. ~Folds!FolderCrash(w)
        BY <2>6 DEF Folds!FolderCrash, Folds!tables
      <4>6. QED
        BY <1>4, <4>2, <4>3, <4>4, <4>5
    <3>4. PICK status \in Folds!Statuses :
            /\ RowBecomes(upload', u, status)
            /\ \/ status = "processed" /\ fold' = [fold EXCEPT ![u] = "folded"] /\ digest' = [digest EXCEPT ![u] = 1]
               \/ fold' = fold /\ digest' = digest
      BY <3>3
    <3>5. /\ fold' \in [Uploads -> {"none", "folded", "unfolded"}] /\ digest' \in [Uploads -> Int]
          /\ \A v \in Uploads : v # u => fold'[v] = fold[v] /\ digest'[v] = digest[v]
          /\ digest'[u] = IF fold'[u] = "folded" THEN 1 ELSE 0
          /\ upload'[u].status \in {"received", "processing"} => fold'[u] = "none"
      BY <1>1, <2>1, <3>2, <3>4 DEF FoldTypes, RowBecomes
    <3>6. \A x \in RunWorkers : runner[x].at # "idle" => runner[x].upload # u
      BY <3>2 DEF FoldsInv, RunnerHoldsRow
    <3>7. WaitingIsUnfolded' /\ RunnerHoldsRow' /\ \A v \in Uploads : digest'[v] = IF fold'[v] = "folded" THEN 1 ELSE 0
      BY <2>3, <3>4, <3>5, <3>6 DEF FoldsInv, WaitingIsUnfolded, RunnerHoldsRow, Folds!CountedOnce, RowBecomes
    <3>8. FoldTypes'
      BY <1>1, <2>2, <2>3, <3>4, <3>5 DEF FoldTypes, RowBecomes
    <3>9. QED
      BY <2>4, <3>7, <3>8, FoldTypesNext DEF FoldsInv, Folds!CountedOnce
  <2>7. QED
    BY <2>5, <2>6
<1>5. QED
  BY <1>2, <1>3, <1>4 DEF Folds!FolderStep

\* A run worker locks the fold row of an upload that meets its condition.
LEMMA LockStep ==
  ASSUME Folds!UploadFoldsAssumption, FoldsInv, NEW w \in RunWorkers, NEW u \in Uploads, NEW kind \in Folds!Kinds,
         Folds!lock_folded(w, kind, u),
         UNCHANGED <<upload, fold, digest, files, folder, restoring, due, unmarked, pastRetention, account, claims>>,
         rebuilds' \subseteq Uploads,
         spent' \in [restore : 0 .. MaxRestores, refold : 0 .. MaxRefolds, crash : 0 .. MaxCrashes]
  PROVE  FoldsInv'
<1>1. FoldTypes
  BY FoldTypesAreTypes DEF FoldsInv
<1> DEFINE locking == [Folds!IdleRunner EXCEPT !.at = "locked", !.kind = kind, !.upload = u]
<1>2. /\ locking \in RunnerRecords
      /\ locking.upload = u /\ locking.kind = kind /\ locking.kept = {}
  BY DEF Folds!IdleRunner, RunnerRecords
<1>3. /\ runner' = [runner EXCEPT ![w] = locking] /\ locked' = [locked EXCEPT ![u] = w]
      /\ locked[u] = None /\ Folds!condition(kind, u)
  BY DEF Folds!lock_folded
<1> HIDE DEF locking
<1>4. fold[u] = IF kind = "restore" THEN "unfolded" ELSE "folded"
  BY <1>3 DEF Folds!condition, Folds!Restored, Folds!Folded, Folds!Kinds
<1>5. FoldTypes'
  BY <1>1, <1>2, <1>3 DEF FoldTypes
<1>6. RunnerHoldsRow'
  <2> SUFFICES ASSUME NEW x \in RunWorkers, runner'[x].at # "idle"
               PROVE  /\ runner'[x].upload \in Uploads
                      /\ locked'[runner'[x].upload] = x
                      /\ runner'[x].kind \in Folds!Kinds
                      /\ fold'[runner'[x].upload] = IF runner'[x].kind = "restore" THEN "unfolded" ELSE "folded"
                      /\ runner'[x].upload \notin runner'[x].kept
    BY DEF RunnerHoldsRow
  <2>1. CASE x = w
    BY <1>1, <1>2, <1>3, <1>4, <2>1 DEF FoldTypes
  <2>2. CASE x # w
    <3>1. runner'[x] = runner[x]
      BY <1>1, <1>3, <2>2 DEF FoldTypes
    <3>2. runner[x].upload \in Uploads /\ locked[runner[x].upload] = x
      BY <3>1 DEF FoldsInv, RunnerHoldsRow
    <3>3. runner[x].upload # u
      BY <1>3, <3>2 DEF Folds!UploadFoldsAssumption
    <3>4. QED
      BY <1>1, <1>3, <3>1, <3>2, <3>3 DEF FoldsInv, RunnerHoldsRow, FoldTypes
  <2>3. QED
    BY <2>1, <2>2
<1>7. QED
  BY <1>5, <1>6, FoldTypesNext DEF FoldsInv, WaitingIsUnfolded, FolderKnows, Folds!CountedOnce

\* A run worker ends its transaction: what it did to its own upload, or to all
\* of them if there is no other, keeps the count.
LEMMA EndStep ==
  ASSUME Folds!UploadFoldsAssumption, FoldsInv, NEW w \in RunWorkers, runner[w].at # "idle",
         Folds!EndOfTransaction(w),
         UNCHANGED <<files, folder, restoring, due, unmarked, pastRetention, account, claims>>,
         rebuilds' \subseteq Uploads,
         spent' \in [restore : 0 .. MaxRestores, refold : 0 .. MaxRefolds, crash : 0 .. MaxCrashes],
         NEW status \in Folds!Statuses, RowBecomes(upload', runner[w].upload, status),
         fold' \in [Uploads -> {"none", "folded", "unfolded"}], digest' \in [Uploads -> Int],
         \A v \in Uploads : v # runner[w].upload => fold'[v] = fold[v] /\ digest'[v] = digest[v],
         digest'[runner[w].upload] = IF fold'[runner[w].upload] = "folded" THEN 1 ELSE 0,
         status \in {"received", "processing"} => fold'[runner[w].upload] = "none"
  PROVE  FoldsInv'
<1>1. FoldTypes
  BY FoldTypesAreTypes DEF FoldsInv
<1> DEFINE u == runner[w].upload
<1>2. u \in Uploads /\ locked[u] = w
  BY DEF FoldsInv, RunnerHoldsRow
<1>3. runner' = [runner EXCEPT ![w] = Folds!IdleRunner] /\ locked' = [locked EXCEPT ![u] = None]
  BY DEF Folds!EndOfTransaction
<1>4. Folds!IdleRunner \in RunnerRecords /\ Folds!IdleRunner.at = "idle"
  BY DEF Folds!IdleRunner, RunnerRecords
<1>5. \A x \in RunWorkers : runner'[x].at # "idle" => x # w /\ runner'[x] = runner[x] /\ runner[x].upload # u
  BY <1>1, <1>2, <1>3, <1>4 DEF FoldTypes, FoldsInv, RunnerHoldsRow
<1>6. FoldTypes'
  BY <1>1, <1>3, <1>4 DEF FoldTypes, RowBecomes
<1>7. RunnerHoldsRow'
  BY <1>1, <1>2, <1>3, <1>5 DEF FoldTypes, FoldsInv, RunnerHoldsRow
<1>8. WaitingIsUnfolded'
  BY <1>2 DEF FoldsInv, WaitingIsUnfolded, RowBecomes
<1>9. \A v \in Uploads : digest'[v] = IF fold'[v] = "folded" THEN 1 ELSE 0
  BY <1>2 DEF FoldsInv, Folds!CountedOnce
<1>10. FolderKnows'
  BY DEF FoldsInv, FolderKnows
<1>11. QED
  BY <1>6, <1>7, <1>8, <1>9, <1>10, FoldTypesNext DEF FoldsInv, Folds!CountedOnce

\* The steps of a run worker.  A rebuild is taken to be of the only upload.
LEMMA RunnerSteps ==
  ASSUME Folds!UploadFoldsAssumption, FoldsInv, NEW w \in RunWorkers,
         Folds!RunnerStep(w) \/ Folds!RunnerCrash(w) \/ \E u \in Uploads : Folds!Refold(w, u),
         Folds!rebuild(w) => Uploads = {runner[w].upload}
  PROVE  FoldsInv'
<1>1. FoldTypes
  BY FoldTypesAreTypes DEF FoldsInv
<1>2. ASSUME NEW u \in Uploads, NEW kind \in Folds!Kinds, Folds!Drain(w, kind, u) PROVE FoldsInv'
  BY <1>1, <1>2, LockStep DEF Folds!Drain, Folds!tables, Folds!deleter, Folds!world, FoldTypes
<1>3. ASSUME NEW u \in Uploads, Folds!Refold(w, u) PROVE FoldsInv'
  <2>1. spent' \in [restore : 0 .. MaxRestores, refold : 0 .. MaxRefolds, crash : 0 .. MaxCrashes]
    BY <1>1, <1>3, SpendTyped DEF Folds!Refold
  <2>2. "refold" \in Folds!Kinds
    BY DEF Folds!Kinds
  <2>3. QED
    BY <1>1, <1>3, <2>1, <2>2, LockStep DEF Folds!Refold, Folds!tables, Folds!deleter, Folds!world, FoldTypes
<1>4. ASSUME NEW u \in Uploads, Folds!Rebuild(w, u) PROVE FoldsInv'
  <2>1. /\ UNCHANGED <<upload, fold, digest, files, folder, restoring, due, unmarked, pastRetention, account, claims, spent>>
        /\ rebuilds' \subseteq Uploads
    BY <1>1, <1>4 DEF Folds!Rebuild, Folds!deleter, Folds!world, FoldTypes
  <2>2. CASE Folds!lock_folded(w, "rebuild", u)
    BY <1>1, <2>1, <2>2, LockStep DEF FoldTypes, Folds!Kinds
  <2>3. CASE UNCHANGED <<runner, locked>>
    BY <1>1, <2>1, <2>3, FoldTypesNext
       DEF FoldTypes, FoldsInv, WaitingIsUnfolded, FolderKnows, RunnerHoldsRow, Folds!CountedOnce
  <2>4. QED
    BY <1>4, <2>2, <2>3 DEF Folds!Rebuild
<1>5. CASE Folds!ReadFile(w)
  <2>1. UNCHANGED <<upload, fold, digest, rebuilds, locked, files, folder, restoring, due, unmarked, pastRetention, account, claims, spent>>
    BY <1>5 DEF Folds!ReadFile, Folds!tables, Folds!deleter, Folds!world
  <2>2. PICK there \in BOOLEAN, kept \in SUBSET (Uploads \ {runner[w].upload}) :
          runner' = [runner EXCEPT ![w].at = "read", ![w].read = there, ![w].kept = kept]
    <3> DEFINE there == runner[w].upload \in files
               kept == IF runner[w].kind = "rebuild" THEN {v \in Uploads \ {runner[w].upload} : Folds!Folded(v)} ELSE {}
    <3>1. runner' = [runner EXCEPT ![w].at = "read", ![w].read = there, ![w].kept = kept]
      BY <1>5 DEF Folds!ReadFile
    <3>2. there \in BOOLEAN /\ kept \in SUBSET (Uploads \ {runner[w].upload})
      OBVIOUS
    <3> HIDE DEF there, kept
    <3>3. QED
      BY <3>1, <3>2
  <2>3. runner \in [RunWorkers -> RunnerRecords] /\ runner[w].at = "locked" /\ runner[w] \in RunnerRecords
    BY <1>1, <1>5 DEF FoldTypes, Folds!ReadFile
  <2>4. /\ runner' \in [RunWorkers -> RunnerRecords]
        /\ runner'[w].upload = runner[w].upload /\ runner'[w].kind = runner[w].kind /\ runner'[w].kept = kept
        /\ \A x \in RunWorkers : x # w => runner'[x] = runner[x]
    BY <2>2, <2>3 DEF RunnerRecords
  <2>5. RunnerHoldsRow'
    <3>1. \A x \in RunWorkers : x # w /\ runner'[x].at # "idle" => runner'[x] = runner[x]
      BY <2>4
    <3>2. QED
      BY <2>1, <2>3, <2>4, <3>1 DEF FoldsInv, RunnerHoldsRow
  <2>6. QED
    BY <1>1, <2>1, <2>4, <2>5, FoldTypesNext
       DEF FoldTypes, FoldsInv, WaitingIsUnfolded, FolderKnows, Folds!CountedOnce
<1> DEFINE u == runner[w].upload
<1>6. ASSUME runner[w].at # "idle"
      PROVE  /\ u \in Uploads /\ upload[u].status \in Folds!Statuses /\ digest[u] \in Int
             /\ digest[u] = IF fold[u] = "folded" THEN 1 ELSE 0
             /\ fold[u] = IF runner[w].kind = "restore" THEN "unfolded" ELSE "folded"
             /\ upload[u].status \notin {"received", "processing"}
             /\ u \notin runner[w].kept
             /\ RowBecomes(upload, u, upload[u].status)
  <2>1. u \in Uploads /\ fold[u] = (IF runner[w].kind = "restore" THEN "unfolded" ELSE "folded") /\ u \notin runner[w].kept
    BY <1>6 DEF FoldsInv, RunnerHoldsRow
  <2>2. upload[u] \in UploadRecords
    BY <1>1, <2>1 DEF FoldTypes
  <2>3. QED
    BY <1>1, <2>1, <2>2 DEF FoldsInv, WaitingIsUnfolded, Folds!CountedOnce, FoldTypes, UploadRecords, RowBecomes
<1>7. CASE Folds!note_file_gone(w)
  <2>1. runner[w].at # "idle" /\ upload' = [upload EXCEPT ![u].gone = TRUE] /\ UNCHANGED <<fold, digest>>
        /\ Folds!EndOfTransaction(w) /\ rebuilds' \subseteq Uploads
    BY <1>1, <1>6, <1>7 DEF Folds!note_file_gone, FoldTypes
  <2>2. RowBecomes(upload', u, upload[u].status)
    BY <1>1, <1>6, <2>1, RowTyped
  <2>3. UNCHANGED <<files, folder, restoring, due, unmarked, pastRetention, account, claims, spent>>
    BY <1>7 DEF Folds!note_file_gone, Folds!deleter, Folds!world
  <2>4. QED
    BY <1>1, <1>6, <2>1, <2>2, <2>3, EndStep DEF FoldTypes
<1>8. CASE Folds!subtract_due(w) \/ Folds!restore_due(w)
  <2>1. /\ runner[w].at # "idle" /\ Folds!EndOfTransaction(w)
        /\ UNCHANGED <<upload, rebuilds, files, folder, restoring, due, unmarked, pastRetention, account, claims, spent>>
    BY <1>8 DEF Folds!subtract_due, Folds!restore_due, Folds!deleter, Folds!world
  <2>2. \/ digest' = [digest EXCEPT ![u] = 0] /\ fold' = [fold EXCEPT ![u] = "unfolded"]
        \/ digest' = [digest EXCEPT ![u] = 1] /\ fold' = [fold EXCEPT ![u] = "folded"]
    <3>1. CASE Folds!subtract_due(w)
      <4>1. digest[u] = 1
        BY <1>6, <2>1, <3>1 DEF Folds!subtract_due
      <4>2. QED
        BY <3>1, <4>1 DEF Folds!subtract_due
    <3>2. CASE Folds!restore_due(w)
      <4>1. digest[u] = 0
        BY <1>6, <2>1, <3>2 DEF Folds!restore_due
      <4>2. QED
        BY <3>2, <4>1 DEF Folds!restore_due
    <3>3. QED
      BY <1>8, <3>1, <3>2
  <2>3. /\ fold' \in [Uploads -> {"none", "folded", "unfolded"}] /\ digest' \in [Uploads -> Int]
        /\ \A v \in Uploads : v # u => fold'[v] = fold[v] /\ digest'[v] = digest[v]
        /\ digest'[u] = IF fold'[u] = "folded" THEN 1 ELSE 0
    BY <1>1, <1>6, <2>1, <2>2 DEF FoldTypes
  <2>4. RowBecomes(upload', u, upload[u].status)
    BY <1>6, <2>1
  <2>5. QED
    BY <1>1, <1>6, <2>1, <2>3, <2>4, EndStep DEF FoldTypes
<1>9. CASE Folds!refold(w)
  <2>1. /\ runner[w].at # "idle" /\ Folds!EndOfTransaction(w) /\ runner[w].kind = "refold"
        /\ UNCHANGED <<rebuilds, files, folder, restoring, due, unmarked, pastRetention, account, claims, spent>>
    BY <1>9 DEF Folds!refold, Folds!deleter, Folds!world
  <2>2. CASE UNCHANGED <<upload, fold, digest>>
    <3>1. RowBecomes(upload', u, upload[u].status)
      BY <1>6, <2>1, <2>2
    <3>2. QED
      BY <1>1, <1>6, <2>1, <2>2, <3>1, EndStep DEF FoldTypes
  <2>3. CASE Folds!SetStatus(u, "rejected") /\ fold' = [fold EXCEPT ![u] = "none"] /\ digest' = [digest EXCEPT ![u] = @ - 1]
    <3>1. "rejected" \in Folds!Statuses
      BY DEF Folds!Statuses, Folds!Removable
    <3>2. RowBecomes(upload', u, "rejected")
      BY <1>1, <1>6, <2>1, <2>3, <3>1, RowTyped DEF Folds!SetStatus
    <3>3. /\ fold' \in [Uploads -> {"none", "folded", "unfolded"}] /\ digest' \in [Uploads -> Int]
          /\ \A v \in Uploads : v # u => fold'[v] = fold[v] /\ digest'[v] = digest[v]
          /\ digest'[u] = IF fold'[u] = "folded" THEN 1 ELSE 0
      BY <1>1, <1>6, <2>1, <2>3 DEF FoldTypes
    <3>4. QED
      BY <1>1, <2>1, <3>1, <3>2, <3>3, EndStep DEF FoldTypes
  <2>4. QED
    BY <1>9, <2>2, <2>3 DEF Folds!refold
<1>10. CASE Folds!rebuild(w)
  <2>1. /\ runner[w].at # "idle" /\ Folds!EndOfTransaction(w) /\ runner[w].kind = "rebuild"
        /\ UNCHANGED <<upload, rebuilds, files, folder, restoring, due, unmarked, pastRetention, account, claims, spent>>
        /\ digest' = [v \in Uploads |-> IF v \in runner[w].kept \cap files THEN 1 ELSE 0]
        /\ fold' = [fold EXCEPT ![u] = "unfolded"]
    BY <1>10 DEF Folds!rebuild, Folds!deleter, Folds!world
  <2>2. Uploads = {u}
    BY <1>10
  <2>3. /\ fold' \in [Uploads -> {"none", "folded", "unfolded"}] /\ digest' \in [Uploads -> Int]
        /\ digest'[u] = 0 /\ fold'[u] = "unfolded"
    BY <1>1, <1>6, <2>1 DEF FoldTypes
  <2>4. RowBecomes(upload', u, upload[u].status)
    BY <1>6, <2>1
  <2>5. QED
    BY <1>1, <1>6, <2>1, <2>2, <2>3, <2>4, EndStep DEF FoldTypes
<1>11. CASE Folds!RunnerCrash(w)
  <2>1. spent' \in [restore : 0 .. MaxRestores, refold : 0 .. MaxRefolds, crash : 0 .. MaxCrashes]
    BY <1>1, <1>11, SpendTyped DEF Folds!RunnerCrash
  <2>2. /\ runner[w].at # "idle" /\ Folds!EndOfTransaction(w)
        /\ UNCHANGED <<upload, fold, digest, rebuilds, files, folder, restoring, due, unmarked, pastRetention, account, claims>>
    BY <1>11 DEF Folds!RunnerCrash, Folds!tables, Folds!deleter, Folds!world
  <2>3. RowBecomes(upload', u, upload[u].status)
    BY <1>6, <2>2
  <2>4. QED
    BY <1>1, <1>6, <2>1, <2>2, <2>3, EndStep DEF FoldTypes
<1>12. QED
  BY <1>2, <1>3, <1>4, <1>5, <1>7, <1>8, <1>9, <1>10, <1>11 DEF Folds!RunnerStep

\* People, administrators, time and the deletion of raw files touch neither the
\* folds nor the digest.
LEMMA OutsideStep ==
  ASSUME Folds!UploadFoldsAssumption, FoldsInv,
         \/ \E u \in Uploads : \/ Folds!withdrawUploads(u) \/ Folds!excludeUploads(u) \/ Folds!updateUpload(u)
                               \/ Folds!restoreUpload(u) \/ Folds!Expire(u)
         \/ Folds!forgetContributorMeasurements
         \/ Folds!DeleterStep
         \/ UNCHANGED Folds!vars
  PROVE  FoldsInv'
<1>1. FoldTypes
  BY FoldTypesAreTypes DEF FoldsInv
<1>2. UNCHANGED <<fold, digest, locked, folder, runner, claims>>
  BY DEF Folds!withdrawUploads, Folds!excludeUploads, Folds!updateUpload, Folds!restoreUpload, Folds!Expire,
         Folds!forgetContributorMeasurements, Folds!DeleterStep, Folds!purgeRawFiles, Folds!Delete, Folds!vars,
         Folds!tables
<1>3. /\ files' \subseteq Uploads /\ rebuilds' \subseteq Uploads /\ restoring' \subseteq Uploads
      /\ pastRetention' \subseteq Expiring /\ account' \in BOOLEAN
  BY <1>1
     DEF FoldTypes, Folds!withdrawUploads, Folds!excludeUploads, Folds!updateUpload, Folds!restoreUpload, Folds!Expire,
         Folds!forgetContributorMeasurements, Folds!DeleterStep, Folds!purgeRawFiles, Folds!Delete, Folds!vars,
         Folds!tables, Folds!world, Folds!deleteUploadFile
<1>4. spent' \in [restore : 0 .. MaxRestores, refold : 0 .. MaxRefolds, crash : 0 .. MaxCrashes]
  <2>1. CASE \E u \in Uploads : Folds!updateUpload(u)
    BY <1>1, <2>1, SpendTyped DEF Folds!updateUpload
  <2>2. QED
    BY <1>1, <2>1
       DEF FoldTypes, Folds!withdrawUploads, Folds!excludeUploads, Folds!restoreUpload, Folds!Expire,
           Folds!forgetContributorMeasurements, Folds!DeleterStep, Folds!purgeRawFiles, Folds!Delete, Folds!vars
<1>5. due' \in [Folds!Deleters -> SUBSET Uploads] /\ unmarked' \in [Folds!Deleters -> SUBSET Uploads]
  <2>1. CASE Folds!forgetContributorMeasurements
    BY <1>1, <2>1 DEF FoldTypes, Folds!forgetContributorMeasurements
  <2>2. CASE Folds!purgeRawFiles
    <3>1. PICK aged : due' = [due EXCEPT !["purge"] = Folds!findDueFiles(aged)] /\ unmarked' = unmarked
      BY <2>2 DEF Folds!purgeRawFiles
    <3>2. Folds!findDueFiles(aged) \in SUBSET Uploads
      BY DEF Folds!findDueFiles
    <3>3. QED
      BY <1>1, <3>1, <3>2 DEF FoldTypes
  <2>3. CASE \E d \in Folds!Deleters, u \in Uploads : Folds!Delete(d, u)
    <3>1. PICK d \in Folds!Deleters, u \in Uploads : Folds!deleteUploadFile(d, u)
      BY <2>3 DEF Folds!Delete
    <3>2. due[d] \in SUBSET Uploads
      BY <1>1 DEF FoldTypes
    <3>3. QED
      BY <1>1, <3>1, <3>2 DEF FoldTypes, Folds!deleteUploadFile
  <2>4. QED
    BY <1>1, <2>1, <2>2, <2>3
       DEF FoldTypes, Folds!withdrawUploads, Folds!excludeUploads, Folds!updateUpload, Folds!restoreUpload, Folds!Expire,
           Folds!DeleterStep, Folds!vars, Folds!deleter
<1> DEFINE OnlyUnfoldedWait ==
             /\ upload' \in [Uploads -> UploadRecords]
             /\ \A v \in Uploads : upload'[v].status \in {"received", "processing"} =>
                  upload[v].status \in {"received", "processing"} \/ fold[v] = "none"
<1>6. OnlyUnfoldedWait
  <2>1. ASSUME NEW u \in Uploads, NEW status \in Folds!Statuses, RowBecomes(upload', u, status),
               status \in {"received", "processing"} => upload[u].status \in {"received", "processing"} \/ fold[u] = "none"
        PROVE  OnlyUnfoldedWait
    BY <2>1 DEF RowBecomes
  <2>2. CASE upload' = upload
    BY <1>1, <2>2 DEF FoldTypes
  <2>3. \A v \in Uploads : upload[v] \in UploadRecords /\ upload[v].status \in Folds!Statuses
    BY <1>1 DEF FoldTypes, UploadRecords
  <2>4. {"withdrawn", "excluded", "processed", "received"} \subseteq Folds!Statuses
    BY DEF Folds!Statuses, Folds!Removable
  <2>5. ASSUME NEW u \in Uploads, Folds!withdrawUploads(u) PROVE OnlyUnfoldedWait
    <3>1. RowBecomes(upload', u, "withdrawn")
      BY <1>1, <2>4, <2>5, RowTyped DEF Folds!withdrawUploads, Folds!SetStatus
    <3>2. QED
      BY <2>1, <2>4, <3>1
  <2>6. ASSUME NEW u \in Uploads, Folds!excludeUploads(u) PROVE OnlyUnfoldedWait
    <3>1. RowBecomes(upload', u, "excluded")
      BY <1>1, <2>4, <2>6, RowTyped DEF Folds!excludeUploads, Folds!SetStatus
    <3>2. QED
      BY <2>1, <2>4, <3>1
  <2>7. ASSUME NEW u \in Uploads, Folds!restoreUpload(u) PROVE OnlyUnfoldedWait
    <3>1. CASE upload[u].status # "excluded"
      BY <2>2, <2>7, <3>1 DEF Folds!restoreUpload
    <3>2. CASE upload[u].status = "excluded" /\ fold[u] # "none"
      <4>1. upload' = [upload EXCEPT ![u].status = "processed"]
        BY <2>7, <3>2 DEF Folds!restoreUpload
      <4>2. RowBecomes(upload', u, "processed")
        BY <1>1, <2>4, <4>1, RowTyped
      <4>3. QED
        BY <2>1, <2>4, <4>2
    <3>3. CASE upload[u].status = "excluded" /\ fold[u] = "none"
      <4>1. upload' = [upload EXCEPT ![u].status = "received", ![u].claim = 0, ![u].attempts = 0]
        BY <2>7, <3>3 DEF Folds!restoreUpload
      <4>2. RowBecomes(upload', u, "received")
        BY <1>1, <2>4, <4>1, RowTyped
      <4>3. QED
        BY <2>1, <2>4, <3>3, <4>2
    <3>4. QED
      BY <3>1, <3>2, <3>3
  <2>8. CASE Folds!forgetContributorMeasurements
    <3>1. upload' = [v \in Uploads |-> IF upload[v].status \in {"received", "processing"}
                                        THEN [upload[v] EXCEPT !.status = "withdrawn"] ELSE upload[v]]
      BY <2>8 DEF Folds!forgetContributorMeasurements
    <3>2. \A v \in Uploads : /\ upload'[v] \in UploadRecords
                             /\ upload'[v].status \notin {"received", "processing"}
      BY <2>3, <2>4, <3>1 DEF UploadRecords
    <3>3. QED
      BY <3>1, <3>2
  <2>9. ASSUME NEW d \in Folds!Deleters, NEW u \in Uploads, Folds!Delete(d, u) PROVE OnlyUnfoldedWait
    <3>1. CASE upload' = [upload EXCEPT ![u].gone = TRUE]
      <4>1. RowBecomes(upload', u, upload[u].status)
        BY <1>1, <2>3, <3>1, RowTyped
      <4>2. QED
        BY <2>1, <2>3, <4>1
    <3>2. QED
      BY <2>2, <2>9, <3>1 DEF Folds!Delete, Folds!deleteUploadFile
  <2>10. QED
    BY <2>2, <2>5, <2>6, <2>7, <2>8, <2>9
       DEF Folds!updateUpload, Folds!Expire, Folds!DeleterStep, Folds!purgeRawFiles, Folds!vars, Folds!tables
<1>7. FoldTypes'
  BY <1>1, <1>2, <1>3, <1>4, <1>5, <1>6 DEF FoldTypes
<1>8. WaitingIsUnfolded'
  BY <1>2, <1>6 DEF FoldsInv, WaitingIsUnfolded
<1>9. QED
  BY <1>2, <1>7, <1>8, FoldTypesNext DEF FoldsInv, FolderKnows, RunnerHoldsRow, Folds!CountedOnce

\* The digest holds an upload once when its fold row says so and not at all
\* otherwise, for any uploads and workers, restores, refolds and crashes, as
\* long as a rebuild is of an upload that shares its cells with no other one
\* (claim_upload, mark_processed, subtract_due, restore_due, refold, rebuild).
THEOREM UploadsCountOnce ==
  ASSUME Folds!UploadFoldsAssumption
  PROVE  Folds!Spec /\ [][\A w \in RunWorkers : Folds!rebuild(w) => Uploads = {runner[w].upload}]_(Folds!vars)
           => []CountedOnce
<1> DEFINE Alone == \A w \in RunWorkers : Folds!rebuild(w) => Uploads = {runner[w].upload}
<1>1. FoldsInv /\ [Folds!Next]_(Folds!vars) /\ [Alone]_(Folds!vars) => FoldsInv'
  <2> SUFFICES ASSUME FoldsInv, [Folds!Next]_(Folds!vars), [Alone]_(Folds!vars) PROVE FoldsInv'
    OBVIOUS
  <2>1. CASE UNCHANGED Folds!vars
    BY <2>1, OutsideStep
  <2>2. CASE Folds!Next /\ Alone
    BY <2>2, FolderStep, RunnerSteps, OutsideStep DEF Folds!Next
  <2>3. QED
    BY <2>1, <2>2
<1>2. FoldsInv => CountedOnce
  BY DEF FoldsInv, CountedOnce, Folds!TypeOK
<1>3. Folds!Init => FoldsInv
  BY FoldsBegin
<1> HIDE DEF Alone
<1>4. Folds!Spec /\ [][Alone]_(Folds!vars) => []CountedOnce
  BY <1>1, <1>2, <1>3, PTL DEF Folds!Spec
<1>5. QED
  BY <1>4 DEF Alone

-----------------------------------------------------------------------------
(* The flags of a group of observed sites.                                 *)

PassFields == {"at", "lead", "people", "time", "seen", "rows", "raises"}
PassPlaces == {"idle", "read", "moving", "moved", "closing", "closed", "weighed"}
HasLooked == {"closing", "closed", "weighed"}

\* The fields of pass P over the flags fs, and of what was opened beside it.
PassTyped(P, fs, aside) ==
  /\ DOMAIN P = PassFields
  /\ P.at \in PassPlaces
  /\ P.lead \in Sites \union {0} /\ (P.at # "idle" => P.lead \in Sites)
  /\ P.people \in 0 .. MaxPeople /\ P.time \in Nat /\ P.raises \in BOOLEAN
  /\ P.seen \subseteq DOMAIN fs /\ DOMAIN P.rows \subseteq DOMAIN fs
  /\ \A i \in DOMAIN P.rows : P.rows[i] \in Flags!Flag
  /\ aside \subseteq DOMAIN fs

\* A row that a pass has locked stays as committed until the pass commits: what
\* it has open is open there, and what is dismissed there it keeps.
RowsAgree(P, fs) ==
  /\ P.at \in {"idle", "read", "moving"} => DOMAIN P.rows = {}
  /\ \A i \in DOMAIN P.rows :
       /\ P.rows[i].reason = "open" => fs[i].reason = "open"
       /\ fs[i].reason = "dismissed" => P.rows[i].reason = "dismissed" /\ P.rows[i].people = fs[i].people

\* The flags as pass P sees them.
Sees(P, fs) == [i \in DOMAIN fs |-> IF i \in DOMAIN P.rows THEN P.rows[i] ELSE fs[i]]

OpenRows(P) == {i \in DOMAIN P.rows : P.rows[i].reason = "open"}

\* Once it has looked for open flags, a pass has found each that is open, those
\* opened since aside; once it has closed the stale ones, what it has open is at
\* its lead and has evidence; and if it is not going to raise a flag, it has none
\* open, and no evidence or a dismissal of as much.
Gathered(P, fs, aside) ==
  /\ P.at = "closing" => Flags!Open(fs) \ aside \subseteq P.seen \union DOMAIN P.rows
  /\ P.at \in {"closing", "closed"} => OpenRows(P) \subseteq P.seen
  /\ P.at \in {"closed", "weighed"} =>
       /\ Flags!Open(fs) \ aside \subseteq DOMAIN P.rows
       /\ \A i \in OpenRows(P) : P.rows[i].site = P.lead /\ P.people > 0
  /\ P.at = "weighed" /\ P.raises => P.people > 0
  /\ P.at = "weighed" /\ ~P.raises =>
       /\ OpenRows(P) = {}
       /\ P.people > 0 =>
            \/ aside # {}
            \/ \E i \in DOMAIN fs : Sees(P, fs)[i].reason = "dismissed" /\ Sees(P, fs)[i].people >= P.people

PassInv(P, fs, aside) == PassTyped(P, fs, aside) /\ RowsAgree(P, fs) /\ Gathered(P, fs, aside)

\* No time in the flags fs or in a pass P is after b.
FlagsUntil(fs, b) == \A i \in DOMAIN fs : fs[i].closedAt <= b
PassUntil(P, b) == P.time <= b /\ \A i \in DOMAIN P.rows : P.rows[i].closedAt <= b

FlagsInv ==
  /\ flags \in Seq(Flags!Flag)
  /\ people \in 0 .. MaxPeople /\ lead \in Sites /\ changes \in 0 .. MaxChanges
  /\ pass = [p \in Passes |-> pass[p]] /\ opened = [p \in Passes |-> opened[p]]
  /\ \A p \in Passes : PassInv(pass[p], flags, opened[p])
  /\ \A p, q \in Passes : p # q => DOMAIN pass[p].rows \intersect DOMAIN pass[q].rows = {}
  /\ \E b \in Nat : FlagsUntil(flags, b) /\ \A p \in Passes : PassUntil(pass[p], b)

\* A set of natural numbers that is not empty has a least member.
LEMMA LeastNat ==
  ASSUME NEW T \in SUBSET Nat, T # {}
  PROVE  \E m \in T : \A n \in T : m <= n
<1> DEFINE R == OpToRel(<, Nat)
<1>1. IsWellFoundedOn(R, Nat)
  BY NatLessThanWellFounded
<1> HIDE DEF R
<1>2. PICK m \in T : \A n \in T : ~(<<n, m>> \in R)
  BY <1>1, WFMin
<1>3. \A n \in T : ~(n < m)
  BY <1>2 DEF R, OpToRel
<1>4. QED
  BY <1>3

\* A set of numbers up to b has a greatest one, the least of its upper bounds.
LEMMA MaxIsGreatest ==
  ASSUME NEW S \in SUBSET Nat, S # {}, NEW b \in Nat, \A n \in S : n <= b
  PROVE  Flags!Max(S) \in S /\ \A n \in S : n <= Flags!Max(S)
<1> DEFINE Above == {n \in Nat : \A k \in S : k <= n}
<1>1. PICK m \in Above : \A n \in Above : m <= n
  BY LeastNat
<1>2. m \in S
  <2> SUFFICES ASSUME m \notin S PROVE FALSE
    OBVIOUS
  <2>1. \A k \in S : k < m /\ k <= m - 1
    BY <1>1
  <2>2. PICK k \in S : TRUE
    OBVIOUS
  <2>3. m - 1 \in Nat
    BY <2>1, <2>2
  <2>4. m - 1 \in Above
    BY <2>1, <2>3
  <2>5. QED
    BY <1>1, <2>4
<1>3. \A n \in S : m >= n
  BY <1>1
<1>4. QED
  BY <1>2, <1>3 DEF Flags!Max

\* The time of a transaction is a number, after that of any flag closed before.
LEMMA LaterThanClosed ==
  ASSUME flags \in Seq(Flags!Flag), NEW b \in Nat, FlagsUntil(flags, b)
  PROVE  Flags!now \in Nat
<1> DEFINE S == {0} \union {flags[i].closedAt : i \in DOMAIN flags}
<1>1. S \in SUBSET Nat /\ S # {}
  <2>1. \A i \in DOMAIN flags : flags[i] \in Flags!Flag
    OBVIOUS
  <2>2. \A i \in DOMAIN flags : flags[i].closedAt \in Nat
    BY <2>1 DEF Flags!Flag
  <2>3. QED
    BY <2>2
<1>2. \A k \in S : k <= b
  BY DEF FlagsUntil
<1>3. Flags!Max(S) \in S
  <2> HIDE DEF S
  <2>1. QED
    BY <1>1, <1>2, MaxIsGreatest
<1>4. Flags!now = 1 + Flags!Max(S)
  BY DEF Flags!now
<1>5. Flags!Max(S) \in Nat
  <2> HIDE DEF S
  <2>1. QED
    BY <1>1, <1>3
<1>6. QED
  BY <1>4, <1>5

\* Rows that keep their number are a sequence of flags if each is a flag.
LEMMA RowsAgain ==
  ASSUME NEW fs \in Seq(Flags!Flag), NEW gs, gs = [i \in DOMAIN fs |-> gs[i]], \A i \in DOMAIN fs : gs[i] \in Flags!Flag
  PROVE  gs \in Seq(Flags!Flag) /\ DOMAIN gs = DOMAIN fs
<1>1. DOMAIN fs = 1 .. Len(fs) /\ Len(fs) \in Nat
  OBVIOUS
<1>2. gs \in [1 .. Len(fs) -> Flags!Flag]
  BY <1>1
<1>3. QED
  BY <1>1, <1>2, SeqDef

\* Flags are closed at a time.
LEMMA CloseAllRows ==
  ASSUME NEW fs \in Seq(Flags!Flag), NEW ids, NEW reason \in Flags!Reasons, NEW time \in Nat
  PROVE  /\ Flags!CloseAll(fs, ids, reason, time) \in Seq(Flags!Flag)
         /\ DOMAIN Flags!CloseAll(fs, ids, reason, time) = DOMAIN fs
         /\ \A i \in DOMAIN fs :
              /\ Flags!CloseAll(fs, ids, reason, time)[i].site = fs[i].site
              /\ Flags!CloseAll(fs, ids, reason, time)[i].people = fs[i].people
              /\ Flags!CloseAll(fs, ids, reason, time)[i].reason = IF i \in ids THEN reason ELSE fs[i].reason
              /\ Flags!CloseAll(fs, ids, reason, time)[i].closedAt = IF i \in ids THEN time ELSE fs[i].closedAt
<1> DEFINE gs == Flags!CloseAll(fs, ids, reason, time)
<1>1. gs = [i \in DOMAIN fs |-> IF i \in ids THEN [fs[i] EXCEPT !.reason = reason, !.closedAt = time] ELSE fs[i]]
  BY DEF Flags!CloseAll
<1>2. \A i \in DOMAIN fs : fs[i] \in Flags!Flag
  OBVIOUS
<1>3. \A i \in DOMAIN fs :
        /\ gs[i] \in Flags!Flag
        /\ gs[i].site = fs[i].site /\ gs[i].people = fs[i].people
        /\ gs[i].reason = IF i \in ids THEN reason ELSE fs[i].reason
        /\ gs[i].closedAt = IF i \in ids THEN time ELSE fs[i].closedAt
  BY <1>1, <1>2 DEF Flags!Flag
<1>4. gs = [i \in DOMAIN fs |-> gs[i]]
  BY <1>1
<1> HIDE DEF gs
<1>5. gs \in Seq(Flags!Flag) /\ DOMAIN gs = DOMAIN fs
  BY <1>3, <1>4, RowsAgain
<1>6. QED
  BY <1>3, <1>5 DEF gs

\* What a pass sees are flags.
LEMMA SeesFlags ==
  ASSUME NEW fs \in Seq(Flags!Flag), NEW P, NEW aside, PassTyped(P, fs, aside)
  PROVE  Sees(P, fs) \in Seq(Flags!Flag) /\ DOMAIN Sees(P, fs) = DOMAIN fs
<1> DEFINE gs == Sees(P, fs)
<1>1. gs = [i \in DOMAIN fs |-> gs[i]] /\ \A i \in DOMAIN fs : gs[i] \in Flags!Flag
  BY DEF Sees, PassTyped
<1> HIDE DEF gs
<1>2. QED
  BY <1>1, RowsAgain DEF gs

LEMMA ViewIsSeen == ASSUME NEW p PROVE Flags!View(p) = Sees(pass[p], flags)
  BY DEF Flags!View, Sees

\* A flag is raised at site s.
LEMMA RaisedRows ==
  ASSUME NEW fs \in Seq(Flags!Flag), NEW s \in Sites, NEW n \in 1 .. MaxPeople
  PROVE  /\ Flags!Raised(fs, s, n) \in Seq(Flags!Flag)
         /\ DOMAIN fs \subseteq DOMAIN Flags!Raised(fs, s, n)
         /\ \A i \in DOMAIN fs :
              /\ Flags!Raised(fs, s, n)[i].site = fs[i].site
              /\ Flags!Raised(fs, s, n)[i].reason = fs[i].reason
              /\ Flags!Raised(fs, s, n)[i].closedAt = fs[i].closedAt
              /\ fs[i].reason = "open" /\ fs[i].site = s => Flags!Raised(fs, s, n)[i].people = n
              /\ fs[i].reason # "open" => Flags!Raised(fs, s, n)[i].people = fs[i].people
         /\ \A i \in DOMAIN Flags!Raised(fs, s, n) \ DOMAIN fs :
              Flags!Raised(fs, s, n)[i] = [site |-> s, reason |-> "open", people |-> n, closedAt |-> 0]
         /\ \E i \in DOMAIN Flags!Raised(fs, s, n) :
              /\ Flags!Raised(fs, s, n)[i].reason = "open"
              /\ Flags!Raised(fs, s, n)[i].site = s
              /\ Flags!Raised(fs, s, n)[i].people = n
<1> DEFINE open == Flags!Open(fs) \intersect Flags!At(fs, s)
           gs == Flags!Raised(fs, s, n)
           flag == [site |-> s, reason |-> "open", people |-> n, closedAt |-> 0]
<1>1. \A i \in DOMAIN fs : fs[i] \in Flags!Flag
  OBVIOUS
<1>2. \A i \in DOMAIN fs : i \in open <=> fs[i].reason = "open" /\ fs[i].site = s
  BY DEF Flags!Open, Flags!At
<1>3. open \subseteq DOMAIN fs
  BY DEF Flags!At
<1>4. CASE open # {}
  <2>1. gs = [i \in DOMAIN fs |-> IF i \in open THEN [fs[i] EXCEPT !.people = n] ELSE fs[i]]
    BY <1>4 DEF Flags!Raised
  <2> HIDE DEF open
  <2>2. \A i \in DOMAIN fs :
          /\ gs[i] \in Flags!Flag /\ gs[i].site = fs[i].site /\ gs[i].reason = fs[i].reason
          /\ gs[i].closedAt = fs[i].closedAt
          /\ i \in open => gs[i].people = n
          /\ i \notin open => gs[i].people = fs[i].people
    BY <1>1, <2>1 DEF Flags!Flag
  <2>3. gs = [i \in DOMAIN fs |-> gs[i]]
    BY <2>1
  <2> HIDE DEF gs
  <2>4. gs \in Seq(Flags!Flag) /\ DOMAIN gs = DOMAIN fs
    BY <2>2, <2>3, RowsAgain
  <2>5. PICK k \in open : k \in DOMAIN gs
    BY <1>3, <1>4, <2>4
  <2>6. gs[k].reason = "open" /\ gs[k].site = s /\ gs[k].people = n
    BY <1>2, <1>3, <2>2, <2>5
  <2>7. QED
    BY <1>2, <2>2, <2>4, <2>5, <2>6 DEF gs
<1>5. CASE open = {}
  <2>1. gs = Append(fs, flag)
    BY <1>5 DEF Flags!Raised
  <2>2. flag \in Flags!Flag
    BY DEF Flags!Flag, Flags!Reasons
  <2> HIDE DEF gs, open
  <2>3. /\ gs \in Seq(Flags!Flag)
        /\ DOMAIN gs = 1 .. (Len(fs) + 1) /\ DOMAIN fs = 1 .. Len(fs) /\ Len(fs) \in Nat
        /\ \A i \in DOMAIN fs : gs[i] = fs[i]
        /\ gs[Len(fs) + 1] = flag
    BY <2>1, <2>2
  <2>4. DOMAIN fs \subseteq DOMAIN gs /\ DOMAIN gs \ DOMAIN fs = {Len(fs) + 1} /\ Len(fs) + 1 \in DOMAIN gs
    BY <2>3
  <2>5. \A i \in DOMAIN fs : ~(fs[i].reason = "open" /\ fs[i].site = s)
    BY <1>2, <1>5
  <2>6. QED
    BY <2>3, <2>4, <2>5 DEF gs
<1>6. QED
  BY <1>4, <1>5

\* What a pass knows stays true when others change the flags fs to gs: they
\* leave the rows it has locked, and what they open is noted beside it.
LEMMA OthersKeep ==
  ASSUME NEW P, NEW fs, NEW gs, NEW aside, NEW beside, PassInv(P, fs, aside),
         DOMAIN fs \subseteq DOMAIN gs, aside \subseteq beside, beside \subseteq DOMAIN gs,
         \A i \in DOMAIN P.rows : gs[i].reason = fs[i].reason /\ (fs[i].reason # "open" => gs[i].people = fs[i].people),
         P.at \in HasLooked =>
           /\ \A i \in DOMAIN gs : gs[i].reason = "open" => i \in beside \/ (i \in DOMAIN fs /\ fs[i].reason = "open")
           /\ \A i \in DOMAIN fs : fs[i].reason = "dismissed" =>
                i \in beside \/ (gs[i].reason = "dismissed" /\ gs[i].people = fs[i].people)
  PROVE  PassInv(P, gs, beside)
<1>1. PassTyped(P, gs, beside)
  BY DEF PassInv, PassTyped
<1>2. RowsAgree(P, gs)
  <2>1. \A i \in DOMAIN P.rows : i \in DOMAIN fs
    BY DEF PassInv, PassTyped
  <2>2. QED
    BY <2>1 DEF PassInv, RowsAgree
<1>3. P.at \in HasLooked => Flags!Open(gs) \ beside \subseteq Flags!Open(fs) \ aside
  BY DEF Flags!Open
<1>4. ASSUME P.at = "weighed", ~P.raises, P.people > 0
      PROVE  \/ beside # {}
             \/ \E i \in DOMAIN gs : Sees(P, gs)[i].reason = "dismissed" /\ Sees(P, gs)[i].people >= P.people
  <2>1. CASE aside # {}
    BY <2>1
  <2>2. CASE \E i \in DOMAIN fs : Sees(P, fs)[i].reason = "dismissed" /\ Sees(P, fs)[i].people >= P.people
    <3>1. PICK i \in DOMAIN fs : Sees(P, fs)[i].reason = "dismissed" /\ Sees(P, fs)[i].people >= P.people
      BY <2>2
    <3>2. i \in DOMAIN gs
      OBVIOUS
    <3>3. CASE i \in DOMAIN P.rows
      <4>1. Sees(P, fs)[i] = P.rows[i] /\ Sees(P, gs)[i] = P.rows[i]
        BY <3>2, <3>3 DEF Sees
      <4>2. QED
        BY <3>1, <3>2, <4>1
    <3>4. CASE i \notin DOMAIN P.rows
      <4>1. Sees(P, fs)[i] = fs[i] /\ Sees(P, gs)[i] = gs[i]
        BY <3>2, <3>4 DEF Sees
      <4>2. i \in beside \/ (gs[i].reason = "dismissed" /\ gs[i].people = fs[i].people)
        BY <1>4, <3>1, <4>1 DEF HasLooked
      <4>3. QED
        BY <3>1, <3>2, <4>1, <4>2
    <3>5. QED
      BY <3>3, <3>4
  <2>3. QED
    BY <1>4, <2>1, <2>2 DEF PassInv, Gathered
<1>5. Gathered(P, gs, beside)
  BY <1>3, <1>4 DEF PassInv, Gathered, HasLooked
<1>6. QED
  BY <1>1, <1>2, <1>5 DEF PassInv

\* A pass that is not under way has nothing, whatever the flags.
LEMMA IdlePass ==
  ASSUME NEW fs, MaxPeople \in Nat
  PROVE  PassInv(Flags!Idle, fs, {}) /\ DOMAIN Flags!Idle.rows = {} /\ \A b \in Nat : PassUntil(Flags!Idle, b)
<1>1. /\ DOMAIN Flags!Idle = PassFields /\ Flags!Idle.at = "idle"
      /\ Flags!Idle.lead = 0 /\ Flags!Idle.people = 0 /\ Flags!Idle.time = 0
      /\ Flags!Idle.seen = {} /\ Flags!Idle.raises \in BOOLEAN
  BY DEF Flags!Idle, PassFields
<1>2. DOMAIN Flags!Idle.rows = {}
  BY DEF Flags!Idle
<1>3. PassTyped(Flags!Idle, fs, {})
  BY <1>1, <1>2 DEF PassTyped, PassPlaces
<1>4. RowsAgree(Flags!Idle, fs) /\ Gathered(Flags!Idle, fs, {}) /\ \A b \in Nat : PassUntil(Flags!Idle, b)
  BY <1>1, <1>2 DEF RowsAgree, Gathered, PassUntil
<1>5. QED
  BY <1>2, <1>3, <1>4 DEF PassInv

\* Pass p takes a step that leaves the flags as they are.
LEMMA PassSteps ==
  ASSUME FlagsInv, NEW p \in Passes, NEW to, pass' = [pass EXCEPT ![p] = to], UNCHANGED <<flags, people, lead, changes>>,
         NEW aside, opened' = [opened EXCEPT ![p] = aside], PassInv(to, flags, aside),
         \A q \in Passes \ {p} : DOMAIN to.rows \intersect DOMAIN pass[q].rows = {},
         NEW b \in Nat, FlagsUntil(flags, b), \A q \in Passes \ {p} : PassUntil(pass[q], b), PassUntil(to, b)
  PROVE  FlagsInv'
<1>1. /\ pass' = [q \in Passes |-> pass'[q]] /\ opened' = [q \in Passes |-> opened'[q]]
      /\ pass'[p] = to /\ opened'[p] = aside
      /\ \A q \in Passes \ {p} : pass'[q] = pass[q] /\ opened'[q] = opened[q]
  BY DEF FlagsInv
<1>2. \A q \in Passes : PassInv(pass'[q], flags', opened'[q])
  BY <1>1 DEF FlagsInv
<1>3. \A q, r \in Passes : q # r => DOMAIN pass'[q].rows \intersect DOMAIN pass'[r].rows = {}
  BY <1>1 DEF FlagsInv
<1>4. FlagsUntil(flags', b) /\ \A q \in Passes : PassUntil(pass'[q], b)
  BY <1>1
<1>5. QED
  BY <1>1, <1>2, <1>3, <1>4 DEF FlagsInv

LEMMA PassBegins ==
  ASSUME Flags!FlagsAssumption, FlagsInv, NEW p \in Passes, Flags!Begin(p)
  PROVE  FlagsInv'
<1> DEFINE to == [Flags!Idle EXCEPT !.at = "read", !.lead = lead, !.people = people]
<1>1. /\ DOMAIN to = PassFields /\ to.at = "read" /\ to.lead = lead /\ to.people = people /\ to.time = 0
      /\ to.seen = {} /\ to.raises \in BOOLEAN
  BY DEF Flags!Idle, PassFields
<1>3. DOMAIN to.rows = {}
  BY DEF Flags!Idle
<1>2. pass' = [pass EXCEPT ![p] = to] /\ UNCHANGED <<flags, people, lead, changes>> /\ opened' = opened
  BY DEF Flags!Begin, Flags!Step
<1> HIDE DEF to
<1>4. PassTyped(to, flags, opened[p])
  BY <1>1, <1>3 DEF PassTyped, PassPlaces, FlagsInv, PassInv
<1>5. PassInv(to, flags, opened[p])
  BY <1>1, <1>3, <1>4 DEF PassInv, RowsAgree, Gathered
<1>6. PICK b \in Nat : FlagsUntil(flags, b) /\ \A q \in Passes : PassUntil(pass[q], b)
  BY DEF FlagsInv
<1>7. PassUntil(to, b)
  BY <1>1, <1>3 DEF PassUntil
<1>8. opened' = [opened EXCEPT ![p] = opened[p]]
  BY <1>2 DEF FlagsInv
<1>9. QED
  BY <1>2, <1>3, <1>5, <1>6, <1>7, <1>8, PassSteps

\* The transaction takes its time, which may be a new bound of those there are.
LEMMA PassLooks ==
  ASSUME FlagsInv, NEW p \in Passes, Flags!Look(p)
  PROVE  FlagsInv'
<1> DEFINE P == pass[p]
           held == Flags!Held(flags)
           to == [P EXCEPT !.at = "moving", !.time = Flags!now, !.seen = held]
<1>1. P.at = "read" /\ pass' = [pass EXCEPT ![p] = to] /\ UNCHANGED <<flags, people, lead, changes>> /\ opened' = opened
  BY DEF Flags!Look, Flags!Step
<1>2. PassInv(P, flags, opened[p]) /\ DOMAIN P = PassFields /\ flags \in Seq(Flags!Flag)
  BY DEF FlagsInv, PassInv, PassTyped
<1>3. PICK b \in Nat : FlagsUntil(flags, b) /\ \A q \in Passes : PassUntil(pass[q], b)
  BY DEF FlagsInv
<1>4. Flags!now \in Nat
  BY <1>2, <1>3, LaterThanClosed
<1>5. held \subseteq DOMAIN flags
  BY DEF Flags!Held
<1> HIDE DEF held
<1>6. /\ DOMAIN to = PassFields /\ to.at = "moving" /\ to.lead = P.lead /\ to.people = P.people
      /\ to.time = Flags!now /\ to.seen = held /\ to.rows = P.rows /\ to.raises = P.raises
  <2> HIDE DEF P
  <2>1. QED
    BY <1>2 DEF PassFields
<1> HIDE DEF to
<1>7. DOMAIN P.rows = {}
  BY <1>1, <1>2 DEF PassInv, RowsAgree
<1>8. PassTyped(to, flags, opened[p])
  BY <1>1, <1>2, <1>4, <1>5, <1>6 DEF PassInv, PassTyped, PassPlaces
<1>9. PassInv(to, flags, opened[p])
  BY <1>6, <1>7, <1>8 DEF PassInv, RowsAgree, Gathered
<1>10. PICK c \in Nat : b <= c /\ Flags!now <= c
  <2>1. b + Flags!now \in Nat /\ b <= b + Flags!now /\ Flags!now <= b + Flags!now
    BY <1>4
  <2>2. QED
    BY <2>1
<1>11. FlagsUntil(flags, c) /\ (\A q \in Passes \ {p} : PassUntil(pass[q], c)) /\ PassUntil(to, c)
  <2>1. \A i \in DOMAIN flags : flags[i].closedAt \in Nat
    <3>1. \A i \in DOMAIN flags : flags[i] \in Flags!Flag
      BY <1>2
    <3>2. QED
      BY <3>1 DEF Flags!Flag
  <2>2. FlagsUntil(flags, c)
    BY <1>3, <1>10, <2>1 DEF FlagsUntil
  <2>3. ASSUME NEW q \in Passes PROVE PassUntil(pass[q], c)
    <3>1. pass[q].time \in Nat /\ \A i \in DOMAIN pass[q].rows : pass[q].rows[i] \in Flags!Flag
      BY DEF FlagsInv, PassInv, PassTyped
    <3>2. \A i \in DOMAIN pass[q].rows : pass[q].rows[i].closedAt \in Nat
      BY <3>1 DEF Flags!Flag
    <3>3. QED
      BY <1>3, <1>10, <3>1, <3>2 DEF PassUntil
  <2>4. PassUntil(to, c)
    BY <1>6, <1>7, <1>10 DEF PassUntil
  <2>5. QED
    BY <2>2, <2>3, <2>4
<1>12. opened' = [opened EXCEPT ![p] = opened[p]]
  BY <1>1 DEF FlagsInv
<1>13. \A q \in Passes \ {p} : DOMAIN to.rows \intersect DOMAIN pass[q].rows = {}
  BY <1>6, <1>7
<1>14. FlagsInv'
  BY <1>1, <1>9, <1>11, <1>12, <1>13, PassSteps
<1>15. QED
  BY <1>14

\* Moving flags opens none, and touches a dismissal no more than in its site.
LEMMA MovedRows ==
  ASSUME NEW fs \in Seq(Flags!Flag), NEW plan, NEW s \in Sites, NEW time \in Nat,
         plan.resolved \subseteq Flags!Open(fs)
  PROVE  \A i \in DOMAIN fs :
           /\ Flags!moveFlags(fs, plan, s, time)[i] \in Flags!Flag
           /\ Flags!moveFlags(fs, plan, s, time)[i].reason = "open" => fs[i].reason = "open"
           /\ fs[i].reason = "dismissed" =>
                /\ Flags!moveFlags(fs, plan, s, time)[i].reason = "dismissed"
                /\ Flags!moveFlags(fs, plan, s, time)[i].people = fs[i].people
           /\ Flags!moveFlags(fs, plan, s, time)[i].closedAt \in {fs[i].closedAt, time}
<1> DEFINE ids == plan.resolved
           closed == Flags!CloseAll(fs, ids, "evidenceGone", time)
           moved == [i \in DOMAIN fs |-> IF i \in plan.rewrites THEN [closed[i] EXCEPT !.site = s] ELSE closed[i]]
<1>1. Flags!moveFlags(fs, plan, s, time) = moved
  BY DEF Flags!moveFlags
<1>2. \A i \in ids : fs[i].reason = "open"
  BY DEF Flags!Open
<1> HIDE DEF ids, moved
<1>3. /\ closed \in Seq(Flags!Flag) /\ DOMAIN closed = DOMAIN fs
      /\ \A i \in DOMAIN fs :
           /\ closed[i].people = fs[i].people
           /\ closed[i].reason = IF i \in ids THEN "evidenceGone" ELSE fs[i].reason
           /\ closed[i].closedAt = IF i \in ids THEN time ELSE fs[i].closedAt
  <2>1. "evidenceGone" \in Flags!Reasons
    BY DEF Flags!Reasons
  <2>2. /\ Flags!CloseAll(fs, ids, "evidenceGone", time) \in Seq(Flags!Flag)
        /\ DOMAIN Flags!CloseAll(fs, ids, "evidenceGone", time) = DOMAIN fs
        /\ \A i \in DOMAIN fs :
             /\ Flags!CloseAll(fs, ids, "evidenceGone", time)[i].people = fs[i].people
             /\ Flags!CloseAll(fs, ids, "evidenceGone", time)[i].reason = IF i \in ids THEN "evidenceGone" ELSE fs[i].reason
             /\ Flags!CloseAll(fs, ids, "evidenceGone", time)[i].closedAt = IF i \in ids THEN time ELSE fs[i].closedAt
    BY <2>1, CloseAllRows
  <2>3. QED
    BY <2>2
<1> HIDE DEF closed
<1>4. \A i \in DOMAIN fs : closed[i] \in Flags!Flag
  BY <1>3
<1>5. \A i \in DOMAIN fs :
        /\ moved[i] \in Flags!Flag
        /\ moved[i].people = closed[i].people /\ moved[i].reason = closed[i].reason
        /\ moved[i].closedAt = closed[i].closedAt
  BY <1>4 DEF Flags!Flag, moved
<1>6. QED
  BY <1>1, <1>2, <1>3, <1>5

LEMMA PassMoves ==
  ASSUME FlagsInv, NEW p \in Passes, Flags!Move(p)
  PROVE  FlagsInv'
<1> DEFINE P == pass[p]
           held == P.seen \intersect Flags!Held(flags)
           plan == Flags!planFlagMoves(flags, held, P.lead)
           moved == Flags!moveFlags(flags, plan, P.lead, P.time)
           rows == Flags!Holding(p, held, moved)
           to == [P EXCEPT !.at = "moved", !.seen = {}, !.rows = rows]
<1>1. /\ P.at = "moving" /\ pass' = [pass EXCEPT ![p] = to]
      /\ UNCHANGED <<flags, people, lead, changes>> /\ opened' = opened
      /\ Flags!Free(p, P.seen)
  BY DEF Flags!Move, Flags!Step
<1>2. /\ PassInv(P, flags, opened[p]) /\ DOMAIN P = PassFields /\ flags \in Seq(Flags!Flag)
      /\ P.lead \in Sites /\ P.time \in Nat /\ DOMAIN P.rows = {}
  BY <1>1 DEF FlagsInv, PassInv, PassTyped, RowsAgree
<1>3. held \subseteq DOMAIN flags
  BY DEF Flags!Held
<1>4. plan.resolved \subseteq Flags!Open(flags)
  BY DEF Flags!planFlagMoves
<1>5. DOMAIN rows = held /\ \A i \in held : rows[i] = moved[i]
  BY <1>2 DEF Flags!Holding
<1> HIDE DEF rows, held, plan, moved
<1>6. /\ DOMAIN to = PassFields /\ to.at = "moved" /\ to.lead = P.lead /\ to.people = P.people
      /\ to.time = P.time /\ to.seen = {} /\ to.rows = rows /\ to.raises = P.raises
  <2> HIDE DEF P
  <2>1. QED
    BY <1>2 DEF PassFields
<1> HIDE DEF to
<1>7. \A i \in DOMAIN flags :
        /\ moved[i] \in Flags!Flag
        /\ moved[i].reason = "open" => flags[i].reason = "open"
        /\ flags[i].reason = "dismissed" => moved[i].reason = "dismissed" /\ moved[i].people = flags[i].people
        /\ moved[i].closedAt \in {flags[i].closedAt, P.time}
  BY <1>2, <1>4, MovedRows DEF moved
<1>8. PassTyped(to, flags, opened[p])
  BY <1>2, <1>3, <1>5, <1>6, <1>7 DEF PassInv, PassTyped, PassPlaces
<1>9. RowsAgree(to, flags) /\ Gathered(to, flags, opened[p])
  BY <1>3, <1>5, <1>6, <1>7 DEF RowsAgree, Gathered
<1>10. PICK b \in Nat : FlagsUntil(flags, b) /\ \A q \in Passes : PassUntil(pass[q], b)
  BY DEF FlagsInv
<1>11. PassUntil(to, b)
  BY <1>3, <1>5, <1>6, <1>7, <1>10 DEF PassUntil, FlagsUntil
<1>12. \A q \in Passes \ {p} : DOMAIN to.rows \intersect DOMAIN pass[q].rows = {}
  <2>1. held \subseteq P.seen
    BY DEF held
  <2>2. QED
    BY <1>1, <1>5, <1>6, <2>1 DEF Flags!Free
<1>13. opened' = [opened EXCEPT ![p] = opened[p]]
  BY <1>1 DEF FlagsInv
<1>14. QED
  BY <1>1, <1>8, <1>9, <1>10, <1>11, <1>12, <1>13, PassSteps DEF PassInv

\* What pass p sees of a flag: its row if it has locked it, else the committed one.
LEMMA ViewRows ==
  ASSUME NEW p
  PROVE  /\ DOMAIN Flags!View(p) = DOMAIN flags
         /\ \A i \in DOMAIN flags : /\ i \in DOMAIN pass[p].rows => Flags!View(p)[i] = pass[p].rows[i]
                                    /\ i \notin DOMAIN pass[p].rows => Flags!View(p)[i] = flags[i]
  BY DEF Flags!View

LEMMA PassLooksAgain ==
  ASSUME FlagsInv, NEW p \in Passes, Flags!LookAgain(p)
  PROVE  FlagsInv'
<1> DEFINE P == pass[p]
           open == Flags!Open(Flags!View(p))
           to == [P EXCEPT !.at = "closing", !.seen = open]
<1>1. /\ P.at = "moved" /\ pass' = [pass EXCEPT ![p] = to]
      /\ UNCHANGED <<flags, people, lead, changes>> /\ opened' = [opened EXCEPT ![p] = {}]
  BY DEF Flags!LookAgain, Flags!Step
<1>2. PassInv(P, flags, opened[p]) /\ DOMAIN P = PassFields
  BY DEF FlagsInv, PassInv, PassTyped
<1>3. /\ open \subseteq DOMAIN flags
      /\ Flags!Open(flags) \subseteq open \union DOMAIN P.rows
      /\ OpenRows(P) \subseteq open
  <2>1. DOMAIN P.rows \subseteq DOMAIN flags
    BY <1>2 DEF PassInv, PassTyped
  <2>2. QED
    BY <2>1, ViewRows DEF Flags!Open, OpenRows
<1> HIDE DEF open
<1>4. /\ DOMAIN to = PassFields /\ to.at = "closing" /\ to.lead = P.lead /\ to.people = P.people
      /\ to.time = P.time /\ to.seen = open /\ to.rows = P.rows /\ to.raises = P.raises
  <2> HIDE DEF P
  <2>1. QED
    BY <1>2 DEF PassFields
<1> HIDE DEF to
<1>5. PassTyped(to, flags, {})
  BY <1>1, <1>2, <1>3, <1>4 DEF PassInv, PassTyped, PassPlaces
<1>6. RowsAgree(to, flags)
  BY <1>2, <1>4 DEF PassInv, RowsAgree
<1>7. Gathered(to, flags, {})
  BY <1>3, <1>4 DEF Gathered, OpenRows
<1>8. PICK b \in Nat : FlagsUntil(flags, b) /\ \A q \in Passes : PassUntil(pass[q], b)
  BY DEF FlagsInv
<1>9. PassUntil(to, b)
  BY <1>4, <1>8 DEF PassUntil
<1>10. \A q \in Passes \ {p} : DOMAIN to.rows \intersect DOMAIN pass[q].rows = {}
  BY <1>4 DEF FlagsInv
<1>11. QED
  BY <1>1, <1>5, <1>6, <1>7, <1>8, <1>9, <1>10, PassSteps DEF PassInv

\* What a pass has found and holds open is at its lead once the stale flags are
\* closed; an open one that it has not found was opened beside it.
LEMMA PassCloses ==
  ASSUME FlagsInv, NEW p \in Passes, Flags!Close(p)
  PROVE  FlagsInv'
<1> DEFINE P == pass[p]
           view == Flags!View(p)
           found == P.seen \intersect Flags!Open(view)
           stale == {i \in found : P.people = 0 \/ view[i].site # P.lead}
           kept == Flags!WithoutStale(view, found, P.lead, P.people, P.time)
           rows == Flags!Holding(p, found, kept)
           to == [P EXCEPT !.at = "closed", !.seen = found, !.rows = rows]
<1>1. /\ P.at = "closing" /\ pass' = [pass EXCEPT ![p] = to]
      /\ UNCHANGED <<flags, people, lead, changes>> /\ opened' = opened
      /\ Flags!Free(p, P.seen)
  BY DEF Flags!Close, Flags!Step
<1>2. /\ PassInv(P, flags, opened[p]) /\ DOMAIN P = PassFields /\ flags \in Seq(Flags!Flag)
      /\ P.lead \in Sites /\ P.time \in Nat /\ P.people \in Nat
      /\ DOMAIN P.rows \subseteq DOMAIN flags
  BY <1>1 DEF FlagsInv, PassInv, PassTyped
<1>3. /\ view \in Seq(Flags!Flag) /\ DOMAIN view = DOMAIN flags
      /\ \A i \in DOMAIN flags : /\ i \in DOMAIN P.rows => view[i] = P.rows[i]
                                 /\ i \notin DOMAIN P.rows => view[i] = flags[i]
  BY <1>2, SeesFlags, ViewIsSeen, ViewRows DEF PassInv
<1> HIDE DEF view
<1>4. found \subseteq DOMAIN flags /\ found \subseteq P.seen /\ \A i \in P.seen : i \in found <=> view[i].reason = "open"
  BY <1>2, <1>3 DEF Flags!Open, PassInv, PassTyped
<1> HIDE DEF found
<1>5. /\ kept \in Seq(Flags!Flag) /\ DOMAIN kept = DOMAIN flags
      /\ \A i \in DOMAIN flags :
           /\ kept[i].site = view[i].site /\ kept[i].people = view[i].people
           /\ kept[i].reason = IF i \in stale THEN "evidenceGone" ELSE view[i].reason
           /\ kept[i].closedAt = IF i \in stale THEN P.time ELSE view[i].closedAt
  <2>1. kept = Flags!CloseAll(view, stale, "evidenceGone", P.time)
    BY DEF Flags!WithoutStale
  <2>2. "evidenceGone" \in Flags!Reasons
    BY DEF Flags!Reasons
  <2> HIDE DEF stale, kept
  <2>3. QED
    BY <1>2, <1>3, <2>1, <2>2, CloseAllRows
<1> HIDE DEF kept
<1>6. DOMAIN rows = DOMAIN P.rows \union found /\ \A i \in DOMAIN rows : rows[i] = kept[i]
  BY DEF Flags!Holding
<1> HIDE DEF rows
<1>7. /\ DOMAIN to = PassFields /\ to.at = "closed" /\ to.lead = P.lead /\ to.people = P.people
      /\ to.time = P.time /\ to.seen = found /\ to.rows = rows /\ to.raises = P.raises
  <2> HIDE DEF P
  <2>1. QED
    BY <1>2 DEF PassFields
<1> HIDE DEF to
<1>8. PassTyped(to, flags, opened[p])
  <2>1. \A i \in DOMAIN rows : rows[i] \in Flags!Flag
    BY <1>2, <1>4, <1>5, <1>6
  <2>2. QED
    BY <1>1, <1>2, <1>4, <1>6, <1>7, <2>1 DEF PassInv, PassTyped, PassPlaces
<1>9. \A i \in DOMAIN rows : view[i].reason # "open" => rows[i].reason = view[i].reason /\ rows[i].people = view[i].people
  BY <1>2, <1>4, <1>5, <1>6
<1>10. \A i \in DOMAIN rows : rows[i].reason = "open" => view[i].reason = "open" /\ i \notin stale /\ rows[i].site = view[i].site
  BY <1>2, <1>4, <1>5, <1>6
<1>11. RowsAgree(to, flags)
  <2>1. \A i \in DOMAIN flags :
          /\ view[i].reason = "open" => flags[i].reason = "open"
          /\ flags[i].reason = "dismissed" => view[i].reason = "dismissed" /\ view[i].people = flags[i].people
    BY <1>2, <1>3 DEF PassInv, RowsAgree
  <2>2. DOMAIN rows \subseteq DOMAIN flags
    BY <1>2, <1>4, <1>6
  <2>3. QED
    BY <1>7, <1>9, <1>10, <2>1, <2>2 DEF RowsAgree
<1>12. OpenRows(to) \subseteq found
  <2> SUFFICES ASSUME NEW i \in DOMAIN rows, rows[i].reason = "open" PROVE i \in found
    BY <1>7 DEF OpenRows
  <2>1. view[i].reason = "open"
    BY <1>10
  <2>2. CASE i \in DOMAIN P.rows
    <3>1. i \in OpenRows(P)
      BY <1>2, <1>3, <2>1, <2>2 DEF OpenRows
    <3>2. i \in P.seen
      BY <1>1, <1>2, <3>1 DEF PassInv, Gathered
    <3>3. QED
      BY <1>4, <2>1, <3>2
  <2>3. QED
    BY <1>6, <2>2
<1>13. Flags!Open(flags) \ opened[p] \subseteq DOMAIN rows
  <2> SUFFICES ASSUME NEW i \in Flags!Open(flags) \ opened[p], i \notin DOMAIN P.rows PROVE i \in found
    BY <1>6
  <2>1. i \in DOMAIN flags /\ flags[i].reason = "open"
    BY DEF Flags!Open
  <2>2. i \in P.seen
    BY <1>1, <1>2 DEF PassInv, Gathered
  <2>3. QED
    BY <1>3, <1>4, <2>1, <2>2
<1>14. \A i \in OpenRows(to) : rows[i].site = P.lead /\ P.people > 0
  BY <1>2, <1>7, <1>10, <1>12 DEF OpenRows
<1>15. Gathered(to, flags, opened[p])
  BY <1>7, <1>12, <1>13, <1>14 DEF Gathered
<1>16. PICK b \in Nat : FlagsUntil(flags, b) /\ \A q \in Passes : PassUntil(pass[q], b)
  BY DEF FlagsInv
<1>17. PassUntil(to, b)
  <2>1. \A i \in DOMAIN flags : view[i].closedAt <= b
    BY <1>3, <1>16 DEF FlagsUntil, PassUntil
  <2>2. P.time <= b
    BY <1>16 DEF PassUntil
  <2>3. QED
    BY <1>2, <1>4, <1>5, <1>6, <1>7, <2>1, <2>2 DEF PassUntil
<1>18. \A q \in Passes \ {p} : DOMAIN to.rows \intersect DOMAIN pass[q].rows = {}
  BY <1>1, <1>4, <1>6, <1>7 DEF FlagsInv, Flags!Free
<1>19. opened' = [opened EXCEPT ![p] = opened[p]]
  BY <1>1 DEF FlagsInv
<1>20. QED
  BY <1>1, <1>8, <1>11, <1>15, <1>16, <1>17, <1>18, <1>19, PassSteps DEF PassInv

\* A pass that is not going to raise a flag has no evidence, or has found none
\* open and the latest closed one a dismissal of as many people.
LEMMA PassWeighs ==
  ASSUME FlagsInv, NEW p \in Passes, Flags!Weigh(p)
  PROVE  FlagsInv'
<1> DEFINE P == pass[p]
           view == Flags!View(p)
           n == P.people
           latest == Flags!LatestClosed(view, Flags!At(view, P.lead))
           found == Flags!Open(view) \intersect P.seen
<1>1. PICK isWorth \in IF latest = {} THEN {TRUE} ELSE {Flags!isWorthOpening(view[i], n) : i \in latest} :
        pass' = [pass EXCEPT ![p] =
          [P EXCEPT !.at = "weighed", !.seen = {}, !.raises = n > 0 /\ (found # {} \/ isWorth)]]
  BY DEF Flags!Weigh, Flags!Step
<1> DEFINE raises == n > 0 /\ (found # {} \/ isWorth)
           to == [P EXCEPT !.at = "weighed", !.seen = {}, !.raises = raises]
<1>2. /\ P.at = "closed" /\ pass' = [pass EXCEPT ![p] = to]
      /\ UNCHANGED <<flags, people, lead, changes>> /\ opened' = opened
  BY <1>1 DEF Flags!Weigh, Flags!Step
<1>3. /\ PassInv(P, flags, opened[p]) /\ DOMAIN P = PassFields /\ flags \in Seq(Flags!Flag)
      /\ P.people \in Nat /\ DOMAIN P.rows \subseteq DOMAIN flags
  BY <1>2 DEF FlagsInv, PassInv, PassTyped
<1>4. /\ view \in Seq(Flags!Flag) /\ DOMAIN view = DOMAIN flags /\ view = Sees(P, flags)
      /\ \A i \in DOMAIN flags : i \in DOMAIN P.rows => view[i] = P.rows[i]
  BY <1>3, SeesFlags, ViewIsSeen, ViewRows DEF PassInv
<1>5. /\ OpenRows(P) \subseteq P.seen
      /\ Flags!Open(flags) \ opened[p] \subseteq DOMAIN P.rows
      /\ \A i \in OpenRows(P) : P.rows[i].site = P.lead /\ P.people > 0
  BY <1>2, <1>3 DEF PassInv, Gathered
<1> HIDE DEF view
<1>6. ASSUME ~raises
      PROVE  /\ OpenRows(P) = {}
             /\ n > 0 => \E i \in DOMAIN flags : view[i].reason = "dismissed" /\ view[i].people >= n
  <2>1. CASE n = 0
    BY <1>5, <2>1
  <2>2. CASE n > 0
    <3>1. found = {} /\ ~isWorth
      BY <1>6, <2>2
    <3>2. OpenRows(P) = {}
      BY <1>3, <1>4, <1>5, <3>1 DEF OpenRows, Flags!Open
    <3>3. latest # {}
      BY <1>1, <3>1
    <3>4. PICK i \in latest : ~Flags!isWorthOpening(view[i], n)
      BY <1>1, <3>1, <3>3
    <3>5. i \in DOMAIN view /\ view[i].reason = "dismissed" /\ ~(n > view[i].people)
      BY <3>4 DEF Flags!isWorthOpening, Flags!isWorthRaisingAgain, Flags!LatestClosed, Flags!At
    <3>6. view[i].people \in Nat
      <4>1. view[i] \in Flags!Flag
        BY <1>4, <3>5
      <4>2. QED
        BY <4>1 DEF Flags!Flag
    <3>7. QED
      BY <1>3, <1>4, <3>2, <3>5, <3>6
  <2>3. QED
    BY <1>3, <2>1, <2>2
<1>7. raises => n > 0
  OBVIOUS
<1>8. raises \in BOOLEAN
  OBVIOUS
<1> HIDE DEF raises
<1>9. /\ DOMAIN to = PassFields /\ to.at = "weighed" /\ to.lead = P.lead /\ to.people = P.people
      /\ to.time = P.time /\ to.seen = {} /\ to.rows = P.rows /\ to.raises = raises
  <2> HIDE DEF P
  <2>1. QED
    BY <1>3 DEF PassFields
<1> HIDE DEF to
<1>10. PassTyped(to, flags, opened[p])
  BY <1>2, <1>3, <1>8, <1>9 DEF PassInv, PassTyped, PassPlaces
<1>11. RowsAgree(to, flags)
  BY <1>3, <1>9 DEF PassInv, RowsAgree
<1>12. Gathered(to, flags, opened[p])
  <2>1. OpenRows(to) = OpenRows(P) /\ Sees(to, flags) = view
    BY <1>4, <1>9 DEF OpenRows, Sees
  <2>2. QED
    BY <1>5, <1>6, <1>7, <1>9, <2>1 DEF Gathered
<1>13. PICK b \in Nat : FlagsUntil(flags, b) /\ \A q \in Passes : PassUntil(pass[q], b)
  BY DEF FlagsInv
<1>14. PassUntil(to, b)
  BY <1>9, <1>13 DEF PassUntil
<1>15. \A q \in Passes \ {p} : DOMAIN to.rows \intersect DOMAIN pass[q].rows = {}
  BY <1>9 DEF FlagsInv
<1>16. opened' = [opened EXCEPT ![p] = opened[p]]
  BY <1>2 DEF FlagsInv
<1>17. QED
  BY <1>2, <1>10, <1>11, <1>12, <1>13, <1>14, <1>15, <1>16, PassSteps DEF PassInv

LEMMA PassFails ==
  ASSUME Flags!FlagsAssumption, FlagsInv, NEW p \in Passes, Flags!Fail(p)
  PROVE  FlagsInv'
<1>1. /\ pass' = [pass EXCEPT ![p] = Flags!Idle] /\ UNCHANGED <<flags, people, lead, changes>>
      /\ opened' = [opened EXCEPT ![p] = {}]
  BY DEF Flags!Fail, Flags!Step
<1>2. /\ PassInv(Flags!Idle, flags, {}) /\ DOMAIN Flags!Idle.rows = {}
      /\ \A b \in Nat : PassUntil(Flags!Idle, b)
  BY IdlePass DEF Flags!FlagsAssumption
<1>3. PICK b \in Nat : FlagsUntil(flags, b) /\ \A q \in Passes : PassUntil(pass[q], b)
  BY DEF FlagsInv
<1>4. QED
  BY <1>1, <1>2, <1>3, PassSteps

\* A pass commits: its rows and the flag it raises are there, what it has left
\* alone is as it was.
LEMMA CommittedRows ==
  ASSUME Flags!FlagsAssumption, FlagsInv, NEW p \in Passes, Flags!Commit(p)
  PROVE  /\ flags' \in Seq(Flags!Flag) /\ DOMAIN flags \subseteq DOMAIN flags'
         /\ \A i \in DOMAIN flags :
              /\ flags'[i].reason = Flags!View(p)[i].reason
              /\ flags'[i].site = Flags!View(p)[i].site
              /\ flags'[i].closedAt = Flags!View(p)[i].closedAt
              /\ Flags!View(p)[i].reason # "open" => flags'[i].people = Flags!View(p)[i].people
              /\ pass[p].raises /\ Flags!View(p)[i].reason = "open" /\ Flags!View(p)[i].site = pass[p].lead
                   => flags'[i].people = pass[p].people
         /\ \A i \in DOMAIN flags' \ DOMAIN flags :
              /\ pass[p].raises
              /\ flags'[i] = [site |-> pass[p].lead, reason |-> "open", people |-> pass[p].people, closedAt |-> 0]
         /\ pass[p].raises => \E i \in DOMAIN flags' : /\ flags'[i].reason = "open" /\ flags'[i].site = pass[p].lead
                                                       /\ flags'[i].people = pass[p].people
<1> DEFINE P == pass[p]
           view == Flags!View(p)
<1>1. P.at = "weighed" /\ flags' = IF P.raises THEN Flags!Raised(view, P.lead, P.people) ELSE view
  BY DEF Flags!Commit, Flags!Step
<1>2. /\ PassInv(P, flags, opened[p]) /\ flags \in Seq(Flags!Flag)
      /\ P.lead \in Sites /\ P.people \in 0 .. MaxPeople
  BY <1>1 DEF FlagsInv, PassInv, PassTyped
<1>3. view \in Seq(Flags!Flag) /\ DOMAIN view = DOMAIN flags
  BY <1>2, SeesFlags, ViewIsSeen DEF PassInv
<1> HIDE DEF view
<1>4. CASE P.raises
  <2>1. P.people \in 1 .. MaxPeople
    BY <1>1, <1>2, <1>4 DEF PassInv, Gathered, Flags!FlagsAssumption
  <2>2. flags' = Flags!Raised(view, P.lead, P.people)
    BY <1>1, <1>4
  <2> DEFINE s == P.lead
             n == P.people
  <2>3. s \in Sites /\ n \in 1 .. MaxPeople /\ flags' = Flags!Raised(view, s, n)
    BY <1>2, <2>1, <2>2
  <2> HIDE DEF s, n
  <2>4. /\ flags' \in Seq(Flags!Flag) /\ DOMAIN view \subseteq DOMAIN flags'
        /\ \A i \in DOMAIN view :
             /\ flags'[i].site = view[i].site /\ flags'[i].reason = view[i].reason
             /\ flags'[i].closedAt = view[i].closedAt
             /\ view[i].reason = "open" /\ view[i].site = s => flags'[i].people = n
             /\ view[i].reason # "open" => flags'[i].people = view[i].people
        /\ \A i \in DOMAIN flags' \ DOMAIN view :
             flags'[i] = [site |-> s, reason |-> "open", people |-> n, closedAt |-> 0]
        /\ \E i \in DOMAIN flags' : flags'[i].reason = "open" /\ flags'[i].site = s /\ flags'[i].people = n
    BY <1>3, <2>3, RaisedRows
  <2>5. QED
    BY <1>3, <1>4, <2>4 DEF s, n, view
<1>5. CASE ~P.raises
  BY <1>1, <1>3, <1>5 DEF view
<1>6. QED
  BY <1>4, <1>5

\* The commit of a pass leaves what the others have locked, and notes for those
\* that have looked the flag it opens.
LEMMA PassCommits ==
  ASSUME Flags!FlagsAssumption, FlagsInv, NEW p \in Passes, Flags!Commit(p)
  PROVE  FlagsInv'
<1> DEFINE P == pass[p]
           view == Flags!View(p)
<1>1. /\ P.at = "weighed" /\ pass' = [pass EXCEPT ![p] = Flags!Idle] /\ UNCHANGED <<people, lead, changes>>
      /\ opened' = [q \in Passes |->
           CASE q = p -> {}
             [] q \in Flags!HaveLooked \ {p} -> opened[q] \union (DOMAIN flags' \ DOMAIN flags)
             [] OTHER -> opened[q]]
  BY DEF Flags!Commit, Flags!Step
<1>2. /\ PassInv(P, flags, opened[p]) /\ DOMAIN P.rows \subseteq DOMAIN flags
      /\ \A i \in DOMAIN flags : /\ i \in DOMAIN P.rows => view[i] = P.rows[i]
                                 /\ i \notin DOMAIN P.rows => view[i] = flags[i]
  BY ViewRows DEF FlagsInv, PassInv, PassTyped
<1>3. \A i \in DOMAIN flags :
        /\ view[i].reason = "open" => flags[i].reason = "open"
        /\ flags[i].reason = "dismissed" => view[i].reason = "dismissed" /\ view[i].people = flags[i].people
  BY <1>2 DEF PassInv, RowsAgree
<1>4. /\ flags' \in Seq(Flags!Flag) /\ DOMAIN flags \subseteq DOMAIN flags'
      /\ \A i \in DOMAIN flags :
           /\ flags'[i].reason = view[i].reason /\ flags'[i].closedAt = view[i].closedAt
           /\ view[i].reason # "open" => flags'[i].people = view[i].people
      /\ \A i \in DOMAIN flags' \ DOMAIN flags : flags'[i].closedAt = 0
  BY CommittedRows
<1> HIDE DEF view
<1>5. /\ pass' = [q \in Passes |-> pass'[q]] /\ opened' = [q \in Passes |-> opened'[q]]
      /\ pass'[p] = Flags!Idle /\ opened'[p] = {}
      /\ \A q \in Passes \ {p} : pass'[q] = pass[q]
  BY <1>1 DEF FlagsInv
<1>6. ASSUME NEW q \in Passes \ {p} PROVE PassInv(pass[q], flags', opened'[q])
  <2> DEFINE Q == pass[q]
  <2>1. PassInv(Q, flags, opened[q]) /\ DOMAIN Q.rows \subseteq DOMAIN flags /\ opened[q] \subseteq DOMAIN flags
    BY DEF FlagsInv, PassInv, PassTyped
  <2>2. \A i \in DOMAIN Q.rows : view[i] = flags[i]
    BY <1>2, <2>1 DEF FlagsInv
  <2>3. \/ opened'[q] = opened[q]
        \/ opened'[q] = opened[q] \union (DOMAIN flags' \ DOMAIN flags)
    BY <1>1
  <2>4. Q.at \in HasLooked => opened'[q] = opened[q] \union (DOMAIN flags' \ DOMAIN flags)
    BY <1>1 DEF Flags!HaveLooked, HasLooked
  <2>5. opened[q] \subseteq opened'[q] /\ opened'[q] \subseteq DOMAIN flags'
    BY <1>4, <2>1, <2>3
  <2>6. \A i \in DOMAIN Q.rows : /\ flags'[i].reason = flags[i].reason
                                 /\ flags[i].reason # "open" => flags'[i].people = flags[i].people
    BY <1>4, <2>1, <2>2
  <2>7. Q.at \in HasLooked =>
          /\ \A i \in DOMAIN flags' :
               flags'[i].reason = "open" => i \in opened'[q] \/ (i \in DOMAIN flags /\ flags[i].reason = "open")
          /\ \A i \in DOMAIN flags : flags[i].reason = "dismissed" =>
               i \in opened'[q] \/ (flags'[i].reason = "dismissed" /\ flags'[i].people = flags[i].people)
    BY <1>3, <1>4, <2>4
  <2> HIDE DEF Q
  <2>8. PassInv(Q, flags', opened'[q])
    BY <1>4, <2>1, <2>5, <2>6, <2>7, OthersKeep
  <2>9. QED
    BY <2>8 DEF Q
<1>7. /\ PassInv(Flags!Idle, flags', {}) /\ DOMAIN Flags!Idle.rows = {}
      /\ \A b \in Nat : PassUntil(Flags!Idle, b)
  BY IdlePass DEF Flags!FlagsAssumption
<1>8. \A q \in Passes : PassInv(pass'[q], flags', opened'[q])
  BY <1>5, <1>6, <1>7
<1>9. \A q, r \in Passes : q # r => DOMAIN pass'[q].rows \intersect DOMAIN pass'[r].rows = {}
  BY <1>5, <1>7 DEF FlagsInv
<1>10. PICK b \in Nat : FlagsUntil(flags, b) /\ \A q \in Passes : PassUntil(pass[q], b)
  BY DEF FlagsInv
<1>11. FlagsUntil(flags', b)
  <2>1. \A i \in DOMAIN flags : view[i].closedAt <= b
    BY <1>2, <1>10 DEF FlagsUntil, PassUntil
  <2>2. QED
    BY <1>4, <1>10, <2>1 DEF FlagsUntil
<1>12. \A q \in Passes : PassUntil(pass'[q], b)
  BY <1>5, <1>7, <1>10
<1>13. people' \in 0 .. MaxPeople /\ lead' \in Sites /\ changes' \in 0 .. MaxChanges
  BY <1>1 DEF FlagsInv
<1>14. QED
  BY <1>4, <1>5, <1>8, <1>9, <1>11, <1>12, <1>13 DEF FlagsInv

\* What a pass commits is in line with what it has read.
LEMMA CommitSettles ==
  ASSUME Flags!FlagsAssumption, FlagsInv, NEW p \in Passes, Flags!Commit(p)
  PROVE  Flags!Settled(flags', pass[p].lead, pass[p].people, opened[p])
<1> DEFINE P == pass[p]
           view == Flags!View(p)
           s == P.lead
           n == P.people
<1>1. /\ P.at = "weighed" /\ PassInv(P, flags, opened[p]) /\ DOMAIN P.rows \subseteq DOMAIN flags
  BY DEF Flags!Commit, Flags!Step, FlagsInv, PassInv, PassTyped
<1>2. /\ view = Sees(P, flags)
      /\ \A i \in DOMAIN flags : /\ i \in DOMAIN P.rows => view[i] = P.rows[i]
                                 /\ i \notin DOMAIN P.rows => view[i] = flags[i]
  BY ViewIsSeen, ViewRows
<1>3. /\ DOMAIN flags \subseteq DOMAIN flags'
      /\ \A i \in DOMAIN flags :
           /\ flags'[i].reason = view[i].reason /\ flags'[i].site = view[i].site
           /\ view[i].reason # "open" => flags'[i].people = view[i].people
           /\ P.raises /\ view[i].reason = "open" /\ view[i].site = s => flags'[i].people = n
      /\ \A i \in DOMAIN flags' \ DOMAIN flags : P.raises /\ flags'[i].site = s /\ flags'[i].people = n
      /\ P.raises => \E i \in DOMAIN flags' : flags'[i].reason = "open" /\ flags'[i].site = s /\ flags'[i].people = n
  BY CommittedRows
<1>4. /\ Flags!Open(flags) \ opened[p] \subseteq DOMAIN P.rows
      /\ \A i \in OpenRows(P) : P.rows[i].site = s /\ n > 0
      /\ P.raises => n > 0
      /\ ~P.raises =>
           /\ OpenRows(P) = {}
           /\ n > 0 => opened[p] # {} \/ \E i \in DOMAIN flags : view[i].reason = "dismissed" /\ view[i].people >= n
  BY <1>1, <1>2 DEF PassInv, Gathered
<1> HIDE DEF view
<1>5. ASSUME NEW i \in DOMAIN flags', flags'[i].reason = "open", i \notin opened[p]
      PROVE  flags'[i].site = s /\ n > 0 /\ flags'[i].people = n
  <2>1. CASE i \in DOMAIN flags
    <3>1. view[i].reason = "open"
      BY <1>3, <1>5, <2>1
    <3>2. i \in DOMAIN P.rows
      <4> SUFFICES ASSUME i \notin DOMAIN P.rows PROVE FALSE
        OBVIOUS
      <4>1. flags[i].reason = "open"
        BY <1>2, <2>1, <3>1
      <4>2. i \in Flags!Open(flags)
        BY <2>1, <4>1 DEF Flags!Open
      <4>3. QED
        BY <1>4, <1>5, <4>2
    <3>3. i \in OpenRows(P)
      BY <1>2, <2>1, <3>1, <3>2 DEF OpenRows
    <3>4. QED
      BY <1>2, <1>3, <1>4, <2>1, <3>1, <3>2, <3>3
  <2>2. CASE i \notin DOMAIN flags
    BY <1>3, <1>4, <1>5, <2>2
  <2>3. QED
    BY <2>1, <2>2
<1>6. ASSUME n > 0
      PROVE  \/ \E i \in Flags!Open(flags') : flags'[i].site = s /\ flags'[i].people = n
             \/ \E i \in DOMAIN flags' : flags'[i].reason = "dismissed" /\ flags'[i].people >= n
             \/ opened[p] # {}
  <2>1. CASE P.raises
    BY <1>3, <2>1 DEF Flags!Open
  <2>2. CASE ~P.raises
    BY <1>3, <1>4, <1>6, <2>2
  <2>3. QED
    BY <2>1, <2>2
<1>7. QED
  BY <1>5, <1>6 DEF Flags!Settled, Flags!Open

-----------------------------------------------------------------------------
(* Editors, and the world. *)

\* The flags change to gs and no pass takes a step: what is committed of the
\* rows that passes have locked stays.
LEMMA EditorSteps ==
  ASSUME FlagsInv, pass' = pass, lead' = lead, people' \in 0 .. MaxPeople, changes' \in 0 .. MaxChanges,
         NEW gs \in Seq(Flags!Flag), flags' = gs, DOMAIN gs = DOMAIN flags,
         opened' = [p \in Passes |-> opened'[p]],
         \A p \in Passes : opened[p] \subseteq opened'[p] /\ opened'[p] \subseteq DOMAIN flags,
         \A p \in Passes : \A i \in DOMAIN pass[p].rows : gs[i] = flags[i],
         \A p \in Passes : pass[p].at \in HasLooked =>
           \A i \in DOMAIN flags :
             \/ i \in opened'[p]
             \/ /\ gs[i].reason = "open" => flags[i].reason = "open"
                /\ flags[i].reason = "dismissed" => gs[i].reason = "dismissed" /\ gs[i].people = flags[i].people,
         NEW time \in Nat, \A i \in DOMAIN flags : gs[i].closedAt \in {flags[i].closedAt, time}
  PROVE  FlagsInv'
<1>1. ASSUME NEW p \in Passes PROVE PassInv(pass[p], flags', opened'[p])
  <2> DEFINE P == pass[p]
  <2>1. PassInv(P, flags, opened[p])
    BY DEF FlagsInv
  <2>2. \A i \in DOMAIN P.rows : gs[i].reason = flags[i].reason /\ (flags[i].reason # "open" => gs[i].people = flags[i].people)
    OBVIOUS
  <2>3. P.at \in HasLooked =>
          /\ \A i \in DOMAIN gs : gs[i].reason = "open" => i \in opened'[p] \/ (i \in DOMAIN flags /\ flags[i].reason = "open")
          /\ \A i \in DOMAIN flags : flags[i].reason = "dismissed" =>
               i \in opened'[p] \/ (gs[i].reason = "dismissed" /\ gs[i].people = flags[i].people)
    OBVIOUS
  <2>4. DOMAIN flags \subseteq DOMAIN gs /\ opened[p] \subseteq opened'[p] /\ opened'[p] \subseteq DOMAIN gs
    OBVIOUS
  <2> HIDE DEF P
  <2>5. PassInv(P, gs, opened'[p])
    BY <2>1, <2>2, <2>3, <2>4, OthersKeep
  <2>6. QED
    BY <2>5 DEF P
<1>2. PICK b \in Nat : FlagsUntil(flags, b) /\ \A p \in Passes : PassUntil(pass[p], b)
  BY DEF FlagsInv
<1>3. PICK c \in Nat : b <= c /\ time <= c
  <2>1. b + time \in Nat /\ b <= b + time /\ time <= b + time
    OBVIOUS
  <2>2. QED
    BY <2>1
<1>4. FlagsUntil(flags', c)
  <2>1. \A i \in DOMAIN flags : flags[i].closedAt \in Nat
    <3>1. \A i \in DOMAIN flags : flags[i] \in Flags!Flag
      BY DEF FlagsInv
    <3>2. QED
      BY <3>1 DEF Flags!Flag
  <2>2. QED
    BY <1>2, <1>3, <2>1 DEF FlagsUntil
<1>5. ASSUME NEW p \in Passes PROVE PassUntil(pass[p], c)
  <2>1. pass[p].time \in Nat /\ \A i \in DOMAIN pass[p].rows : pass[p].rows[i] \in Flags!Flag
    BY DEF FlagsInv, PassInv, PassTyped
  <2>2. \A i \in DOMAIN pass[p].rows : pass[p].rows[i].closedAt \in Nat
    BY <2>1 DEF Flags!Flag
  <2>3. QED
    BY <1>2, <1>3, <2>1, <2>2 DEF PassUntil
<1>6. QED
  BY <1>1, <1>4, <1>5 DEF FlagsInv

\* An editor closes a flag that no pass has locked.
LEMMA CloseFlagStep ==
  ASSUME Flags!FlagsAssumption, FlagsInv, NEW i, NEW reason \in {"dismissed", "applied"}, Flags!Unlocked(i),
         flags' = Flags!CloseAll(flags, {i}, reason, Flags!now), people' \in {people, 0}, UNCHANGED <<lead, pass, opened>>,
         changes' \in 0 .. MaxChanges, flags[i].reason = "open" \/ reason = "dismissed"
  PROVE  FlagsInv'
<1>1. PICK b \in Nat : FlagsUntil(flags, b)
  BY DEF FlagsInv
<1>2. Flags!now \in Nat /\ flags \in Seq(Flags!Flag)
  BY <1>1, LaterThanClosed DEF FlagsInv
<1>3. /\ flags' \in Seq(Flags!Flag) /\ DOMAIN flags' = DOMAIN flags
      /\ \A j \in DOMAIN flags :
           /\ flags'[j].people = flags[j].people
           /\ flags'[j].reason = IF j \in {i} THEN reason ELSE flags[j].reason
           /\ flags'[j].closedAt = IF j \in {i} THEN Flags!now ELSE flags[j].closedAt
  <2> DEFINE ids == {i}
             time == Flags!now
             gs == Flags!CloseAll(flags, ids, reason, time)
  <2>1. flags' = gs
    OBVIOUS
  <2>2. reason \in Flags!Reasons /\ time \in Nat
    BY <1>2 DEF Flags!Reasons
  <2> HIDE DEF ids, time
  <2>3. /\ gs \in Seq(Flags!Flag) /\ DOMAIN gs = DOMAIN flags
        /\ \A j \in DOMAIN flags :
             /\ gs[j].people = flags[j].people
             /\ gs[j].reason = IF j \in ids THEN reason ELSE flags[j].reason
             /\ gs[j].closedAt = IF j \in ids THEN time ELSE flags[j].closedAt
    BY <1>2, <2>2, CloseAllRows
  <2> HIDE DEF gs
  <2>4. QED
    BY <2>1, <2>3 DEF ids, time
<1>4. \A j \in DOMAIN flags : j # i => flags'[j] = flags[j]
  BY DEF Flags!CloseAll
<1>5. \A p \in Passes : /\ opened[p] \subseteq DOMAIN flags
                        /\ \A j \in DOMAIN pass[p].rows : j # i /\ j \in DOMAIN flags
  BY DEF Flags!Unlocked, FlagsInv, PassInv, PassTyped
<1>6. \A p \in Passes : \A j \in DOMAIN pass[p].rows : flags'[j] = flags[j]
  BY <1>4, <1>5
<1>7. \A j \in DOMAIN flags :
        /\ flags'[j].reason = "open" => flags[j].reason = "open"
        /\ flags[j].reason = "dismissed" => flags'[j].reason = "dismissed" /\ flags'[j].people = flags[j].people
  BY <1>3
<1>8. people' \in 0 .. MaxPeople
  BY DEF FlagsInv, Flags!FlagsAssumption
<1>9. opened' = [p \in Passes |-> opened'[p]]
  BY DEF FlagsInv
<1>10. \A j \in DOMAIN flags : flags'[j].closedAt \in {flags[j].closedAt, Flags!now}
  BY <1>3
<1>11. QED
  BY <1>2, <1>3, <1>5, <1>6, <1>7, <1>8, <1>9, <1>10, EditorSteps

\* A dismissed flag that no pass has locked is opened again, which is noted for
\* those that have looked.
LEMMA ReopenStep ==
  ASSUME Flags!FlagsAssumption, FlagsInv, NEW i \in DOMAIN flags, Flags!Reopen(i)
  PROVE  FlagsInv'
<1>1. /\ flags' = [flags EXCEPT ![i].reason = "open", ![i].closedAt = 0]
      /\ opened' = [p \in Passes |-> IF p \in Flags!HaveLooked THEN opened[p] \union {i} ELSE opened[p]]
      /\ UNCHANGED <<people, lead, pass>> /\ Flags!Unlocked(i)
      /\ changes < MaxChanges /\ changes' = changes + 1
  BY DEF Flags!Reopen, Flags!Change
<1>2. flags \in Seq(Flags!Flag) /\ \A j \in DOMAIN flags : flags[j] \in Flags!Flag
  BY DEF FlagsInv
<1>3. /\ DOMAIN flags' = DOMAIN flags
      /\ flags' = [j \in DOMAIN flags |-> flags'[j]]
      /\ \A j \in DOMAIN flags :
           /\ flags'[j] \in Flags!Flag
           /\ j # i => flags'[j] = flags[j]
           /\ flags'[j].closedAt = IF j = i THEN 0 ELSE flags[j].closedAt
  BY <1>1, <1>2 DEF Flags!Flag, Flags!Reasons
<1>4. flags' \in Seq(Flags!Flag)
  BY <1>2, <1>3, RowsAgain
<1>5. \A p \in Passes : /\ opened[p] \subseteq DOMAIN flags
                        /\ \A j \in DOMAIN pass[p].rows : j # i /\ j \in DOMAIN flags
  BY <1>1 DEF Flags!Unlocked, FlagsInv, PassInv, PassTyped
<1>6. \A p \in Passes : \A j \in DOMAIN pass[p].rows : flags'[j] = flags[j]
  BY <1>3, <1>5
<1>7. \A p \in Passes : opened[p] \subseteq opened'[p] /\ opened'[p] \subseteq DOMAIN flags
  BY <1>1, <1>5
<1>8. \A p \in Passes : pass[p].at \in HasLooked => i \in opened'[p]
  BY <1>1 DEF Flags!HaveLooked, HasLooked
<1>9. people' \in 0 .. MaxPeople /\ changes' \in 0 .. MaxChanges
  BY <1>1 DEF FlagsInv, Flags!FlagsAssumption
<1>10. opened' = [p \in Passes |-> opened'[p]]
  BY <1>1
<1>11. \A p \in Passes : pass[p].at \in HasLooked =>
         \A j \in DOMAIN flags :
           \/ j \in opened'[p]
           \/ /\ flags'[j].reason = "open" => flags[j].reason = "open"
              /\ flags[j].reason = "dismissed" => flags'[j].reason = "dismissed" /\ flags'[j].people = flags[j].people
  BY <1>3, <1>8
<1>12. \A j \in DOMAIN flags : flags'[j].closedAt \in {flags[j].closedAt, 0}
  BY <1>3
<1>13. QED
  BY <1>1, <1>3, <1>4, <1>6, <1>7, <1>9, <1>10, <1>11, <1>12, EditorSteps

\* The evidence or the group changes: the flags and the passes stay.
LEMMA WorldStep ==
  ASSUME Flags!FlagsAssumption, FlagsInv, Flags!Measure \/ Flags!Regroup \/ UNCHANGED Flags!vars
  PROVE  FlagsInv'
<1>1. /\ UNCHANGED <<flags, pass, opened>>
      /\ people' \in 0 .. MaxPeople /\ lead' \in Sites /\ changes' \in 0 .. MaxChanges
  BY DEF Flags!Measure, Flags!Regroup, Flags!vars, Flags!Change, FlagsInv, Flags!FlagsAssumption
<1>2. QED
  BY <1>1 DEF FlagsInv

LEMMA FlagsInit == Flags!FlagsAssumption /\ Flags!Init => FlagsInv
<1> SUFFICES ASSUME Flags!FlagsAssumption, Flags!Init PROVE FlagsInv
  OBVIOUS
<1>1. /\ flags = << >> /\ people \in 0 .. MaxPeople /\ lead \in Sites /\ changes = 0
      /\ pass = [p \in Passes |-> Flags!Idle] /\ opened = [p \in Passes |-> {}]
  BY DEF Flags!Init
<1>2. flags \in Seq(Flags!Flag) /\ DOMAIN flags = {}
  BY <1>1
<1>3. /\ PassInv(Flags!Idle, flags, {}) /\ DOMAIN Flags!Idle.rows = {}
      /\ \A b \in Nat : PassUntil(Flags!Idle, b)
  BY IdlePass DEF Flags!FlagsAssumption
<1>4. \A p \in Passes : pass[p] = Flags!Idle /\ opened[p] = {}
  BY <1>1
<1>5. 0 \in Nat /\ FlagsUntil(flags, 0) /\ \A p \in Passes : PassUntil(pass[p], 0)
  BY <1>2, <1>3, <1>4 DEF FlagsUntil
<1>6. changes \in 0 .. MaxChanges
  BY <1>1 DEF Flags!FlagsAssumption
<1>7. pass = [p \in Passes |-> pass[p]] /\ opened = [p \in Passes |-> opened[p]]
  BY <1>1
<1>8. QED
  BY <1>1, <1>2, <1>3, <1>4, <1>5, <1>6, <1>7 DEF FlagsInv

LEMMA FlagsInductive == Flags!FlagsAssumption /\ FlagsInv /\ [Flags!Next]_(Flags!vars) => FlagsInv'
<1> SUFFICES ASSUME Flags!FlagsAssumption, FlagsInv, [Flags!Next]_(Flags!vars) PROVE FlagsInv'
  OBVIOUS
<1>1. ASSUME NEW p \in Passes,
             \/ Flags!Begin(p) \/ Flags!Look(p) \/ Flags!Move(p) \/ Flags!LookAgain(p)
             \/ Flags!Close(p) \/ Flags!Weigh(p) \/ Flags!Commit(p) \/ Flags!Fail(p)
      PROVE  FlagsInv'
  BY <1>1, PassBegins, PassLooks, PassMoves, PassLooksAgain, PassCloses, PassWeighs, PassCommits, PassFails
<1>2. Flags!Change => changes' \in 0 .. MaxChanges
  BY DEF Flags!FlagsAssumption, Flags!Change, FlagsInv
<1>3. ASSUME NEW i \in DOMAIN flags, Flags!Dismiss(i) \/ Flags!Apply(i) \/ Flags!Reopen(i) PROVE FlagsInv'
  <2>1. CASE Flags!Dismiss(i)
    BY <1>2, <2>1, CloseFlagStep DEF Flags!Dismiss
  <2>2. CASE Flags!Apply(i)
    <3>1. flags[i].reason = "open"
      BY <2>2 DEF Flags!Apply, Flags!Open
    <3>2. QED
      BY <1>2, <2>2, <3>1, CloseFlagStep DEF Flags!Apply
  <2>3. QED
    BY <1>3, <2>1, <2>2, ReopenStep
<1>4. QED
  BY <1>1, <1>3, WorldStep DEF Flags!Next

LEMMA FlagsTyped == FlagsInv => Flags!TypeOK
<1> SUFFICES ASSUME FlagsInv PROVE Flags!TypeOK
  OBVIOUS
<1>1. \A i \in DOMAIN flags : flags[i] \in Flags!Flag
  BY DEF FlagsInv
<1>2. \A p \in Passes : PassTyped(pass[p], flags, opened[p])
  BY DEF FlagsInv, PassInv
<1>3. QED
  BY <1>1, <1>2 DEF FlagsInv, PassTyped, PassPlaces, Flags!TypeOK

\* A pass that commits while what it read is current leaves in line with it all
\* flags but those opened beside it since it had looked, for any passes, editors
\* and leads and any interleaving of the statements of their transactions
\* (refreshBatch, moveFlags, syncFlags, updateFlag, closeAppliedFlags).
THEOREM FlagsSettle ==
  ASSUME Flags!FlagsAssumption
  PROVE  Flags!Spec => CurrentPassSettles
<1> DEFINE Settles == \A p \in Passes : Flags!Commit(p) /\ pass[p].lead = lead /\ pass[p].people = people
                                          => Flags!Settled(flags', lead, people, opened[p])
<1>1. FlagsInv => Flags!TypeOK
  BY FlagsTyped
<1>2. FlagsInv /\ [Flags!Next]_(Flags!vars) => [Settles]_(Flags!vars)
  <2>1. ASSUME FlagsInv, NEW p \in Passes, Flags!Commit(p), pass[p].lead = lead, pass[p].people = people
        PROVE  Flags!Settled(flags', lead, people, opened[p])
    <3>1. Flags!Settled(flags', pass[p].lead, pass[p].people, opened[p])
      BY <2>1, CommitSettles
    <3>2. QED
      BY <2>1, <3>1
  <2>2. QED
    BY <2>1
<1>3. Flags!Spec => []FlagsInv /\ [][Settles]_(Flags!vars)
  <2>1. Flags!FlagsAssumption
    OBVIOUS
  <2> HIDE DEF Settles
  <2>2. QED
    BY <1>2, <2>1, FlagsInit, FlagsInductive, PTL DEF Flags!Spec
<1>4. QED
  BY <1>1, <1>3, PTL DEF CurrentPassSettles, Flags!CurrentPassSettles

=============================================================================
