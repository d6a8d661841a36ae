--------------------------- MODULE MetricStore_proofs ---------------------------
(***************************************************************************)
(* What writing, deleting and reading metrics does to the table, proved:   *)
(* which metrics are in it afterwards, that every metric keeps the labels  *)
(* of its collector and a key of its own, and that of several statuses of  *)
(* a thing one at most is 1.  Right(table) is what every write keeps.      *)
(***************************************************************************)
EXTENDS MetricStore, TLAPS

\* Deleted are the metrics with the key of one of the old.
LEMMA InDelMetrics ==
    ASSUME NEW table, NEW old, NEW m
    PROVE  m \in DelMetrics(table, old) <=> m \in table /\ \A x \in old : Key(x) # Key(m)
  BY DEF DelMetrics

\* Written are the new ones of kept kinds, over those with their keys.
LEMMA InSetMetrics ==
    ASSUME NEW table, NEW new, NEW m
    PROVE  m \in SetMetrics(table, new)
             <=> \/ m \in new /\ m.kind \in Kept
                 \/ m \in table /\ \A x \in new : x.kind \in Kept => Key(x) # Key(m)
  BY DEF SetMetrics, DelMetrics

\* Metrics of one key are of one kind.
LEMMA KeyKind ==
    ASSUME NEW m, NEW n, Key(m) = Key(n)
    PROVE  m.kind = n.kind
  BY DEF Key

\* Metrics of one key have the same key labels.
LEMMA KeyLabel ==
    ASSUME NEW m, NEW n, Key(m) = Key(n), NEW label \in KeyLabels(m.kind)
    PROVE  LabelOf(m, label) = LabelOf(n, label)
  <1> DEFINE k == [l \in KeyLabels(m.kind) |-> LabelOf(m, l)]
             j == [l \in KeyLabels(m.kind) |-> LabelOf(n, l)]
  <1>1. m.kind = n.kind
    BY KeyKind
  <1>2. k = j
    BY <1>1 DEF Key
  <1>3. k[label] = j[label]
    BY <1>2
  <1> QED
    BY <1>3

\* Metrics of one kind with the same key labels have one key.
LEMMA SameKey ==
    ASSUME NEW m, NEW n, m.kind = n.kind,
           \A label \in KeyLabels(m.kind) : LabelOf(m, label) = LabelOf(n, label)
    PROVE  Key(m) = Key(n)
  BY DEF Key

\* The fields of a metric.
LEMMA Fields ==
    ASSUME NEW kind, NEW labels, NEW value
    PROVE  /\ Metric(kind, labels, value).kind = kind
           /\ Metric(kind, labels, value).labels = labels
           /\ Metric(kind, labels, value).value = value
  BY DEF Metric

\* After emitStatusMetric a metric is one of those written, or was there and is of another key:
\* none that the thing had before is left.
LEMMA InEmitStatus ==
    ASSUME NEW table, NEW kind, NEW labels, NEW status, NEW sparse, NEW m,
           m \in EmitStatus(table, kind, labels, status, sparse)
    PROVE  LET Of(s) == Metric(kind, WithStatus(labels, s), IF s = status THEN 1 ELSE 0) IN
             \/ kind \in Kept /\ \E s \in statusesList : m = Of(s)
             \/ m \in table /\ (status \in statusesList /\ kind \in Kept => \A s \in statusesList : Key(Of(s)) # Key(m))
  <1> DEFINE Of(s) == Metric(kind, WithStatus(labels, s), IF s = status THEN 1 ELSE 0)
             others == {Of(s) : s \in statusesList \ {status}}
             is == {Of(s) : s \in statusesList \cap {status}}
  <1>0. \A s : Of(s).kind = kind
    BY Fields
  <1> HIDE DEF Of
  <1>1. CASE sparse
    <2>1. m \in SetMetrics(DelMetrics(table, others), is)
      BY <1>1 DEF EmitStatus, Of
    <2>2. CASE m \in is /\ m.kind \in Kept
      <3>1. PICK s \in statusesList \cap {status} : m = Of(s)
        BY <2>2
      <3> QED
        BY <3>1, <2>2, <1>0 DEF Of
    <2>3. CASE m \in DelMetrics(table, others) /\ \A x \in is : x.kind \in Kept => Key(x) # Key(m)
      <3>1. m \in table /\ \A x \in others : Key(x) # Key(m)
        BY <2>3, InDelMetrics
      <3>2. ASSUME NEW s \in statusesList, kind \in Kept
            PROVE  Key(Of(s)) # Key(m)
        <4>1. CASE s = status
          BY <4>1, <3>2, <2>3, <1>0
        <4>2. CASE s # status
          BY <4>2, <3>1
        <4> QED BY <4>1, <4>2
      <3> QED
        BY <3>1, <3>2 DEF Of
    <2> QED
      BY <2>1, <2>2, <2>3, InSetMetrics
  <1>2. CASE ~sparse
    <2>1. m \in SetMetrics(table, others \cup is)
      BY <1>2 DEF EmitStatus, Of
    <2>2. CASE m \in others \cup is /\ m.kind \in Kept
      <3>1. PICK s \in statusesList : m = Of(s)
        BY <2>2
      <3> QED
        BY <3>1, <2>2, <1>0 DEF Of
    <2>3. CASE m \in table /\ \A x \in others \cup is : x.kind \in Kept => Key(x) # Key(m)
      <3>1. ASSUME NEW s \in statusesList, kind \in Kept
            PROVE  Key(Of(s)) # Key(m)
        <4>1. Of(s) \in others \cup is
          OBVIOUS
        <4> QED
          BY <4>1, <3>1, <2>3, <1>0
      <3> QED
        BY <2>3, <3>1 DEF Of
    <2> QED
      BY <2>1, <2>2, <2>3, InSetMetrics
  <1> QED
    BY <1>1, <1>2

-----------------------------------------------------------------------------
\* What a write leaves alone.

OfKinds(table, kinds) == {m \in table : m.kind \in kinds}

\* A write leaves the metrics of other kinds alone.
LEMMA SetMetricsFrame ==
    ASSUME NEW table, NEW new, NEW kinds, \A x \in new : x.kind \notin kinds
    PROVE  OfKinds(SetMetrics(table, new), kinds) = OfKinds(table, kinds)
  <1>1. ASSUME NEW m, m.kind \in kinds
        PROVE  m \in SetMetrics(table, new) <=> m \in table
    BY <1>1, InSetMetrics, KeyKind
  <1> QED
    BY <1>1 DEF OfKinds

\* So does a deletion ...
LEMMA DelMetricsFrame ==
    ASSUME NEW table, NEW old, NEW kinds, \A x \in old : x.kind \notin kinds
    PROVE  OfKinds(DelMetrics(table, old), kinds) = OfKinds(table, kinds)
  <1>1. ASSUME NEW m, m.kind \in kinds
        PROVE  m \in DelMetrics(table, old) <=> m \in table
    BY <1>1, InDelMetrics, KeyKind
  <1> QED
    BY <1>1 DEF OfKinds

\* ... and emitStatusMetric.
LEMMA EmitStatusFrame ==
    ASSUME NEW table, NEW kind, NEW labels, NEW status, NEW sparse, NEW kinds, kind \notin kinds
    PROVE  OfKinds(EmitStatus(table, kind, labels, status, sparse), kinds) = OfKinds(table, kinds)
  <1> DEFINE Of(s) == Metric(kind, WithStatus(labels, s), IF s = status THEN 1 ELSE 0)
             others == {Of(s) : s \in statusesList \ {status}}
             is == {Of(s) : s \in statusesList \cap {status}}
  <1>0. \A s : Of(s).kind = kind
    BY Fields
  <1>2. EmitStatus(table, kind, labels, status, sparse)
          = IF sparse THEN SetMetrics(DelMetrics(table, others), is) ELSE SetMetrics(table, others \cup is)
    BY DEF EmitStatus
  <1> HIDE DEF Of
  <1>1. \A x \in others \cup is : x.kind = kind
    BY <1>0
  <1> HIDE DEF others, is
  <1>3. /\ OfKinds(SetMetrics(DelMetrics(table, others), is), kinds) = OfKinds(DelMetrics(table, others), kinds)
        /\ OfKinds(DelMetrics(table, others), kinds) = OfKinds(table, kinds)
        /\ OfKinds(SetMetrics(table, others \cup is), kinds) = OfKinds(table, kinds)
    BY <1>1, SetMetricsFrame, DelMetricsFrame
  <1> QED
    BY <1>2, <1>3

\* What is read of a metric is of its kind.
LEMMA GetMetricKind ==
    ASSUME NEW table, NEW m
    PROVE  GetMetric(table, m).kind = m.kind
  BY KeyKind DEF GetMetric, MetricExists

\* It is the metric itself, or is in the table with its key.
LEMMA GetMetricIn ==
    ASSUME NEW table, NEW m, GetMetric(table, m) # m
    PROVE  GetMetric(table, m) \in table /\ Key(GetMetric(table, m)) = Key(m)
  BY DEF GetMetric, MetricExists

-----------------------------------------------------------------------------
\* One status of each thing.

OneEach(table) ==
    \A m, n \in {x \in table : x.kind \in StatusKinds /\ x.value = 1} :
        m.kind = n.kind
        /\ (\A label \in KeyLabels(m.kind) \ {"status"} : LabelOf(m, label) = LabelOf(n, label))
          => m = n

\* The status that a thing has is one of those that are reset.
HasListed(table) ==
    \A m \in table : m.kind \in StatusKinds /\ m.value = 1 => LabelOf(m, "status") \in statusesList

\* Deleting status metrics, or writing others, leaves at most one status of each thing.
LEMMA FewerStatuses ==
    ASSUME NEW table, NEW less, OneEach(table), HasListed(table),
           OfKinds(less, StatusKinds) \subseteq table
    PROVE  OneEach(less) /\ HasListed(less)
  BY DEF OneEach, HasListed, OfKinds

\* Setting the status changes no other label.
LEMMA StatusLabel ==
    ASSUME NEW labels, NEW s, "status" \in DOMAIN labels
    PROVE  /\ DOMAIN WithStatus(labels, s) = DOMAIN labels
           /\ WithStatus(labels, s)["status"] = s
           /\ \A label \in DOMAIN labels \ {"status"} : WithStatus(labels, s)[label] = labels[label]
  BY DEF WithStatus

\* emitStatusMetric leaves at most one status of each thing at 1: all others are reset or
\* deleted (metrics.go:250).
LEMMA EmitStatusOne ==
    ASSUME NEW table, OneEach(table), HasListed(table),
           NEW kind, NEW labels, NEW status, NEW sparse, "status" \in DOMAIN labels
    PROVE  LET result == EmitStatus(table, kind, labels, status, sparse) IN
             OneEach(result) /\ HasListed(result)
  <1> DEFINE result == EmitStatus(table, kind, labels, status, sparse)
             Of(s) == Metric(kind, WithStatus(labels, s), IF s = status THEN 1 ELSE 0)
             New(m) == kind \in Kept /\ status \in statusesList /\ m = Of(status)
             Old(m) == /\ m \in table
                       /\ status \in statusesList /\ kind \in Kept => \A s \in statusesList : Key(Of(s)) # Key(m)
  <1>1. \A s : Of(s).kind = kind /\ Of(s).value = IF s = status THEN 1 ELSE 0
    BY Fields
  <1>a. \A s : Of(s).labels = WithStatus(labels, s)
    BY Fields
  <1> HIDE DEF Of
  <1>b. ASSUME NEW s
        PROVE  /\ LabelOf(Of(s), "status") = s
               /\ \A label : label # "status" =>
                      LabelOf(Of(s), label) = IF label \in DOMAIN labels THEN labels[label] ELSE ""
    <2>1. PICK m : m = Of(s)
      OBVIOUS
    <2>2. PICK l : l = WithStatus(labels, s)
      OBVIOUS
    <2>3. m.labels = l
      BY <2>1, <2>2, <1>a
    <2>4. DOMAIN l = DOMAIN labels /\ l["status"] = s /\ \A label \in DOMAIN labels \ {"status"} : l[label] = labels[label]
      BY <2>2, StatusLabel
    <2>5. LabelOf(m, "status") = s
      BY <2>3, <2>4 DEF LabelOf
    <2>6. ASSUME NEW label, label # "status"
          PROVE  LabelOf(m, label) = IF label \in DOMAIN labels THEN labels[label] ELSE ""
      BY <2>3, <2>4, <2>6 DEF LabelOf
    <2> QED
      BY <2>1, <2>5, <2>6
  <1>2. \A s : LabelOf(Of(s), "status") = s
    BY <1>b
  <1>3. \A s, label : label # "status" => LabelOf(Of(s), label) = LabelOf(Of(status), label)
    BY <1>b
  <1> USE DEF Of
  <1>4. ASSUME NEW m \in result, m.value = 1
        PROVE  New(m) \/ Old(m)
    <2>1. \/ kind \in Kept /\ \E s \in statusesList : m = Of(s)
          \/ Old(m)
      BY InEmitStatus
    <2> HIDE DEF Of
    <2> QED
      BY <2>1, <1>1, <1>4
  <1> HIDE DEF Of
  <1>5. ASSUME NEW m \in result, NEW n \in result, m.kind \in StatusKinds, m.value = 1, n.value = 1,
               m.kind = n.kind, New(m), Old(n),
               \A label \in KeyLabels(m.kind) \ {"status"} : LabelOf(m, label) = LabelOf(n, label)
        PROVE  FALSE
    <2> DEFINE s == LabelOf(n, "status")
    <2>1. s \in statusesList
      BY <1>5 DEF HasListed
    <2>2. m.kind = kind /\ n.kind = kind /\ Of(s).kind = kind
      BY <1>5, <1>1
    <2>3. ASSUME NEW label \in KeyLabels(kind)
          PROVE  LabelOf(Of(s), label) = LabelOf(n, label)
      <3>1. CASE label = "status"
        BY <3>1, <1>2
      <3>2. CASE label # "status"
        BY <3>2, <1>3, <1>5, <2>2
      <3> QED
        BY <3>1, <3>2
    <2>4. Key(Of(s)) = Key(n)
      BY <2>2, <2>3, SameKey
    <2> QED
      BY <2>1, <2>4, <1>5
  <1>6. OneEach(result)
    <2> SUFFICES ASSUME NEW m \in result, NEW n \in result, m.kind \in StatusKinds, m.value = 1, n.value = 1,
                        m.kind = n.kind,
                        \A label \in KeyLabels(m.kind) \ {"status"} : LabelOf(m, label) = LabelOf(n, label)
                 PROVE  m = n
      BY DEF OneEach
    <2>1. CASE New(m) /\ New(n)
      BY <2>1
    <2>2. CASE New(m) /\ Old(n)
      BY <2>2, <1>5
    <2>3. CASE Old(m) /\ New(n)
      BY <2>3, <1>5
    <2>4. CASE Old(m) /\ Old(n)
      BY <2>4 DEF OneEach
    <2> QED
      BY <1>4, <2>1, <2>2, <2>3, <2>4
  <1>7. HasListed(result)
    BY <1>4, <1>2 DEF HasListed
  <1> QED
    BY <1>6, <1>7

-----------------------------------------------------------------------------
\* A table of metrics: each has the labels of its collector, no two have one key.

Sound(m) ==
    /\ m = Metric(m.kind, m.labels, m.value)
    /\ m.value \in Nat
    /\ Exported(m)

KeysDiffer(table) == \A m, n \in table : m.kind = n.kind /\ m # n => Key(m) # Key(n)

Table(table) == (\A m \in table : m.kind \in Kept /\ Sound(m)) /\ KeysDiffer(table)

\* A metric with the labels of its collector is sound.
LEMMA MetricSound ==
    ASSUME NEW kind, NEW labels, NEW value \in Nat, DOMAIN labels = NewRegistry[kind]
    PROVE  LET m == Metric(kind, labels, value) IN
             Sound(m) /\ m.kind = kind /\ m.labels = labels /\ m.value = value
  BY Fields DEF Sound, Exported

\* A table in order satisfies the type invariant.
LEMMA TableIsTyped ==
    ASSUME Table(metrics), failures \in Nat
    PROVE  StoreTypeOK
  BY DEF Table, KeysDiffer, Sound, StoreTypeOK

\* A deletion keeps the table in order.
LEMMA DelMetricsTable ==
    ASSUME NEW table, NEW old, Table(table)
    PROVE  Table(DelMetrics(table, old)) /\ DelMetrics(table, old) \subseteq table
  BY DEF Table, KeysDiffer, DelMetrics

\* So does a write of sound metrics with different keys ...
LEMMA SetMetricsTable ==
    ASSUME NEW table, NEW new, Table(table), \A x \in new : Sound(x), KeysDiffer(new)
    PROVE  Table(SetMetrics(table, new))
  <1> DEFINE result == SetMetrics(table, new)
  <1>1. ASSUME NEW m \in result
        PROVE  m.kind \in Kept /\ Sound(m)
    BY InSetMetrics DEF Table
  <1>2. ASSUME NEW m \in result, NEW n \in result, m # n, Key(m) = Key(n)
        PROVE  FALSE
    <2>1. m.kind = n.kind
      BY <1>2, KeyKind
    <2>2. (m \in new /\ m.kind \in Kept) \/ (m \in table /\ \A x \in new : x.kind \in Kept => Key(x) # Key(m))
      BY InSetMetrics
    <2>3. (n \in new /\ n.kind \in Kept) \/ (n \in table /\ \A x \in new : x.kind \in Kept => Key(x) # Key(n))
      BY InSetMetrics
    <2> QED
      BY <1>2, <2>1, <2>2, <2>3 DEF Table, KeysDiffer
  <1> QED
    BY <1>1, <1>2 DEF Table, KeysDiffer

\* ... and emitStatusMetric.
LEMMA EmitStatusTable ==
    ASSUME NEW table, Table(table), NEW kind, NEW labels, NEW status, NEW sparse,
           DOMAIN labels = NewRegistry[kind], "status" \in DOMAIN labels, "status" \in KeyLabels(kind)
    PROVE  Table(EmitStatus(table, kind, labels, status, sparse))
  <1> DEFINE Of(s) == Metric(kind, WithStatus(labels, s), IF s = status THEN 1 ELSE 0)
             others == {Of(s) : s \in statusesList \ {status}}
             is == {Of(s) : s \in statusesList \cap {status}}
  <1>1. EmitStatus(table, kind, labels, status, sparse)
          = IF sparse THEN SetMetrics(DelMetrics(table, others), is) ELSE SetMetrics(table, others \cup is)
    BY DEF EmitStatus
  <1>2. ASSUME NEW s
        PROVE  Sound(Of(s)) /\ LabelOf(Of(s), "status") = s
    <2>1. PICK l : l = WithStatus(labels, s)
      OBVIOUS
    <2>2. PICK v \in Nat : v = IF s = status THEN 1 ELSE 0
      OBVIOUS
    <2>3. Of(s) = Metric(kind, l, v)
      BY <2>1, <2>2
    <2>4. DOMAIN l = DOMAIN labels /\ l["status"] = s
      BY <2>1, StatusLabel
    <2> HIDE DEF Of
    <2>5. Of(s).kind = kind /\ Of(s).labels = l /\ Of(s).value = v
      BY <2>3, Fields
    <2> QED
      BY <2>3, <2>4, <2>5 DEF Sound, Exported, LabelOf
  <1>3. ASSUME NEW s, NEW t, Key(Of(s)) = Key(Of(t))
        PROVE  s = t
    <2>1. Of(s).kind = kind
      BY Fields
    <2> HIDE DEF Of
    <2>2. LabelOf(Of(s), "status") = LabelOf(Of(t), "status")
      BY <1>3, <2>1, KeyLabel
    <2> QED
      BY <2>2, <1>2
  <1> HIDE DEF Of
  <1>4. KeysDiffer(others \cup is) /\ KeysDiffer(is)
    BY <1>3 DEF KeysDiffer
  <1>5. \A x \in others \cup is : Sound(x)
    BY <1>2
  <1> HIDE DEF others, is
  <1>6. Table(SetMetrics(DelMetrics(table, others), is))
    BY <1>4, <1>5, DelMetricsTable, SetMetricsTable
  <1>7. Table(SetMetrics(table, others \cup is))
    BY <1>4, <1>5, SetMetricsTable
  <1> QED
    BY <1>1, <1>6, <1>7

\* What is read of a sound metric is sound.
LEMMA GetMetricSound ==
    ASSUME NEW table, NEW m, Table(table), Sound(m)
    PROVE  Sound(GetMetric(table, m))
  BY GetMetricIn DEF Table

\* A sound metric with another value is sound.
LEMMA Revalued ==
    ASSUME NEW m, Sound(m), NEW v \in Nat
    PROVE  /\ Sound([m EXCEPT !.value = v])
           /\ [m EXCEPT !.value = v] = Metric(m.kind, m.labels, v)
  <1>1. PICK kind, labels, value : m = Metric(kind, labels, value) /\ kind = m.kind /\ labels = m.labels
    BY DEF Sound
  <1>2. [m EXCEPT !.value = v] = Metric(kind, labels, v)
    BY <1>1 DEF Metric
  <1> QED
    BY <1>1, <1>2, Fields DEF Sound, Exported

\* The status is a key label of every kind that has one per status.
LEMMA StatusInKey ==
    ASSUME NEW kind \in StatusKinds
    PROVE  "status" \in KeyLabels(kind)
  BY DEF StatusKinds, KeyLabels, PipelineKinds, PipelineGaugeKinds, RunKinds, JobKinds, EnvironmentKinds,
         TestReportKinds, TestSuiteKinds, TestCaseKinds

\* The metrics of several kinds with the same labels.
LEMMA GaugesAre ==
    ASSUME NEW kinds, NEW labels, NEW value, NEW m
    PROVE  m \in Gauges(kinds, labels, value) <=> \E kind \in kinds : m = Metric(kind, labels, value)
  BY DEF Gauges

\* They are sound if their collectors have these labels.
LEMMA GaugesSound ==
    ASSUME NEW kinds, NEW labels, NEW value \in Nat, \A kind \in kinds : DOMAIN labels = NewRegistry[kind],
           NEW m \in Gauges(kinds, labels, value)
    PROVE  Sound(m) /\ m.kind \in kinds /\ m.labels = labels /\ m = Metric(m.kind, labels, value)
  <1>1. PICK kind \in kinds : m = Metric(kind, labels, value)
    BY GaugesAre
  <1> QED
    BY <1>1, Fields DEF Sound, Exported

\* The table, and the statuses in it, are right.
Right(table) == Table(table) /\ OneEach(table) /\ HasListed(table)

\* The empty table is right.
LEMMA RightInit == Right({})
  BY DEF Right, Table, KeysDiffer, OneEach, HasListed

\* Deleting keeps the table right.
LEMMA DeletedRight ==
    ASSUME NEW table, NEW less, Right(table), less \subseteq table
    PROVE  Right(less)
  <1>1. OneEach(less) /\ HasListed(less)
    BY FewerStatuses DEF Right, OfKinds
  <1> QED
    BY <1>1 DEF Right, Table, KeysDiffer

\* Writing metrics without a status keeps it right ...
LEMMA WrittenRight ==
    ASSUME NEW table, Right(table), NEW new, \A x \in new : Sound(x) /\ x.kind \notin StatusKinds,
           KeysDiffer(new)
    PROVE  Right(SetMetrics(table, new))
  <1>1. OfKinds(SetMetrics(table, new), StatusKinds) = OfKinds(table, StatusKinds)
    BY SetMetricsFrame
  <1>2. OneEach(SetMetrics(table, new)) /\ HasListed(SetMetrics(table, new))
    BY <1>1, FewerStatuses DEF Right, OfKinds
  <1>3. Table(SetMetrics(table, new))
    BY SetMetricsTable DEF Right
  <1> QED
    BY <1>2, <1>3 DEF Right

\* ... and so does emitStatusMetric.
LEMMA EmittedRight ==
    ASSUME NEW table, Right(table), NEW kind \in StatusKinds, NEW labels, NEW status, NEW sparse,
           DOMAIN labels = NewRegistry[kind], "status" \in DOMAIN labels
    PROVE  Right(EmitStatus(table, kind, labels, status, sparse))
  BY EmitStatusTable, EmitStatusOne, StatusInKey DEF Right
=============================================================================
