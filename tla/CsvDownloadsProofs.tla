------------------------- MODULE CsvDownloadsProofs -------------------------
(***************************************************************************)
(* Theorems about CsvDownloads, for any number of downloads, connections   *)
(* and JSON columns: no connection is used by two downloads, a download    *)
(* that is done leaks at most one connection per JSON column but the last, *)
(* and no value is dropped without a warning unless the table was changed. *)
(***************************************************************************)
EXTENDS CsvDownloads, OrderedProofs

(* The fields of a download's record.  Nothing is said of the rows.        *)
Shape(r) ==
  r \in [line: Lines, layer: Layers \cup {NULL}, cursor: Connections \cup {NULL},
         cx: Connections \cup {NULL}, i: Nat \ {0}, found: {r.found},
         warned: {r.warned}, pivotColumnNames: {r.pivotColumnNames},
         snapshot: {r.snapshot}, out: {r.out}, stale: {r.stale}]

Reading == {"keys", "query", "header", "rows"}

Columns(r) == Len(r.layer.json)

(* What the locals r of a download say of the connections h that it holds. *)
Owns(r, h) ==
  /\ Shape(r) /\ IsFiniteSet(h)
  /\ r.line # "idle" => r.layer \in Layers
  /\ r.line \in {"metadata", "describe", "features"} => r.i = 1
  /\ r.line \in {"metadata", "features"} => h = {}
  /\ r.line = "describe" => r.cx # NULL /\ h = {r.cx}
  /\ r.line \in Reading => r.cursor \in h
  /\ r.line \notin Reading => r.cursor = NULL
  /\ r.line \notin {"describe", "keys", "query"} => r.cx = NULL
  /\ r.line = "keys" =>
       /\ 1 <= Columns(r) /\ r.i <= Columns(r) + 1
       /\ r.cx \in h \cup {NULL} /\ r.cx # r.cursor
       /\ r.i > 1 => r.cx # NULL
       /\ Cardinality(h) <= r.i
  /\ r.line = "query" =>
       /\ r.i <= Columns(r)
       /\ r.cx \in h /\ r.cx # r.cursor
       /\ Cardinality(h) <= r.i + 1
  /\ r.line \in {"header", "rows"} =>
       Cardinality(h) <= IF Columns(r) = 0 THEN 1 ELSE Columns(r)
  /\ r.line = "done" =>
       Cardinality(h) <= IF Columns(r) = 0 THEN 0 ELSE Columns(r) - 1

(* Every connection is in the pool or with one download, or lost.          *)
PoolOK ==
  /\ free \subseteq Connections
  /\ held \in [Downloads -> SUBSET Connections]
  /\ \A d \in Downloads :
       /\ held[d] \cap free = {}
       /\ \A e \in Downloads \ {d} : held[d] \cap held[e] = {}

DownloadsOK ==
  /\ downloads = [d \in Downloads |-> downloads[d]]
  /\ \A d \in Downloads : Owns(downloads[d], held[d])

IInv == PoolOK /\ DownloadsOK

-----------------------------------------------------------------------------
(* Layers *)

LEMMA ColumnsType ==
  ASSUME NEW r, r.layer \in Layers
  PROVE  Columns(r) \in Nat /\ (r.layer.json = <<>> <=> Columns(r) = 0)
<1>1. r.layer \in Layer
  BY CsvDownloadsAssumption
<1>2. r.layer.json \in Seq(JsonColumns)
  BY <1>1 DEF Layer
<1> QED
  BY <1>2 DEF Columns

(* The pool *)

(* A connection that is taken comes out of the pool, to one download.      *)
LEMMA TakeMoves ==
  ASSUME PoolOK, NEW d \in Downloads, Take(d)
  PROVE  /\ PoolOK'
         /\ Idle \in Connections /\ Idle \notin held[d]
         /\ held' = [held EXCEPT ![d] = held[d] \cup {Idle}]
<1>1. Idle \in free
  BY DEF Take, Idle
<1>2. Idle \in Connections /\ \A e \in Downloads : Idle \notin held[e]
  BY <1>1 DEF PoolOK
<1>3. held' = [held EXCEPT ![d] = held[d] \cup {Idle}]
  BY DEF Take, PoolOK
<1>4. free' \subseteq Connections /\ held' \in [Downloads -> SUBSET Connections]
  BY <1>2, <1>3 DEF Take, PoolOK
<1>5. ASSUME NEW e \in Downloads
      PROVE  held'[e] = IF e = d THEN held[d] \cup {Idle} ELSE held[e]
  BY <1>3 DEF PoolOK
<1>6. ASSUME NEW e \in Downloads
      PROVE  /\ held'[e] \cap free' = {}
             /\ \A f \in Downloads \ {e} : held'[e] \cap held'[f] = {}
  <2>1. held'[e] \cap free' = {}
    BY <1>5 DEF PoolOK, Take
  <2>2. ASSUME NEW f \in Downloads \ {e}
        PROVE  held'[e] \cap held'[f] = {}
    <3>1. held[e] \cap held[f] = {}
      BY DEF PoolOK
    <3> QED
      BY <3>1, <1>2, <1>5
  <2> QED
    BY <2>1, <2>2
<1> QED
  BY <1>2, <1>3, <1>4, <1>6 DEF PoolOK

(* A connection that is given back goes into the pool.                     *)
LEMMA CloseMoves ==
  ASSUME PoolOK, NEW d \in Downloads, NEW c \in held[d] \cup {NULL}, Close(d, c)
  PROVE  /\ PoolOK'
         /\ held' = [held EXCEPT ![d] = held[d] \ {c}]
<1>1. \A e \in Downloads \ {d} : c \notin held[e]
  BY CsvDownloadsAssumption DEF PoolOK
<1>2. held' = [held EXCEPT ![d] = held[d] \ {c}]
  BY DEF Close, PoolOK
<1>3. free' \subseteq Connections /\ held' \in [Downloads -> SUBSET Connections]
  BY <1>2 DEF Close, PoolOK
<1>4. ASSUME NEW e \in Downloads
      PROVE  held'[e] = IF e = d THEN held[d] \ {c} ELSE held[e]
  BY <1>2 DEF PoolOK
<1>5. ASSUME NEW e \in Downloads
      PROVE  /\ held'[e] \cap free' = {}
             /\ \A f \in Downloads \ {e} : held'[e] \cap held'[f] = {}
  <2>1. held'[e] \cap free' = {}
    BY <1>1, <1>4 DEF PoolOK, Close
  <2>2. ASSUME NEW f \in Downloads \ {e}
        PROVE  held'[e] \cap held'[f] = {}
    <3>1. held[e] \cap held[f] = {}
      BY DEF PoolOK
    <3> QED
      BY <3>1, <1>4
  <2> QED
    BY <2>1, <2>2
<1> QED
  BY <1>2, <1>3, <1>5 DEF PoolOK

(* Steps *)

(* One download gets the locals r and the connections h; the others keep   *)
(* what they have.                                                         *)
LEMMA OneMoves ==
  ASSUME DownloadsOK, PoolOK, NEW d \in Downloads, NEW r, NEW h,
         Move(d, r), held' = [held EXCEPT ![d] = h], Owns(r, h)
  PROVE  DownloadsOK'
<1>1. downloads' = [e \in Downloads |-> IF e = d THEN r ELSE downloads[e]]
  BY DEF DownloadsOK, Move
<1>2. downloads' = [e \in Downloads |-> downloads'[e]]
  BY <1>1
<1>3. ASSUME NEW e \in Downloads
      PROVE  Owns(downloads'[e], held'[e])
  <2>1. CASE e = d
    <3>1. downloads'[e] = r /\ held'[e] = h
      BY <1>1, <2>1 DEF PoolOK
    <3> QED
      BY <3>1
  <2>2. CASE e # d
    <3>1. downloads'[e] = downloads[e] /\ held'[e] = held[e]
      BY <1>1, <2>2 DEF PoolOK
    <3>2. Owns(downloads[e], held[e])
      BY DEF DownloadsOK
    <3> QED
      BY <3>1, <3>2
  <2> QED
    BY <2>1, <2>2
<1> QED
  BY <1>2, <1>3 DEF DownloadsOK

(* A step that leaves the pool alone.                                      *)
LEMMA PoolUnchanged ==
  ASSUME IInv, NEW d \in Downloads, UNCHANGED <<free, held>>
  PROVE  /\ PoolOK'
         /\ held' = [held EXCEPT ![d] = held[d]]
BY DEF IInv, PoolOK

(* What a download knows of itself, with the fields of its record.         *)
LEMMA OwnFacts ==
  ASSUME IInv, NEW d \in Downloads
  PROVE  /\ Owns(downloads[d], held[d]) /\ Shape(downloads[d])
         /\ IsFiniteSet(held[d]) /\ Cardinality(held[d]) \in Nat
         /\ held[d] \subseteq Connections /\ NULL \notin held[d]
<1>1. Owns(downloads[d], held[d])
  BY DEF IInv, DownloadsOK
<1>2. held[d] \subseteq Connections
  BY DEF IInv, PoolOK
<1> QED
  BY <1>1, <1>2, FS_CardinalityType, CsvDownloadsAssumption DEF Owns

LEMMA IdleShape ==
  ASSUME NEW layer \in Layers, NEW line \in Lines
  PROVE  Shape([IdleDownload EXCEPT !.line = line, !.layer = layer])
<1> DEFINE r == [IdleDownload EXCEPT !.line = line, !.layer = layer]
           R == [line: Lines, layer: Layers \cup {NULL},
                 cursor: Connections \cup {NULL}, cx: Connections \cup {NULL},
                 i: Nat \ {0}, found: {{}}, warned: {FALSE}, pivotColumnNames: {<<>>},
                 snapshot: {<<>>}, out: {<<>>}, stale: {FALSE}]
<1>1. "idle" \in Lines /\ 1 \in Nat \ {0}
  BY DEF Lines
<1>2. IdleDownload \in R
  BY <1>1, Zenon DEF IdleDownload
<1>3. r \in R
  BY <1>2
<1>4. /\ r.found = {} /\ r.warned = FALSE /\ r.pivotColumnNames = <<>>
      /\ r.snapshot = <<>> /\ r.out = <<>> /\ r.stale = FALSE
  BY <1>3
<1> QED
  BY <1>3, <1>4, Zenon DEF Shape

(* End forgets everything but the layer.                                   *)
LEMMA EndOwns ==
  ASSUME NEW layer \in Layers, NEW h, IsFiniteSet(h), NEW line \in Ended,
         line = "done" =>
           Cardinality(h) <= IF Len(layer.json) = 0 THEN 0 ELSE Len(layer.json) - 1
  PROVE  Owns([IdleDownload EXCEPT !.line = line, !.layer = layer], h)
<1> DEFINE e == [IdleDownload EXCEPT !.line = line, !.layer = layer]
<1>1. e.line = line /\ e.layer = layer /\ e.cursor = NULL /\ e.cx = NULL
  BY DEF IdleDownload
<1>2. line \in Lines
  BY DEF Ended, Lines
<1>3. Shape(e)
  BY <1>2, IdleShape
<1>4. Columns(e) = Len(layer.json)
  BY <1>1 DEF Columns
<1> HIDE DEF e
<1>5. Owns(e, h)
  BY <1>1, <1>3, <1>4 DEF Owns, Reading, Ended
<1> QED
  BY <1>5 DEF e

LEMMA StartKeeps ==
  ASSUME IInv, NEW d \in Downloads, NEW layer \in Layers, Start(d, layer)
  PROVE  IInv'
<1> DEFINE r == [IdleDownload EXCEPT !.line = "metadata", !.layer = layer]
<1>1. PoolOK'
  BY DEF IInv, PoolOK, Start
<1>2. Shape(r)
  BY IdleShape DEF Lines
<1>3. Owns(r, {})
  BY <1>2, FS_EmptySet DEF Owns, IdleDownload, Reading
<1>4. Move(d, r) /\ held' = [held EXCEPT ![d] = {}]
  BY DEF Start
<1> QED
  BY <1>1, <1>3, <1>4, OneMoves DEF IInv

LEMMA AcquireMetadataKeeps ==
  ASSUME IInv, NEW d \in Downloads, AcquireMetadata(d)
  PROVE  IInv'
<1> DEFINE this == downloads[d]
           r == [this EXCEPT !.line = "describe", !.cx = Idle]
<1>1. Take(d) /\ this.line = "metadata" /\ Move(d, r)
  BY DEF AcquireMetadata
<1>2. /\ PoolOK' /\ Idle \in Connections
      /\ held' = [held EXCEPT ![d] = held[d] \cup {Idle}]
  BY <1>1, TakeMoves DEF IInv
<1>3. Owns(this, held[d]) /\ Shape(this)
  BY OwnFacts
<1>4. Shape(r)
  BY <1>2, <1>3 DEF Shape, Lines
<1>5. /\ r.line = "describe" /\ r.cx = Idle /\ r.i = this.i
      /\ r.layer = this.layer /\ r.cursor = this.cursor
  BY <1>3 DEF Shape
<1>6. held[d] = {} /\ this.layer \in Layers /\ this.cursor = NULL /\ this.i = 1
  BY <1>1, <1>3 DEF Owns, Reading
<1>7. Owns(r, {Idle})
  BY <1>2, <1>4, <1>5, <1>6, FS_Singleton, CsvDownloadsAssumption DEF Owns, Reading
<1>8. held[d] \cup {Idle} = {Idle}
  BY <1>6
<1> QED
  BY <1>1, <1>2, <1>7, <1>8, OneMoves DEF IInv

LEMMA DescribeKeeps ==
  ASSUME IInv, NEW d \in Downloads, Describe(d)
  PROVE  IInv'
<1> DEFINE this == downloads[d]
           r == [this EXCEPT !.line = "features", !.cx = NULL]
<1>1. Close(d, this.cx) /\ this.line = "describe" /\ Move(d, r)
  BY DEF Describe
<1>2. Owns(this, held[d]) /\ Shape(this)
  BY OwnFacts
<1>3. /\ held[d] = {this.cx} /\ this.layer \in Layers
      /\ this.cursor = NULL /\ this.i = 1
  BY <1>1, <1>2 DEF Owns, Reading
<1>4. PoolOK' /\ held' = [held EXCEPT ![d] = held[d] \ {this.cx}]
  BY <1>1, <1>3, CloseMoves DEF IInv
<1>5. Shape(r)
  BY <1>2 DEF Shape, Lines
<1>6. /\ r.line = "features" /\ r.cx = NULL /\ r.i = this.i
      /\ r.layer = this.layer /\ r.cursor = this.cursor
  BY <1>2 DEF Shape
<1>7. Owns(r, {})
  BY <1>3, <1>5, <1>6, FS_EmptySet DEF Owns, Reading
<1>8. held[d] \ {this.cx} = {}
  BY <1>3
<1> QED
  BY <1>1, <1>4, <1>7, <1>8, OneMoves DEF IInv

LEMMA DescribeFailsKeeps ==
  ASSUME IInv, NEW d \in Downloads, DescribeFails(d)
  PROVE  IInv'
<1> DEFINE this == downloads[d]
           r == [IdleDownload EXCEPT !.line = "failed", !.layer = this.layer]
<1>1. Close(d, this.cx) /\ this.line = "describe" /\ Move(d, r)
  BY DEF DescribeFails, End
<1>2. Owns(this, held[d]) /\ Shape(this) /\ IsFiniteSet(held[d])
  BY OwnFacts
<1>3. held[d] = {this.cx} /\ this.layer \in Layers
  BY <1>1, <1>2 DEF Owns
<1>4. PoolOK' /\ held' = [held EXCEPT ![d] = held[d] \ {this.cx}]
  BY <1>1, <1>3, CloseMoves DEF IInv
<1>5. IsFiniteSet(held[d] \ {this.cx})
  BY <1>2, FS_RemoveElement
<1>6. Owns(r, held[d] \ {this.cx})
  BY <1>3, <1>5, EndOwns DEF Ended
<1> QED
  BY <1>1, <1>4, <1>6, OneMoves DEF IInv

LEMMA OpenFeaturesKeeps ==
  ASSUME IInv, NEW d \in Downloads, OpenFeatures(d)
  PROVE  IInv'
<1> DEFINE this == downloads[d]
           line == IF this.layer.json = <<>> THEN "header" ELSE "keys"
           r == [this EXCEPT !.line = line, !.cursor = Idle, !.snapshot = table]
<1>1. Take(d) /\ this.line = "features" /\ Move(d, r)
  BY DEF OpenFeatures
<1>2. /\ PoolOK' /\ Idle \in Connections
      /\ held' = [held EXCEPT ![d] = held[d] \cup {Idle}]
  BY <1>1, TakeMoves DEF IInv
<1>3. Owns(this, held[d]) /\ Shape(this)
  BY OwnFacts
<1>4. Shape(r)
  BY <1>2, <1>3 DEF Shape, Lines
<1>5. /\ r.line = line /\ r.cx = this.cx /\ r.cursor = Idle
      /\ r.layer = this.layer /\ r.i = this.i
  BY <1>3 DEF Shape
<1>6. held[d] = {} /\ this.layer \in Layers /\ this.cx = NULL
  BY <1>1, <1>3 DEF Owns, Reading
<1>7. /\ Columns(r) = Columns(this) /\ Columns(this) \in Nat
      /\ this.layer.json = <<>> <=> Columns(this) = 0
  BY <1>5, <1>6, ColumnsType DEF Columns
<1>8. IsFiniteSet({Idle}) /\ Cardinality({Idle}) = 1
  BY FS_Singleton
<1>9. Idle # NULL
  BY <1>2, CsvDownloadsAssumption
<1>10. Owns(r, {Idle})
  <2>1. CASE this.layer.json = <<>>
    BY <2>1, <1>4, <1>5, <1>6, <1>7, <1>8, <1>9 DEF Owns, Reading
  <2>2. CASE this.layer.json # <<>>
    <3>1. this.i = 1
      BY <1>1, <1>3 DEF Owns
    <3> QED
      BY <2>2, <3>1, <1>4, <1>5, <1>6, <1>7, <1>8, <1>9 DEF Owns, Reading
  <2> QED
    BY <2>1, <2>2
<1>11. held[d] \cup {Idle} = {Idle}
  BY <1>6
<1> QED
  BY <1>1, <1>2, <1>10, <1>11, OneMoves DEF IInv

(* A download ends without touching the pool.                              *)
LEMMA EndKeeps ==
  ASSUME IInv, NEW d \in Downloads, downloads[d].line # "idle",
         End(d, "failed"), UNCHANGED <<free, held>>
  PROVE  IInv'
<1> DEFINE this == downloads[d]
           r == [IdleDownload EXCEPT !.line = "failed", !.layer = this.layer]
<1>1. Owns(this, held[d]) /\ IsFiniteSet(held[d])
  BY OwnFacts
<1>2. this.layer \in Layers
  BY <1>1 DEF Owns
<1>3. Owns(r, held[d])
  BY <1>1, <1>2, EndOwns DEF Ended
<1>4. Move(d, r)
  BY DEF End
<1>5. PoolOK' /\ held' = [held EXCEPT ![d] = held[d]]
  BY PoolUnchanged
<1> QED
  BY <1>3, <1>4, <1>5, OneMoves DEF IInv

(* writeData's finally, with a file that is complete or not.               *)
LEMMA CloseFeaturesKeeps ==
  ASSUME IInv, NEW d \in Downloads, downloads[d].line = "rows",
         NEW line \in Ended, CloseFeatures(d, line)
  PROVE  IInv'
<1> DEFINE this == downloads[d]
           r == [IdleDownload EXCEPT !.line = line, !.layer = this.layer]
           h == held[d] \ {this.cursor}
<1>1. Close(d, this.cursor) /\ Move(d, r)
  BY DEF CloseFeatures, End
<1>2. /\ Owns(this, held[d])
      /\ IsFiniteSet(held[d]) /\ Cardinality(held[d]) \in Nat
  BY OwnFacts
<1>3. /\ this.layer \in Layers /\ this.cursor \in held[d]
      /\ Cardinality(held[d]) <= IF Columns(this) = 0 THEN 1 ELSE Columns(this)
  BY <1>2 DEF Owns, Reading
<1>4. PoolOK' /\ held' = [held EXCEPT ![d] = h]
  BY <1>1, <1>3, CloseMoves DEF IInv
<1>5. IsFiniteSet(h) /\ Cardinality(h) = Cardinality(held[d]) - 1
  BY <1>2, <1>3, FS_RemoveElement
<1>6. Columns(this) \in Nat /\ Columns(this) = Len(this.layer.json)
  BY <1>3, ColumnsType DEF Columns
<1>7. Cardinality(h) <= IF Len(this.layer.json) = 0 THEN 0
                        ELSE Len(this.layer.json) - 1
  BY <1>2, <1>3, <1>5, <1>6
<1>8. Owns(r, h)
  BY <1>3, <1>5, <1>7, EndOwns
<1> QED
  BY <1>1, <1>4, <1>8, OneMoves DEF IInv

LEMMA AcquireKeysKeeps ==
  ASSUME IInv, NEW d \in Downloads, AcquireKeys(d)
  PROVE  IInv'
<1> DEFINE this == downloads[d]
           r == [this EXCEPT !.line = "query", !.cx = Idle]
           h == held[d] \cup {Idle}
<1>1. /\ this.line = "keys" /\ this.i <= Columns(this)
      /\ Take(d) /\ Move(d, r)
  BY DEF AcquireKeys, Columns
<1>2. /\ PoolOK' /\ Idle \in Connections /\ Idle \notin held[d]
      /\ held' = [held EXCEPT ![d] = h]
  BY <1>1, TakeMoves DEF IInv
<1>3. /\ Owns(this, held[d]) /\ Shape(this)
      /\ IsFiniteSet(held[d]) /\ Cardinality(held[d]) \in Nat
  BY OwnFacts
<1>4. Shape(r)
  BY <1>2, <1>3 DEF Shape, Lines
<1>5. /\ r.line = "query" /\ r.cx = Idle /\ r.cursor = this.cursor
      /\ r.layer = this.layer /\ r.i = this.i
  BY <1>3 DEF Shape
<1>6. Columns(r) = Columns(this)
  BY <1>5 DEF Columns
<1>7. IsFiniteSet(h) /\ Cardinality(h) = Cardinality(held[d]) + 1
  BY <1>2, <1>3, FS_AddElement
<1>8. /\ this.layer \in Layers /\ this.cursor \in held[d]
      /\ Cardinality(held[d]) <= this.i /\ this.i \in Nat
  BY <1>1, <1>3 DEF Owns, Reading, Shape
<1>9. Cardinality(h) <= r.i + 1
  BY <1>3, <1>5, <1>7, <1>8
<1>10. Owns(r, h)
  BY <1>1, <1>2, <1>4, <1>5, <1>6, <1>7, <1>8, <1>9 DEF Owns, Reading
<1> QED
  BY <1>1, <1>2, <1>10, OneMoves DEF IInv

(* The constructor's finally: one connection is given back if one was      *)
(* taken, so that at most one per column is left, with the iterator's.     *)
LEMMA EndKeysKeeps ==
  ASSUME IInv, NEW d \in Downloads, downloads[d].line \in {"keys", "query"},
         NEW warned, EndKeys(d, warned)
  PROVE  IInv'
<1> DEFINE this == downloads[d]
           r == [this EXCEPT !.line = "header", !.cx = NULL,
                             !.pivotColumnNames = PivotColumns(this.layer, this.found),
                             !.warned = warned]
           h == held[d] \ {this.cx}
<1>1. Close(d, this.cx) /\ Move(d, r)
  BY DEF EndKeys
<1>2. /\ Owns(this, held[d]) /\ Shape(this)
      /\ IsFiniteSet(held[d]) /\ Cardinality(held[d]) \in Nat
      /\ NULL \notin held[d]
  BY OwnFacts
<1>3. /\ this.layer \in Layers /\ this.cursor \in h
      /\ this.cx \in held[d] \cup {NULL} /\ this.i \in Nat \ {0}
  BY <1>2 DEF Owns, Reading, Shape
<1>4. PoolOK' /\ held' = [held EXCEPT ![d] = h]
  BY <1>1, <1>3, CloseMoves DEF IInv
<1>5. Columns(this) \in Nat
  BY <1>3, ColumnsType
<1>6. /\ IsFiniteSet(h)
      /\ Cardinality(h) = IF this.cx \in held[d] THEN Cardinality(held[d]) - 1
                          ELSE Cardinality(held[d])
  BY <1>2, FS_RemoveElement
<1>7. 1 <= Columns(this) /\ Cardinality(h) <= Columns(this)
  <2>1. CASE this.line = "query"
    <3>1. /\ this.i <= Columns(this) /\ this.cx \in held[d]
          /\ Cardinality(held[d]) <= this.i + 1
      BY <2>1, <1>2 DEF Owns
    <3> QED
      BY <3>1, <1>2, <1>3, <1>5, <1>6
  <2>2. CASE this.line = "keys"
    <3>1. /\ 1 <= Columns(this) /\ this.i <= Columns(this) + 1
          /\ this.i > 1 => this.cx \in held[d]
          /\ Cardinality(held[d]) <= this.i
      BY <2>2, <1>2 DEF Owns
    <3> QED
      BY <3>1, <1>2, <1>3, <1>5, <1>6
  <2> QED
    BY <2>1, <2>2
<1>8. /\ r.line = "header" /\ r.cx = NULL /\ r.cursor = this.cursor
      /\ r.layer = this.layer /\ r.i = this.i
  BY <1>2 DEF Shape
<1>9. Shape(r)
  BY <1>2 DEF Shape, Lines
<1>10. Columns(r) = Columns(this)
  BY <1>8 DEF Columns
<1> HIDE DEF r, h
<1>11. Owns(r, h)
  BY <1>3, <1>5, <1>6, <1>7, <1>8, <1>9, <1>10 DEF Owns, Reading
<1>12. Move(d, r) /\ held' = [held EXCEPT ![d] = h]
  BY <1>1, <1>4 DEF r, h
<1> QED
  BY <1>4, <1>11, <1>12, OneMoves DEF IInv

LEMMA AcquireKeysFailsKeeps ==
  ASSUME IInv, NEW d \in Downloads, AcquireKeysFails(d)
  PROVE  IInv'
<1> DEFINE this == downloads[d]
           r == [IdleDownload EXCEPT !.line = "failed", !.layer = this.layer]
<1>1. this.line = "keys"
  BY DEF AcquireKeysFails
<1>2. CASE EndKeys(d, TRUE)
  BY <1>1, <1>2, EndKeysKeeps
<1>3. CASE Close(d, this.cx) /\ End(d, "failed")
  <2>1. Owns(this, held[d]) /\ IsFiniteSet(held[d])
    BY OwnFacts
  <2>2. this.layer \in Layers /\ this.cx \in held[d] \cup {NULL}
    BY <1>1, <2>1 DEF Owns
  <2>3. PoolOK' /\ held' = [held EXCEPT ![d] = held[d] \ {this.cx}]
    BY <1>3, <2>2, CloseMoves DEF IInv
  <2>4. IsFiniteSet(held[d] \ {this.cx})
    BY <2>1, FS_RemoveElement
  <2>5. Owns(r, held[d] \ {this.cx})
    BY <2>2, <2>4, EndOwns DEF Ended
  <2>6. Move(d, r)
    BY <1>3 DEF End
  <2> QED
    BY <2>3, <2>5, <2>6, OneMoves DEF IInv
<1> QED
  BY <1>2, <1>3 DEF AcquireKeysFails

LEMMA QueryKeysKeeps ==
  ASSUME IInv, NEW d \in Downloads, QueryKeys(d)
  PROVE  IInv'
<1> DEFINE this == downloads[d]
           column == this.layer.json[this.i]
           r == [this EXCEPT !.line = "keys", !.i = this.i + 1,
                             !.found = this.found \cup KeysOf(column)]
<1>1. this.line = "query" /\ Move(d, r) /\ UNCHANGED <<free, held>>
  BY DEF QueryKeys
<1>2. Owns(this, held[d]) /\ Shape(this) /\ NULL \notin held[d]
  BY OwnFacts
<1>3. /\ this.layer \in Layers /\ this.cursor \in held[d]
      /\ this.i \in Nat \ {0} /\ this.i <= Columns(this)
      /\ this.cx \in held[d] /\ this.cx # this.cursor
      /\ Cardinality(held[d]) <= this.i + 1
  BY <1>1, <1>2 DEF Owns, Reading, Shape
<1>4. Columns(this) \in Nat
  BY <1>3, ColumnsType
<1>5. /\ r.line = "keys" /\ r.cx = this.cx /\ r.cursor = this.cursor
      /\ r.layer = this.layer /\ r.i = this.i + 1
  BY <1>2 DEF Shape
<1>6. this.i + 1 \in Nat \ {0}
  BY <1>3
<1>7. Shape(r)
  BY <1>2, <1>6 DEF Shape, Lines
<1>8. Columns(r) = Columns(this)
  BY <1>5 DEF Columns
<1> HIDE DEF r
<1>9. 1 <= Columns(r) /\ r.i <= Columns(r) + 1 /\ Cardinality(held[d]) <= r.i
  BY <1>3, <1>4, <1>5, <1>8
<1>10. IsFiniteSet(held[d])
  BY OwnFacts
<1>11. Owns(r, held[d])
  BY <1>2, <1>3, <1>5, <1>7, <1>9, <1>10 DEF Owns, Reading
<1>12. PoolOK' /\ held' = [held EXCEPT ![d] = held[d]]
  BY <1>1, PoolUnchanged
<1>13. Move(d, r)
  BY <1>1 DEF r
<1> QED
  BY <1>11, <1>12, <1>13, OneMoves DEF IInv

(* The header and the rows change nothing that the pool is told of.        *)
LEMMA WritingKeeps ==
  ASSUME IInv, NEW d \in Downloads, WriteHeader(d) \/ WriteRow(d)
  PROVE  IInv'
<1> DEFINE this == downloads[d]
<1>1. /\ Owns(this, held[d]) /\ Shape(this)
  BY OwnFacts
<1>2. this.line \in {"header", "rows"} /\ UNCHANGED <<free, held>>
  BY DEF WriteHeader, WriteRow
<1>3. ASSUME NEW r, Shape(r), Move(d, r), r.line = "rows", r.cx = this.cx,
             r.cursor = this.cursor, r.layer = this.layer
      PROVE  IInv'
  <2>1. Columns(r) = Columns(this)
    BY <1>3 DEF Columns
  <2>2. Owns(r, held[d])
    BY <1>1, <1>2, <1>3, <2>1 DEF Owns, Reading
  <2>3. PoolOK' /\ held' = [held EXCEPT ![d] = held[d]]
    BY <1>2, PoolUnchanged
  <2> QED
    BY <1>3, <2>2, <2>3, OneMoves DEF IInv
<1>4. CASE WriteHeader(d)
  <2> DEFINE r == [this EXCEPT !.line = "rows"]
  <2>1. /\ Shape(r) /\ r.line = "rows" /\ r.cx = this.cx
        /\ r.cursor = this.cursor /\ r.layer = this.layer
    BY <1>1 DEF Shape, Lines
  <2>2. Move(d, r)
    BY <1>4 DEF WriteHeader
  <2> QED
    BY <2>1, <2>2, <1>3
<1>5. CASE WriteRow(d)
  <2> DEFINE cells == RowCells(this.layer, this.snapshot[Len(this.out) + 1],
                               this.pivotColumnNames)
             r == [this EXCEPT !.out = Append(@, cells)]
  <2>1. this.line = "rows" /\ Move(d, r)
    BY <1>5 DEF WriteRow
  <2>2. /\ Shape(r) /\ r.line = "rows" /\ r.cx = this.cx
        /\ r.cursor = this.cursor /\ r.layer = this.layer
    BY <1>1, <2>1 DEF Shape, Lines
  <2> QED
    BY <2>1, <2>2, <1>3
<1> QED
  BY <1>4, <1>5

LEMMA AlterTableKeeps ==
  ASSUME IInv, AlterTable
  PROVE  IInv'
<1>1. PoolOK' /\ held' = held
  BY DEF IInv, PoolOK, AlterTable
<1>2. downloads' = [d \in Downloads |-> downloads'[d]]
  BY DEF AlterTable
<1>3. ASSUME NEW d \in Downloads
      PROVE  Owns(downloads'[d], held[d])
  <2> DEFINE this == downloads[d]
             r == [this EXCEPT !.stale = TRUE]
  <2>1. Owns(this, held[d]) /\ Shape(this)
    BY OwnFacts
  <2>2. downloads'[d] = this \/ downloads'[d] = r
    BY DEF AlterTable
  <2>3. /\ Shape(r) /\ r.line = this.line /\ r.cx = this.cx /\ r.i = this.i
        /\ r.cursor = this.cursor /\ r.layer = this.layer
    BY <2>1 DEF Shape
  <2>4. Columns(r) = Columns(this)
    BY <2>3 DEF Columns
  <2> HIDE DEF r
  <2>5. Owns(r, held[d])
    BY <2>1, <2>3, <2>4 DEF Owns
  <2> QED
    BY <2>1, <2>2, <2>5
<1> QED
  BY <1>1, <1>2, <1>3 DEF IInv, DownloadsOK

-----------------------------------------------------------------------------
(* Theorems *)

LEMMA InitOK == Init => IInv
<1> SUFFICES ASSUME Init
             PROVE  IInv
  OBVIOUS
<1>1. PoolOK
  BY DEF Init, PoolOK
<1>2. IdleDownload.line = "idle" /\ IdleDownload.cursor = NULL /\ IdleDownload.cx = NULL
  BY DEF IdleDownload
<1>3. Shape(IdleDownload)
  BY DEF Shape, IdleDownload, Lines
<1>4. Owns(IdleDownload, {})
  BY <1>2, <1>3, FS_EmptySet DEF Owns, Reading
<1> QED
  BY <1>1, <1>4 DEF Init, IInv, DownloadsOK

LEMMA NextKeeps == IInv /\ [Next]_vars => IInv'
<1> SUFFICES ASSUME IInv, [Next]_vars
             PROVE  IInv'
  OBVIOUS
<1>1. CASE UNCHANGED vars
  BY <1>1 DEF vars, IInv, PoolOK, DownloadsOK
<1>2. CASE AlterTable
  BY <1>2, AlterTableKeeps
<1>3. ASSUME NEW d \in Downloads, NEW layer \in Layers, Start(d, layer)
      PROVE  IInv'
  BY <1>3, StartKeeps
<1>4. ASSUME NEW d \in Downloads, Step(d) \/ Failure(d)
      PROVE  IInv'
  <2>1. CASE AcquireMetadata(d)
    BY <2>1, AcquireMetadataKeeps
  <2>2. CASE OpenFeatures(d)
    BY <2>2, OpenFeaturesKeeps
  <2>3. CASE AcquireKeys(d)
    BY <2>3, AcquireKeysKeeps
  <2>4. CASE AcquireFails(d) \/ ConstructorFails(d) \/ WriteHeaderFails(d)
    BY <2>4, EndKeeps DEF AcquireFails, ConstructorFails, WriteHeaderFails
  <2>5. CASE AcquireKeysFails(d)
    BY <2>5, AcquireKeysFailsKeeps
  <2>6. CASE Describe(d)
    BY <2>6, DescribeKeeps
  <2>7. CASE QueryKeys(d)
    BY <2>7, QueryKeysKeeps
  <2>8. CASE CloseKeys(d) \/ QueryKeysFails(d)
    BY <2>8, EndKeysKeeps DEF CloseKeys, QueryKeysFails
  <2>9. CASE WriteHeader(d) \/ WriteRow(d)
    BY <2>9, WritingKeeps
  <2>10. CASE Finish(d) \/ WriteRowFails(d)
    BY <2>10, CloseFeaturesKeeps DEF Finish, WriteRowFails, Ended
  <2>11. CASE DescribeFails(d)
    BY <2>11, DescribeFailsKeeps
  <2> QED
    BY <1>4, <2>1, <2>2, <2>3, <2>4, <2>5, <2>6, <2>7, <2>8, <2>9, <2>10, <2>11
       DEF Step, Failure
<1> QED
  BY <1>1, <1>2, <1>3, <1>4 DEF Next

LEMMA Inductive == Spec => []IInv
  BY InitOK, NextKeeps, PTL DEF Spec

(* However downloads interleave, fail and are cut off, the connections one *)
(* works with are in neither the pool nor another's hands.                 *)
THEOREM NothingShared == Spec => []NoSharing
<1>1. IInv => NoSharing
  <2> SUFFICES ASSUME IInv, NEW d \in Downloads
               PROVE  /\ {downloads[d].cursor, downloads[d].cx} \ {NULL} \subseteq held[d]
                      /\ held[d] \cap free = {}
                      /\ \A e \in Downloads \ {d} : held[d] \cap held[e] = {}
    BY DEF NoSharing
  <2>1. Owns(downloads[d], held[d])
    BY OwnFacts
  <2>2. {downloads[d].cursor, downloads[d].cx} \ {NULL} \subseteq held[d]
    BY <2>1 DEF Owns, Reading
  <2> QED
    BY <2>2 DEF IInv, PoolOK
<1> QED
  BY <1>1, Inductive, PTL

(* A download that is done keeps at most one connection for every JSON     *)
(* column before the last: the constructor's finally closes only one.      *)
THEOREM LeakIsBounded == Spec => []LeakBounded
<1>1. IInv => LeakBounded
  <2> SUFFICES ASSUME IInv, NEW d \in Downloads, downloads[d].line = "done"
               PROVE  Cardinality(held[d]) <=
                        IF Len(downloads[d].layer.json) = 0 THEN 0
                        ELSE Len(downloads[d].layer.json) - 1
    BY DEF LeakBounded
  <2>1. Owns(downloads[d], held[d])
    BY OwnFacts
  <2> QED
    BY <2>1 DEF Owns, Columns
<1> QED
  BY <1>1, Inductive, PTL

-----------------------------------------------------------------------------
(* Values that are dropped                                                 *)

(* Keys are numbers, so a set of them is sorted.                           *)
LEMMA SomeKeys ==
  ASSUME NEW keys \in SUBSET Keys
  PROVE  keys \in FiniteNats
BY CsvDownloadsAssumption, FS_Subset DEF FiniteNats

(* The header has a column for every key that was found.                   *)
LEMMA HeaderCovers ==
  ASSUME NEW keys \in SUBSET Keys, NEW layer
  PROVE  keys \subseteq ToSet(PivotColumns(layer, keys))
<1> DEFINE s == Ascending(keys)
           n == Cardinality(keys)
<1>1. /\ n \in Nat /\ s \in [1..n -> keys] /\ Len(s) = n
      /\ \A k \in keys : \E i \in 1..n : s[i] = k
  BY SomeKeys, AscendingFacts
<1> HIDE DEF s, n
<1>2. DOMAIN s = 1..n /\ keys \subseteq ToSet(s)
  BY <1>1 DEF ToSet
<1>3. ToSet(s) \subseteq ToSet(Reverse(s))
  <2>1. Reverse(s) = [m \in 1..n |-> s[(n - m) + 1]]
    BY <1>1 DEF Reverse
  <2>2. ASSUME NEW i \in 1..n PROVE s[i] \in ToSet(Reverse(s))
    <3>1. (n - i) + 1 \in 1..n /\ (n - ((n - i) + 1)) + 1 = i
      BY <1>1
    <3>2. Reverse(s)[(n - i) + 1] = s[i]
      BY <2>1, <3>1
    <3> QED
      BY <2>1, <3>1, <3>2 DEF ToSet
  <2> QED
    BY <1>2, <2>2 DEF ToSet
<1> QED
  BY <1>2, <1>3 DEF PivotColumns, s

(* What may be in r's file: its layer's rows, under its header.            *)
RowsOf(r) == {RowCells(r.layer, row, r.pivotColumnNames) : row \in Row}

(* The keys of the column m in the features of r are among these.          *)
Covered(r, m, keys) ==
  \A j \in DOMAIN r.snapshot : r.snapshot[j][r.layer.json[m]].keys \subseteq keys

(* What the locals r of a download say of the keys, in a table t.          *)
Knows(r, t) ==
  /\ r.line \in {"metadata", "describe", "features"} => r.found = {}
  /\ r.line \in Reading => r.snapshot \in Tables
  /\ r.line \in {"keys", "query"} =>
       /\ r.found \in SUBSET Keys
       /\ ~r.stale => /\ r.snapshot = t
                      /\ \A m \in 1..(r.i - 1) : Covered(r, m, r.found)
  /\ r.line \in {"header", "rows"} =>
       \/ r.warned \/ r.stale
       \/ \A m \in DOMAIN r.layer.json : Covered(r, m, ToSet(r.pivotColumnNames))
  /\ r.line # "rows" => r.out = <<>>
  /\ r.line = "rows" => r.out \in Seq(RowsOf(r)) /\ Len(r.out) <= Len(r.snapshot)

KeysInv == table \in Tables /\ \A d \in Downloads : Knows(downloads[d], table)

LEMMA DocumentKeys ==
  ASSUME NEW row \in Row, NEW column \in JsonColumns
  PROVE  row[column].keys \subseteq Keys
<1>1. row[column] \in Documents
  BY DEF Row
<1> QED
  BY <1>1 DEF Documents, Blank, Array, Object

(* A step that moves one download and leaves the table.                    *)
LEMMA OneLearns ==
  ASSUME IInv, KeysInv, NEW d \in Downloads, NEW r, Move(d, r), table' = table,
         Knows(r, table)
  PROVE  KeysInv'
<1>1. downloads' = [e \in Downloads |-> IF e = d THEN r ELSE downloads[e]]
  BY DEF IInv, DownloadsOK, Move
<1>2. \A e \in Downloads : Knows(downloads'[e], table)
  BY <1>1 DEF KeysInv
<1> QED
  BY <1>2 DEF KeysInv

LEMMA Known ==
  ASSUME IInv, KeysInv, NEW d \in Downloads
  PROVE  Knows(downloads[d], table) /\ Shape(downloads[d])
BY OwnFacts DEF KeysInv

LEMMA EndLearns ==
  ASSUME IInv, KeysInv, NEW d \in Downloads, NEW line \in Ended, End(d, line),
         table' = table
  PROVE  KeysInv'
<1> DEFINE r == [IdleDownload EXCEPT !.line = line, !.layer = downloads[d].layer]
<1>1. r.line = line /\ r.out = <<>>
  BY DEF IdleDownload
<1>2. Move(d, r)
  BY DEF End
<1> HIDE DEF r
<1>3. Knows(r, table)
  BY <1>1 DEF Knows, Ended, Reading
<1> QED
  BY <1>2, <1>3, OneLearns

LEMMA StartLearns ==
  ASSUME IInv, KeysInv, NEW d \in Downloads, NEW layer \in Layers, Start(d, layer)
  PROVE  KeysInv'
<1> DEFINE r == [IdleDownload EXCEPT !.line = "metadata", !.layer = layer]
<1>1. r.line = "metadata" /\ r.out = <<>> /\ r.found = {}
  BY DEF IdleDownload
<1>2. Move(d, r) /\ table' = table
  BY DEF Start
<1> HIDE DEF r
<1>3. Knows(r, table)
  BY <1>1 DEF Knows, Reading
<1> QED
  BY <1>2, <1>3, OneLearns

LEMMA MetadataLearns ==
  ASSUME IInv, KeysInv, NEW d \in Downloads, AcquireMetadata(d) \/ Describe(d)
  PROVE  KeysInv'
<1> DEFINE this == downloads[d]
<1>1. Knows(this, table) /\ Shape(this) /\ table' = table
  BY Known DEF AcquireMetadata, Describe
<1>2. ASSUME NEW r, r.line \in {"describe", "features"},
             this.line \in {"metadata", "describe"},
             r.out = this.out, r.found = this.found, Move(d, r)
      PROVE  KeysInv'
  <2>1. Knows(r, table)
    BY <1>1, <1>2 DEF Knows, Reading
  <2> QED
    BY <1>1, <1>2, <2>1, OneLearns
<1>3. CASE AcquireMetadata(d)
  <2> DEFINE r == [this EXCEPT !.line = "describe", !.cx = Idle]
  <2>1. r.line = "describe" /\ r.out = this.out /\ r.found = this.found
    BY <1>1 DEF Shape
  <2>2. this.line = "metadata" /\ Move(d, r)
    BY <1>3 DEF AcquireMetadata
  <2> HIDE DEF r
  <2> QED
    BY <1>2, <2>1, <2>2
<1>4. CASE Describe(d)
  <2> DEFINE r == [this EXCEPT !.line = "features", !.cx = NULL]
  <2>1. r.line = "features" /\ r.out = this.out /\ r.found = this.found
    BY <1>1 DEF Shape
  <2>2. this.line = "describe" /\ Move(d, r)
    BY <1>4 DEF Describe
  <2> HIDE DEF r
  <2> QED
    BY <1>2, <2>1, <2>2
<1> QED
  BY <1>3, <1>4

LEMMA OpenFeaturesLearns ==
  ASSUME IInv, KeysInv, NEW d \in Downloads, OpenFeatures(d)
  PROVE  KeysInv'
<1> DEFINE this == downloads[d]
           line == IF this.layer.json = <<>> THEN "header" ELSE "keys"
           r == [this EXCEPT !.line = line, !.cursor = Idle, !.snapshot = table]
<1>1. /\ Knows(this, table) /\ Shape(this) /\ table' = table
      /\ this.line = "features" /\ Move(d, r)
  BY Known DEF OpenFeatures
<1>2. /\ r.line = line /\ r.snapshot = table /\ r.out = this.out
      /\ r.found = this.found /\ r.i = this.i /\ r.layer = this.layer
  BY <1>1 DEF Shape
<1>3. this.i = 1 /\ this.found = {} /\ this.out = <<>> /\ table \in Tables
  BY <1>1, OwnFacts DEF Owns, Knows, KeysInv
<1> HIDE DEF r
<1>4. Knows(r, table)
  <2>1. CASE this.layer.json = <<>>
    <3>1. DOMAIN r.layer.json = {}
      BY <1>2, <2>1
    <3> QED
      BY <1>2, <1>3, <2>1, <3>1 DEF Knows
  <2>2. CASE this.layer.json # <<>>
    <3>1. 1..(r.i - 1) = {}
      BY <1>2, <1>3
    <3> QED
      BY <1>2, <1>3, <2>2, <3>1 DEF Knows
  <2> QED
    BY <2>1, <2>2
<1> QED
  BY <1>1, <1>4, OneLearns

LEMMA AcquireKeysLearns ==
  ASSUME IInv, KeysInv, NEW d \in Downloads, AcquireKeys(d)
  PROVE  KeysInv'
<1> DEFINE this == downloads[d]
           r == [this EXCEPT !.line = "query", !.cx = Idle]
<1>1. /\ Knows(this, table) /\ Shape(this) /\ table' = table
      /\ this.line = "keys" /\ Move(d, r)
  BY Known DEF AcquireKeys
<1>2. /\ r.line = "query" /\ r.snapshot = this.snapshot /\ r.out = this.out
      /\ r.found = this.found /\ r.i = this.i /\ r.layer = this.layer
      /\ r.stale = this.stale
  BY <1>1 DEF Shape
<1> HIDE DEF r
<1>3. Knows(r, table)
  BY <1>1, <1>2 DEF Knows, Reading, Covered
<1> QED
  BY <1>1, <1>3, OneLearns

LEMMA AskedKeys ==
  ASSUME IInv, KeysInv, NEW d \in Downloads, downloads[d].line = "query"
  PROVE  KeysOf(downloads[d].layer.json[downloads[d].i]) \subseteq Keys
<1> DEFINE this == downloads[d]
           column == this.layer.json[this.i]
<1>1. /\ this.layer \in Layer /\ this.i \in Nat \ {0} /\ this.i <= Len(this.layer.json)
  BY OwnFacts, CsvDownloadsAssumption DEF Owns, Shape, Columns
<1>2. column \in JsonColumns
  BY <1>1 DEF Layer
<1>3. table \in Seq(Row) /\ \A j \in DOMAIN table : table[j] \in Row
  BY CsvDownloadsAssumption, ElementOfSeq DEF KeysInv
<1> QED
  BY <1>2, <1>3, DocumentKeys DEF KeysOf, DocumentsOf

(* The keys of the column that was asked are those of the features, unless *)
(* the table was changed since they were read.                             *)
LEMMA QueryKeysLearns ==
  ASSUME IInv, KeysInv, NEW d \in Downloads, QueryKeys(d)
  PROVE  KeysInv'
<1> DEFINE this == downloads[d]
           column == this.layer.json[this.i]
           r == [this EXCEPT !.line = "keys", !.i = this.i + 1,
                             !.found = this.found \cup KeysOf(column)]
<1>1. /\ Knows(this, table) /\ Shape(this) /\ table' = table
      /\ this.line = "query" /\ Move(d, r)
  BY Known DEF QueryKeys
<1>2. /\ r.line = "keys" /\ r.snapshot = this.snapshot /\ r.out = this.out
      /\ r.found = this.found \cup KeysOf(column) /\ r.i = this.i + 1
      /\ r.layer = this.layer /\ r.stale = this.stale
  BY <1>1 DEF Shape
<1>3. /\ this.layer \in Layer /\ this.i \in Nat \ {0} /\ this.i <= Len(this.layer.json)
  BY <1>1, OwnFacts, CsvDownloadsAssumption DEF Owns, Shape, Columns
<1>6. KeysOf(column) \subseteq Keys
  BY <1>1, AskedKeys
<1>7. \A j \in DOMAIN table : table[j][column].keys \subseteq KeysOf(column)
  BY DEF KeysOf, DocumentsOf
<1> HIDE DEF r
<1>8. ASSUME ~this.stale, NEW m \in 1..this.i
      PROVE  Covered(r, m, r.found)
  <2>1. this.snapshot = table /\ (m \in 1..(this.i - 1) => Covered(this, m, this.found))
    BY <1>1, <1>8 DEF Knows
  <2>2. CASE m = this.i
    BY <1>2, <1>7, <2>1, <2>2 DEF Covered
  <2>3. CASE m # this.i
    <3>1. m \in 1..(this.i - 1)
      BY <1>3, <2>3
    <3> QED
      BY <1>2, <2>1, <3>1 DEF Covered
  <2> QED
    BY <2>2, <2>3
<1>9. 1..(r.i - 1) = 1..this.i
  BY <1>2, <1>3
<1>10. /\ r.found \in SUBSET Keys /\ r.snapshot \in Tables /\ r.out = <<>>
       /\ ~r.stale => r.snapshot = table
  BY <1>1, <1>2, <1>6 DEF Knows, Reading
<1>11. ~r.stale => \A m \in 1..(r.i - 1) : Covered(r, m, r.found)
  BY <1>2, <1>8, <1>9
<1>12. Knows(r, table)
  BY <1>2, <1>10, <1>11 DEF Knows
<1> QED
  BY <1>1, <1>12, OneLearns

(* The header is made when all columns were asked, or with a warning.      *)
LEMMA EndKeysLearns ==
  ASSUME IInv, KeysInv, NEW d \in Downloads, NEW warned \in BOOLEAN,
         downloads[d].line \in {"keys", "query"}, EndKeys(d, warned), table' = table,
         ~warned => /\ downloads[d].line = "keys"
                    /\ downloads[d].i > Len(downloads[d].layer.json)
  PROVE  KeysInv'
<1> DEFINE this == downloads[d]
           names == PivotColumns(this.layer, this.found)
           r == [this EXCEPT !.line = "header", !.cx = NULL,
                             !.pivotColumnNames = names, !.warned = warned]
<1>1. Knows(this, table) /\ Shape(this) /\ Move(d, r)
  BY Known DEF EndKeys
<1>2. /\ r.line = "header" /\ r.snapshot = this.snapshot /\ r.out = this.out
      /\ r.pivotColumnNames = names /\ r.warned = warned
      /\ r.layer = this.layer /\ r.stale = this.stale
  BY <1>1 DEF Shape
<1>3. /\ this.found \in SUBSET Keys /\ this.snapshot \in Tables /\ this.out = <<>>
      /\ ~this.stale => \A m \in 1..(this.i - 1) : Covered(this, m, this.found)
  BY <1>1 DEF Knows, Reading
<1>4. this.found \subseteq ToSet(names)
  BY <1>3, HeaderCovers
<1> HIDE DEF r, names
<1>5. ASSUME ~warned, ~this.stale, NEW m \in DOMAIN r.layer.json
      PROVE  Covered(r, m, ToSet(names))
  <2>1. this.layer \in Layer /\ this.i \in Nat
    BY <1>1, OwnFacts, CsvDownloadsAssumption DEF Owns, Shape
  <2>2. this.layer.json \in Seq(JsonColumns)
    BY <2>1 DEF Layer
  <2>3. m \in 1..(this.i - 1)
    BY <1>2, <1>5, <2>1, <2>2
  <2> QED
    BY <1>2, <1>3, <1>4, <1>5, <2>3 DEF Covered
<1>6. Knows(r, table)
  BY <1>2, <1>3, <1>5 DEF Knows
<1> QED
  BY <1>1, <1>6, OneLearns

LEMMA WriteHeaderLearns ==
  ASSUME IInv, KeysInv, NEW d \in Downloads, WriteHeader(d)
  PROVE  KeysInv'
<1> DEFINE this == downloads[d]
           r == [this EXCEPT !.line = "rows"]
<1>1. /\ Knows(this, table) /\ Shape(this) /\ table' = table
      /\ this.line = "header" /\ Move(d, r)
  BY Known DEF WriteHeader
<1>2. /\ r.line = "rows" /\ r.snapshot = this.snapshot /\ r.out = this.out
      /\ r.pivotColumnNames = this.pivotColumnNames /\ r.warned = this.warned
      /\ r.layer = this.layer /\ r.stale = this.stale
  BY <1>1 DEF Shape
<1>3. this.out = <<>> /\ this.snapshot \in Seq(Row)
  BY <1>1, CsvDownloadsAssumption DEF Knows, Reading
<1> HIDE DEF r
<1>4. r.out \in Seq(RowsOf(r)) /\ Len(r.out) <= Len(r.snapshot)
  BY <1>2, <1>3, EmptySeq, LenProperties
<1>5. Knows(r, table)
  BY <1>1, <1>2, <1>4 DEF Knows, Reading, Covered
<1> QED
  BY <1>1, <1>5, OneLearns

LEMMA WriteRowLearns ==
  ASSUME IInv, KeysInv, NEW d \in Downloads, WriteRow(d)
  PROVE  KeysInv'
<1> DEFINE this == downloads[d]
           cells == RowCells(this.layer, this.snapshot[Len(this.out) + 1],
                             this.pivotColumnNames)
           r == [this EXCEPT !.out = Append(this.out, cells)]
<1>1. /\ Knows(this, table) /\ Shape(this) /\ table' = table
      /\ this.line = "rows" /\ Move(d, r)
      /\ Len(this.out) + 1 \in DOMAIN this.snapshot
  BY Known DEF WriteRow
<1>2. /\ r.line = "rows" /\ r.snapshot = this.snapshot
      /\ r.out = Append(this.out, cells)
      /\ r.pivotColumnNames = this.pivotColumnNames /\ r.warned = this.warned
      /\ r.layer = this.layer /\ r.stale = this.stale
  BY <1>1 DEF Shape
<1>3. this.out \in Seq(RowsOf(this)) /\ this.snapshot \in Seq(Row)
  BY <1>1, CsvDownloadsAssumption DEF Knows, Reading
<1>4. cells \in RowsOf(this)
  BY <1>1, <1>3, ElementOfSeq DEF RowsOf
<1>5. RowsOf(r) = RowsOf(this)
  BY <1>2 DEF RowsOf
<1> HIDE DEF r, cells
<1>6. r.out \in Seq(RowsOf(r)) /\ Len(r.out) <= Len(r.snapshot)
  BY <1>1, <1>2, <1>3, <1>4, <1>5, AppendProperties, LenProperties
<1>7. Knows(r, table)
  BY <1>1, <1>2, <1>6 DEF Knows, Reading, Covered
<1> QED
  BY <1>1, <1>7, OneLearns

LEMMA AlterTableLearns ==
  ASSUME IInv, KeysInv, AlterTable
  PROVE  KeysInv'
<1>1. table' \in Tables
  BY DEF AlterTable
<1>2. ASSUME NEW d \in Downloads
      PROVE  Knows(downloads'[d], table')
  <2> DEFINE this == downloads[d]
             r == [this EXCEPT !.stale = TRUE]
  <2>1. Knows(this, table) /\ Shape(this)
    BY Known
  <2>2. downloads'[d] = IF this.line \in {"keys", "query"} THEN r ELSE this
    BY DEF AlterTable
  <2>3. /\ r.line = this.line /\ r.snapshot = this.snapshot /\ r.out = this.out
        /\ r.found = this.found /\ r.stale = TRUE
    BY <2>1 DEF Shape
  <2> HIDE DEF r
  <2>4. CASE this.line \in {"keys", "query"}
    <3>1. Knows(r, table')
      BY <2>1, <2>3, <2>4 DEF Knows, Reading
    <3> QED
      BY <2>2, <2>4, <3>1
  <2>5. CASE this.line \notin {"keys", "query"}
    <3>1. Knows(this, table')
      BY <2>1, <2>5 DEF Knows
    <3> QED
      BY <2>2, <2>5, <3>1
  <2> QED
    BY <2>4, <2>5
<1> QED
  BY <1>1, <1>2 DEF KeysInv

LEMMA StepLearns ==
  ASSUME IInv, KeysInv, NEW d \in Downloads, Step(d) \/ Failure(d)
  PROVE  KeysInv'
<1>1. CASE AcquireMetadata(d) \/ Describe(d)
  BY <1>1, MetadataLearns
<1>2. CASE OpenFeatures(d)
  BY <1>2, OpenFeaturesLearns
<1>3. CASE AcquireKeys(d)
  BY <1>3, AcquireKeysLearns
<1>4. CASE QueryKeys(d)
  BY <1>4, QueryKeysLearns
<1>5. CASE CloseKeys(d)
  <2>1. ~FALSE /\ FALSE \in BOOLEAN
    OBVIOUS
  <2> QED
    BY <1>5, <2>1, EndKeysLearns DEF CloseKeys
<1>6. CASE QueryKeysFails(d)
  BY <1>6, EndKeysLearns DEF QueryKeysFails
<1>7. CASE AcquireKeysFails(d)
  BY <1>7, EndKeysLearns, EndLearns DEF AcquireKeysFails, Ended
<1>8. CASE WriteHeader(d)
  BY <1>8, WriteHeaderLearns
<1>9. CASE WriteRow(d)
  BY <1>9, WriteRowLearns
<1>10. CASE \/ AcquireFails(d) \/ ConstructorFails(d) \/ WriteHeaderFails(d)
            \/ DescribeFails(d)
  BY <1>10, EndLearns
     DEF AcquireFails, ConstructorFails, WriteHeaderFails, DescribeFails, Ended
<1>11. CASE Finish(d) \/ WriteRowFails(d)
  BY <1>11, EndLearns DEF Finish, WriteRowFails, CloseFeatures, Ended
<1> QED
  BY <1>1, <1>2, <1>3, <1>4, <1>5, <1>6, <1>7, <1>8, <1>9, <1>10, <1>11
     DEF Step, Failure

LEMMA KeysInductive == Spec => []KeysInv
<1>1. Init => KeysInv
  BY DEF Init, KeysInv, Knows, IdleDownload, Reading
<1>2. IInv /\ KeysInv /\ [Next]_vars => KeysInv'
  <2> SUFFICES ASSUME IInv, KeysInv, [Next]_vars PROVE KeysInv'
    OBVIOUS
  <2>1. CASE UNCHANGED vars
    BY <2>1 DEF vars, KeysInv
  <2>2. CASE Next
    BY <2>2, StepLearns, StartLearns, AlterTableLearns DEF Next
  <2> QED
    BY <2>1, <2>2
<1> QED
  BY <1>1, <1>2, Inductive, PTL DEF Spec

(* For any tables, layers and keys, a value is under no column only with a *)
(* warning, or after a change of the table between two of its queries.     *)
THEOREM DropsAlwaysLogged == Spec => []DropsAreLogged
<1>1. IInv /\ KeysInv => DropsAreLogged
  <2> SUFFICES ASSUME IInv, KeysInv, NEW d \in Downloads, downloads[d].line = "rows",
                      ~downloads[d].warned, ~downloads[d].stale
               PROVE  ~DropsValues(downloads[d])
    BY DEF DropsAreLogged
  <2> DEFINE this == downloads[d]
  <2>1. /\ \A m \in DOMAIN this.layer.json : Covered(this, m, ToSet(this.pivotColumnNames))
        /\ this.out \in Seq(RowsOf(this)) /\ Len(this.out) <= Len(this.snapshot)
        /\ this.snapshot \in Seq(Row)
    BY Known, CsvDownloadsAssumption DEF Knows, Reading
  <2>2. DOMAIN this.out \subseteq DOMAIN this.snapshot
    BY <2>1, LenProperties
  <2> QED
    BY <2>1, <2>2 DEF DropsValues, Covered
<1> QED
  BY <1>1, Inductive, KeysInductive, PTL

-----------------------------------------------------------------------------
(* The rows of a file                                                      *)

LEMMA LayerParts ==
  ASSUME NEW layer \in Layers
  PROVE  /\ layer.json \in Seq(JsonColumns) /\ layer.plain \in Seq(PlainColumns)
         /\ Len(layer.json) \in Nat /\ (layer.json = <<>> <=> Len(layer.json) = 0)
BY CsvDownloadsAssumption DEF Layer

(* The header's pivot columns are the keys, whatever their order.          *)
LEMMA PivotColumnsFacts ==
  ASSUME NEW layer, NEW K \in SUBSET Keys
  PROVE  /\ PivotColumns(layer, K) \in Seq(Keys)
         /\ ToSet(PivotColumns(layer, K)) = K
         /\ ~getConfig(layer).desc => PivotColumns(layer, K) = Ascending(K)
<1> DEFINE s == Ascending(K)
           n == Cardinality(K)
           names == PivotColumns(layer, K)
<1>1. /\ n \in Nat /\ s \in [1..n -> K] /\ Len(s) = n
  BY SomeKeys, AscendingFacts
<1>2. names = IF getConfig(layer).desc THEN Reverse(s) ELSE s
  BY DEF PivotColumns
<1>3. K \subseteq ToSet(names)
  BY HeaderCovers
<1> HIDE DEF s, n, names
<1>4. Reverse(s) \in [1..n -> K]
  <2>1. Reverse(s) = [m \in 1..n |-> s[(n - m) + 1]]
    BY <1>1 DEF Reverse
  <2>2. \A m \in 1..n : (n - m) + 1 \in 1..n
    BY <1>1
  <2> QED
    BY <1>1, <2>1, <2>2
<1>5. names \in [1..n -> K]
  BY <1>1, <1>2, <1>4
<1>6. ToSet(names) = K
  BY <1>3, <1>5 DEF ToSet
<1>7. names \in Seq(Keys)
  <2>1. names \in [1..n -> Keys]
    BY <1>5
  <2> QED
    BY <1>1, <2>1, SeqDef
<1> QED
  BY <1>2, <1>6, <1>7 DEF s, names

LEMMA CellType ==
  ASSUME NEW column \in JsonColumns, NEW document, NEW key \in Keys
  PROVE  Cell(column, document, key) \in CellRecord /\ Cell(column, document, key).title = key
BY DEF Cell, CellRecord

LEMMA AttributesFacts ==
  ASSUME NEW columns \in Seq(PlainColumns \cup {FID})
  PROVE  /\ Attributes(columns) \in Seq(CellRecord)
         /\ Len(Attributes(columns)) = Len(columns)
         /\ \A p \in 1..Len(columns) : Attributes(columns)[p].title = columns[p]
<1> DEFINE a == Attributes(columns)
           n == Len(columns)
<1>1. n \in Nat /\ columns \in [1..n -> PlainColumns \cup {FID}] /\ DOMAIN columns = 1..n
  BY LenProperties
<1>2. a = [p \in 1..n |-> Attribute(columns[p])]
  BY <1>1 DEF Attributes
<1>3. ASSUME NEW c \in PlainColumns \cup {FID}
      PROVE  Attribute(c) \in CellRecord /\ Attribute(c).title = c
  BY DEF Attribute, CellRecord
<1> HIDE DEF a, n
<1>4. a \in [1..n -> CellRecord]
  BY <1>1, <1>2, <1>3
<1>5. a \in Seq(CellRecord) /\ Len(a) = n
  BY <1>1, <1>4, SeqDef
<1>6. \A p \in 1..n : a[p].title = columns[p]
  BY <1>1, <1>2, <1>3
<1> QED
  BY <1>5, <1>6 DEF a, n

LEMMA PivotCellsFacts ==
  ASSUME NEW column \in JsonColumns, NEW document, NEW K \in SUBSET Keys, NEW names,
         ToSet(names) = K
  PROVE  LET cells == PivotCells(column, document, names)
         IN  /\ cells \in Seq(CellRecord) /\ Len(cells) = Cardinality(K)
             /\ \A q \in 1..Cardinality(K) : cells[q].title = Ascending(K)[q]
<1> DEFINE s == Ascending(K)
           n == Cardinality(K)
           cells == PivotCells(column, document, names)
<1>1. n \in Nat /\ s \in [1..n -> K] /\ DOMAIN s = 1..n
  BY SomeKeys, AscendingFacts
<1>2. cells = [i \in DOMAIN s |-> Cell(column, document, s[i])]
  BY DEF PivotCells
<1> HIDE DEF s, n, cells
<1>3. cells = [i \in 1..n |-> Cell(column, document, s[i])]
  BY <1>1, <1>2
<1>4. \A i \in 1..n : s[i] \in Keys
  BY <1>1
<1>5. cells \in [1..n -> CellRecord] /\ \A q \in 1..n : cells[q].title = s[q]
  BY <1>3, <1>4, CellType
<1>6. cells \in Seq(CellRecord) /\ Len(cells) = n
  BY <1>1, <1>5, SeqDef
<1> QED
  BY <1>5, <1>6 DEF s, n, cells

LEMMA HeadType ==
  ASSUME NEW layer \in Layers
  PROVE  /\ NonPivotColumns(layer) \in Seq(PlainColumns \cup {FID})
         /\ PlainHeader(layer) \in Seq(PlainColumns \cup {FID})
<1> DEFINE T == PlainColumns \cup {FID}
           excluded == getConfig(layer).excludedFields
           kept == {i \in DOMAIN layer.plain : layer.plain[i] \notin excluded}
<1>1. layer.plain \in Seq(PlainColumns) /\ Len(layer.plain) \in Nat
  BY LayerParts
<1>2. DOMAIN layer.plain = 1..Len(layer.plain)
      /\ \A i \in DOMAIN layer.plain : layer.plain[i] \in T
  BY <1>1, ElementOfSeq
<1>3. kept \in FiniteNats
  <2>1. IsFiniteSet(1..Len(layer.plain)) /\ kept \in SUBSET (1..Len(layer.plain))
    BY <1>1, <1>2, FS_Interval
  <2> HIDE DEF kept
  <2>2. IsFiniteSet(kept)
    BY <2>1, FS_Subset
  <2> QED
    BY <2>1, <2>2 DEF FiniteNats
<1>4. \A p \in kept : layer.plain[p] \in T
  BY <1>2
<1>5. NonPivotColumns(layer) = At(layer.plain, kept)
  BY DEF NonPivotColumns
<1> HIDE DEF kept, T
<1>6. NonPivotColumns(layer) \in Seq(T)
  BY <1>3, <1>4, <1>5, AtFacts
<1>7. PlainHeader(layer) \in Seq(T)
  <2>1. <<FID>> \in Seq(T) /\ layer.plain \in Seq(T)
    BY <1>1 DEF T
  <2> QED
    BY <2>1, ConcatProperties DEF PlainHeader
<1> QED
  BY <1>6, <1>7 DEF T

(* The columns a row begins with.                                          *)
HeadOf(layer) ==
  IF layer.json = <<>> THEN PlainHeader(layer) ELSE NonPivotColumns(layer)

(* After l cells, the cells are the keys of K under names, n times.        *)
Spread(cells, layer, names, l, n, K) ==
  LET k == Cardinality(K)
      s == Ascending(K)
  IN  /\ names = PivotColumns(layer, K) /\ k \in Nat
      /\ Len(cells) = l + n * k
      /\ \A i \in 1..n, q \in 1..k : cells[l + ((i - 1) * k + q)].title = s[q]
      /\ \A p \in 1..(n * k) : \E i \in 1..n, q \in 1..k : p = (i - 1) * k + q

(* The cells of a row with the head h and n JSON columns.                  *)
RowIs(cells, layer, names, h, n) ==
  /\ cells \in Seq(CellRecord)
  /\ h \in Seq(PlainColumns \cup {FID})
  /\ \A p \in 1..Len(h) : cells[p].title = h[p]
  /\ n = 0 => Len(cells) = Len(h)
  /\ n # 0 => \E K \in SUBSET Keys : Spread(cells, layer, names, Len(h), n, K)

(* A row begins with the attributes, and has the keys of K once for every  *)
(* JSON column after them.                                                 *)
LEMMA RowCellsFacts ==
  ASSUME NEW layer \in Layers, NEW row, NEW names,
         layer.json # <<>> =>
           \E K \in SUBSET Keys : names = PivotColumns(layer, K)
  PROVE  RowIs(RowCells(layer, row, names), layer, names, HeadOf(layer), Len(layer.json))
<1> DEFINE cells == RowCells(layer, row, names)
           n == Len(layer.json)
<1>1. n \in Nat /\ (layer.json = <<>> <=> n = 0) /\ layer.json \in Seq(JsonColumns)
  BY LayerParts
<1>2. CASE n = 0
  <2> DEFINE head == PlainHeader(layer)
  <2>1. cells = Attributes(head) /\ head \in Seq(PlainColumns \cup {FID})
    BY <1>1, <1>2, HeadType DEF RowCells
  <2>2. /\ cells \in Seq(CellRecord) /\ Len(cells) = Len(head)
        /\ \A p \in 1..Len(head) : cells[p].title = head[p]
    BY <2>1, AttributesFacts
  <2> HIDE DEF cells, head, n
  <2>3. head = HeadOf(layer)
    BY <1>1, <1>2 DEF head, HeadOf
  <2>4. RowIs(cells, layer, names, head, n)
    BY <1>2, <2>1, <2>2 DEF RowIs
  <2> QED
    BY <2>3, <2>4 DEF cells, n
<1>3. CASE n # 0
  <2>1. PICK K \in SUBSET Keys : names = PivotColumns(layer, K)
    BY <1>1, <1>3
  <2> DEFINE head == NonPivotColumns(layer)
             front == Attributes(head)
             Block(i) == PivotCells(layer.json[i], row[layer.json[i]], names)
             blocks == [i \in 1..n |-> Block(i)]
             back == FlattenSeq(blocks)
             k == Cardinality(K)
             s == Ascending(K)
  <2>2. /\ head \in Seq(PlainColumns \cup {FID}) /\ Len(head) \in Nat
        /\ front \in Seq(CellRecord) /\ Len(front) = Len(head)
        /\ \A p \in 1..Len(head) : front[p].title = head[p]
    <3>1. head \in Seq(PlainColumns \cup {FID}) /\ Len(head) \in Nat
      BY HeadType, LenProperties
    <3> HIDE DEF head
    <3> QED
      BY <3>1, AttributesFacts
  <2>3. cells = front \o back
    <3>1. DOMAIN layer.json = 1..n
      BY <1>1
    <3> QED
      BY <1>1, <1>3, <3>1 DEF RowCells
  <2>4. k \in Nat /\ n \in Nat \ {0}
    BY <1>1, <1>3, SomeKeys, AscendingFacts
  <2>5. ASSUME NEW i \in 1..n
        PROVE  /\ blocks[i] \in Seq(CellRecord) /\ Len(blocks[i]) = k
               /\ \A q \in 1..k : blocks[i][q].title = s[q]
    <3>1. layer.json[i] \in JsonColumns
      BY <1>1, ElementOfSeq
    <3>2. ToSet(names) = K
      BY <2>1, PivotColumnsFacts
    <3> DEFINE block == PivotCells(layer.json[i], row[layer.json[i]], names)
    <3>3. /\ block \in Seq(CellRecord) /\ Len(block) = Cardinality(K)
          /\ \A q \in 1..Cardinality(K) : block[q].title = Ascending(K)[q]
      <4> DEFINE column == layer.json[i]
                 document == row[column]
      <4>1. column \in JsonColumns
        BY <3>1
      <4> HIDE DEF column, document
      <4>2. LET those == PivotCells(column, document, names)
            IN  /\ those \in Seq(CellRecord) /\ Len(those) = Cardinality(K)
                /\ \A q \in 1..Cardinality(K) : those[q].title = Ascending(K)[q]
        BY <3>2, <4>1, PivotCellsFacts
      <4> QED
        BY <4>2, Zenon DEF column, document
    <3>4. blocks[i] = block
      OBVIOUS
    <3> HIDE DEF block, blocks
    <3> QED
      BY <3>3, <3>4
  <2>6. Len(blocks) = n
    <3>1. blocks = [i \in 1..n |-> blocks[i]]
      OBVIOUS
    <3> HIDE DEF blocks, n
    <3>2. blocks \in [1..n -> {blocks[i] : i \in 1..n}]
      BY <3>1
    <3>3. blocks \in Seq({blocks[i] : i \in 1..n})
      BY <2>4, <3>2, SeqDef
    <3> QED
      BY <2>4, <3>2, <3>3, LenProperties
  <2> HIDE DEF head, front, blocks, k, s, n, cells
  <2>7. /\ back \in Seq(CellRecord) /\ Len(back) = n * k
        /\ \A i \in 1..n, q \in 1..k : back[(i - 1) * k + q] = blocks[i][q]
        /\ \A p \in 1..(n * k) : \E i \in 1..n, q \in 1..k : p = (i - 1) * k + q
    <3>1. \A i \in 1..n : blocks[i] \in Seq(CellRecord) /\ Len(blocks[i]) = k
      BY <2>5
    <3> QED
      <4>1. InBlocks(back, blocks, n, k, CellRecord)
        BY <2>4, <2>6, <3>1, FlattenSeqBlocks
      <4> HIDE DEF back
      <4> QED
        BY <4>1, Zenon DEF InBlocks
  <2> HIDE DEF back
  <2> DEFINE L == Len(head)
             m == n * k
  <2>8. m \in Nat /\ L \in Nat
    BY <2>2, <2>4
  <2>9. cells \in Seq(CellRecord) /\ Len(cells) = L + m
    <3>1. front \o back \in Seq(CellRecord) /\ Len(front \o back) = Len(front) + Len(back)
      BY <2>2, <2>7, ConcatProperties
    <3> QED
      BY <2>2, <2>3, <2>7, <3>1
  <2>10. \A p \in 1..L : cells[p].title = head[p]
    <3> TAKE p \in 1..L
    <3>1. cells[p] = front[p]
      BY <2>2, <2>3, <2>7
    <3> QED
      BY <2>2, <3>1
  <2>11. ASSUME NEW i \in 1..n, NEW q \in 1..k
         PROVE  cells[L + ((i - 1) * k + q)].title = s[q]
    <3> DEFINE p == (i - 1) * k + q
    <3>1. p \in 1..m
      <4>1. i \in Nat \ {0} /\ i < n + 1 /\ n + 1 \in Nat \ {0}
        BY <2>4
      <4>2. p \in 1..((n + 1 - 1) * k)
        BY <2>4, <4>1, Blocks
      <4>3. n + 1 - 1 = n
        BY <2>4
      <4> QED
        BY <4>2, <4>3
    <3>2. back[p] = blocks[i][q]
      BY <2>7
    <3>3. blocks[i][q].title = s[q]
      BY <2>5
    <3> HIDE DEF p, m
    <3>4. /\ back \in Seq(CellRecord) /\ Len(back) = m
          /\ front \in Seq(CellRecord) /\ Len(front) = L
      BY <2>2, <2>7 DEF m
    <3> HIDE DEF L
    <3>5. cells[L + p] = back[p]
      BY <2>3, <2>8, <3>1, <3>4
    <3> QED
      BY <3>2, <3>3, <3>5 DEF p, L
  <2>12. head = HeadOf(layer)
    BY <1>1, <1>3 DEF head, n, HeadOf
  <2>13. Spread(cells, layer, names, L, n, K)
    BY <2>1, <2>4, <2>7, <2>9, <2>11, Zenon DEF Spread, k, s
  <2>14. RowIs(cells, layer, names, head, n)
    BY <2>2, <2>4, <2>9, <2>10, <2>13, Zenon DEF RowIs
  <2> QED
    BY <2>12, <2>14 DEF cells, n
<1> QED
  BY <1>2, <1>3

-----------------------------------------------------------------------------
(* Types *)

(* The header's pivot columns were made of keys.                           *)
Named(r) ==
  r.line \in {"header", "rows"} /\ r.layer.json # <<>> =>
    \E K \in SUBSET Keys : r.pivotColumnNames = PivotColumns(r.layer, K)

Typed(r) ==
  /\ r.found \in SUBSET Keys /\ r.warned \in BOOLEAN /\ r.stale \in BOOLEAN
  /\ r.snapshot \in Tables \cup {<<>>}
  /\ r.pivotColumnNames \in Seq(Keys)
  /\ Named(r)

TypesInv == \A d \in Downloads : Typed(downloads[d])

LEMMA OneTyped ==
  ASSUME IInv, TypesInv, NEW d \in Downloads, NEW r, Move(d, r), Typed(r)
  PROVE  TypesInv'
<1>1. downloads' = [e \in Downloads |-> IF e = d THEN r ELSE downloads[e]]
  BY DEF IInv, DownloadsOK, Move
<1>2. \A e \in Downloads : Typed(downloads'[e])
  BY <1>1 DEF TypesInv
<1> QED
  BY <1>2 DEF TypesInv

(* A download that begins or ends.                                         *)
LEMMA IdleTyped ==
  ASSUME IInv, TypesInv, NEW d \in Downloads, NEW line \in {"metadata"} \cup Ended,
         NEW layer, Move(d, [IdleDownload EXCEPT !.line = line, !.layer = layer])
  PROVE  TypesInv'
<1> DEFINE r == [IdleDownload EXCEPT !.line = line, !.layer = layer]
<1>1. /\ r.line = line /\ r.found = {} /\ r.warned = FALSE /\ r.stale = FALSE
      /\ r.snapshot = <<>> /\ r.pivotColumnNames = <<>>
  BY DEF IdleDownload
<1> HIDE DEF r
<1>2. <<>> \in Seq(Keys) /\ line \notin {"header", "rows"}
  BY EmptySeq DEF Ended
<1>3. Typed(r)
  BY <1>1, <1>2 DEF Typed, Named
<1>4. Move(d, r)
  BY DEF r
<1> QED
  BY <1>3, <1>4, OneTyped

(* A download that goes on, with the same keys and columns.                *)
LEMMA GoesOnTyped ==
  ASSUME IInv, KeysInv, TypesInv, NEW d \in Downloads,
         \/ AcquireMetadata(d) \/ Describe(d) \/ OpenFeatures(d) \/ AcquireKeys(d)
         \/ WriteHeader(d) \/ WriteRow(d)
  PROVE  TypesInv'
<1> DEFINE this == downloads[d]
<1>1. Shape(this) /\ Typed(this)
  BY Known DEF TypesInv
<1>2. ASSUME NEW r, Move(d, r), r.found = this.found, r.warned = this.warned,
             r.stale = this.stale, r.pivotColumnNames = this.pivotColumnNames,
             r.layer = this.layer, r.snapshot \in {this.snapshot, table},
             r.line \notin {"header", "rows"} \/ this.line \in {"header", "rows"}
               \/ this.layer.json = <<>>
      PROVE  TypesInv'
  <2>1. Typed(r)
    BY <1>1, <1>2 DEF Typed, Named, KeysInv
  <2> QED
    BY <1>2, <2>1, OneTyped
<1>3. CASE AcquireMetadata(d)
  <2> DEFINE r == [this EXCEPT !.line = "describe", !.cx = Idle]
  <2>1. Move(d, r)
    BY <1>3 DEF AcquireMetadata
  <2>2. /\ r.found = this.found /\ r.warned = this.warned /\ r.stale = this.stale
        /\ r.pivotColumnNames = this.pivotColumnNames /\ r.layer = this.layer
        /\ r.snapshot = this.snapshot /\ r.line = "describe"
    BY <1>1 DEF Shape
  <2> HIDE DEF r
  <2> QED
    BY <1>2, <2>1, <2>2
<1>4. CASE Describe(d)
  <2> DEFINE r == [this EXCEPT !.line = "features", !.cx = NULL]
  <2>1. Move(d, r)
    BY <1>4 DEF Describe
  <2>2. /\ r.found = this.found /\ r.warned = this.warned /\ r.stale = this.stale
        /\ r.pivotColumnNames = this.pivotColumnNames /\ r.layer = this.layer
        /\ r.snapshot = this.snapshot /\ r.line = "features"
    BY <1>1 DEF Shape
  <2> HIDE DEF r
  <2> QED
    BY <1>2, <2>1, <2>2
<1>5. CASE OpenFeatures(d)
  <2> DEFINE line == IF this.layer.json = <<>> THEN "header" ELSE "keys"
             r == [this EXCEPT !.line = line, !.cursor = Idle, !.snapshot = table]
  <2>1. Move(d, r)
    BY <1>5 DEF OpenFeatures
  <2>2. /\ r.found = this.found /\ r.warned = this.warned /\ r.stale = this.stale
        /\ r.pivotColumnNames = this.pivotColumnNames /\ r.layer = this.layer
        /\ r.snapshot = table /\ r.line = line
    BY <1>1 DEF Shape
  <2>3. line \notin {"header", "rows"} \/ this.layer.json = <<>>
    OBVIOUS
  <2> HIDE DEF r, line
  <2> QED
    BY <1>2, <2>1, <2>2, <2>3
<1>6. CASE AcquireKeys(d)
  <2> DEFINE r == [this EXCEPT !.line = "query", !.cx = Idle]
  <2>1. Move(d, r)
    BY <1>6 DEF AcquireKeys
  <2>2. /\ r.found = this.found /\ r.warned = this.warned /\ r.stale = this.stale
        /\ r.pivotColumnNames = this.pivotColumnNames /\ r.layer = this.layer
        /\ r.snapshot = this.snapshot /\ r.line = "query"
    BY <1>1 DEF Shape
  <2> HIDE DEF r
  <2> QED
    BY <1>2, <2>1, <2>2
<1>7. CASE WriteHeader(d)
  <2> DEFINE r == [this EXCEPT !.line = "rows"]
  <2>1. Move(d, r) /\ this.line = "header"
    BY <1>7 DEF WriteHeader
  <2>2. /\ r.found = this.found /\ r.warned = this.warned /\ r.stale = this.stale
        /\ r.pivotColumnNames = this.pivotColumnNames /\ r.layer = this.layer
        /\ r.snapshot = this.snapshot
    BY <1>1 DEF Shape
  <2> HIDE DEF r
  <2> QED
    BY <1>2, <2>1, <2>2
<1>8. CASE WriteRow(d)
  <2> DEFINE out == Append(this.out, RowCells(this.layer,
                      this.snapshot[Len(this.out) + 1], this.pivotColumnNames))
             r == [this EXCEPT !.out = out]
  <2>1. Move(d, r) /\ this.line = "rows"
    BY <1>8 DEF WriteRow
  <2> HIDE DEF out
  <2>2. /\ r.found = this.found /\ r.warned = this.warned /\ r.stale = this.stale
        /\ r.pivotColumnNames = this.pivotColumnNames /\ r.layer = this.layer
        /\ r.snapshot = this.snapshot
    BY <1>1 DEF Shape
  <2> HIDE DEF r
  <2> QED
    BY <1>2, <2>1, <2>2
<1> QED
  BY <1>3, <1>4, <1>5, <1>6, <1>7, <1>8

LEMMA QueryKeysTyped ==
  ASSUME IInv, KeysInv, TypesInv, NEW d \in Downloads, QueryKeys(d)
  PROVE  TypesInv'
<1> DEFINE this == downloads[d]
           keys == KeysOf(this.layer.json[this.i])
           r == [this EXCEPT !.line = "keys", !.i = this.i + 1,
                             !.found = this.found \cup keys]
<1>1. Shape(this) /\ Typed(this) /\ this.line = "query" /\ Move(d, r)
  BY Known DEF TypesInv, QueryKeys
<1>2. keys \subseteq Keys
  BY <1>1, AskedKeys
<1> HIDE DEF keys
<1>3. /\ r.found = this.found \cup keys /\ r.warned = this.warned
      /\ r.stale = this.stale /\ r.pivotColumnNames = this.pivotColumnNames
      /\ r.snapshot = this.snapshot /\ r.line = "keys"
  BY <1>1 DEF Shape
<1> HIDE DEF r
<1>4. Typed(r)
  BY <1>1, <1>2, <1>3 DEF Typed, Named
<1> QED
  BY <1>1, <1>4, OneTyped

LEMMA EndKeysTyped ==
  ASSUME IInv, KeysInv, TypesInv, NEW d \in Downloads, NEW warned \in BOOLEAN,
         EndKeys(d, warned)
  PROVE  TypesInv'
<1> DEFINE this == downloads[d]
           names == PivotColumns(this.layer, this.found)
           r == [this EXCEPT !.line = "header", !.cx = NULL,
                             !.pivotColumnNames = names, !.warned = warned]
<1>1. Shape(this) /\ Typed(this) /\ Move(d, r)
  BY Known DEF TypesInv, EndKeys
<1>2. names \in Seq(Keys) /\ this.found \in SUBSET Keys
  BY <1>1, PivotColumnsFacts DEF Typed
<1> HIDE DEF names
<1>3. /\ r.found = this.found /\ r.warned = warned
      /\ r.stale = this.stale /\ r.pivotColumnNames = names
      /\ r.layer = this.layer /\ r.snapshot = this.snapshot
  BY <1>1 DEF Shape
<1> HIDE DEF r
<1>4. Typed(r)
  BY <1>1, <1>2, <1>3 DEF Typed, Named, names
<1> QED
  BY <1>1, <1>4, OneTyped

LEMMA AlterTableTyped ==
  ASSUME IInv, TypesInv, AlterTable
  PROVE  TypesInv'
<1> SUFFICES ASSUME NEW d \in Downloads PROVE Typed(downloads'[d])
  BY DEF TypesInv
<1> DEFINE this == downloads[d]
           r == [this EXCEPT !.stale = TRUE]
<1>1. Shape(this) /\ Typed(this)
  BY OwnFacts DEF TypesInv
<1>2. downloads'[d] = IF this.line \in {"keys", "query"} THEN r ELSE this
  BY DEF AlterTable
<1>3. /\ r.found = this.found /\ r.warned = this.warned
      /\ r.stale = TRUE /\ r.pivotColumnNames = this.pivotColumnNames
      /\ r.layer = this.layer /\ r.snapshot = this.snapshot /\ r.line = this.line
  BY <1>1 DEF Shape
<1> HIDE DEF r
<1>4. Typed(r)
  BY <1>1, <1>3 DEF Typed, Named
<1> QED
  BY <1>1, <1>2, <1>4

LEMMA StepTyped ==
  ASSUME IInv, KeysInv, TypesInv, NEW d \in Downloads, Step(d) \/ Failure(d)
  PROVE  TypesInv'
<1>1. ASSUME NEW line \in Ended, End(d, line) PROVE TypesInv'
  BY <1>1, IdleTyped DEF End
<1>2. CASE \/ AcquireMetadata(d) \/ Describe(d) \/ OpenFeatures(d) \/ AcquireKeys(d)
           \/ WriteHeader(d) \/ WriteRow(d)
  BY <1>2, GoesOnTyped
<1>3. CASE QueryKeys(d)
  BY <1>3, QueryKeysTyped
<1>4. CASE CloseKeys(d) \/ QueryKeysFails(d)
  <2>1. \E warned \in BOOLEAN : EndKeys(d, warned)
    BY <1>4 DEF CloseKeys, QueryKeysFails
  <2> QED
    BY <2>1, EndKeysTyped
<1>5. CASE AcquireKeysFails(d)
  BY <1>1, <1>5, EndKeysTyped DEF AcquireKeysFails, Ended
<1>6. CASE \/ AcquireFails(d) \/ ConstructorFails(d) \/ WriteHeaderFails(d)
           \/ DescribeFails(d) \/ Finish(d) \/ WriteRowFails(d)
  BY <1>1, <1>6 DEF AcquireFails, ConstructorFails, WriteHeaderFails, DescribeFails,
                    Finish, WriteRowFails, CloseFeatures, Ended
<1> QED
  BY <1>2, <1>3, <1>4, <1>5, <1>6 DEF Step, Failure

LEMMA TypesInductive == Spec => []TypesInv
<1>1. Init => TypesInv
  <2> SUFFICES ASSUME Init, NEW d \in Downloads PROVE Typed(downloads[d])
    BY DEF TypesInv
  <2>1. downloads[d] = IdleDownload
    BY DEF Init
  <2> QED
    BY <2>1, EmptySeq DEF Typed, Named, IdleDownload
<1>2. IInv /\ KeysInv /\ TypesInv /\ [Next]_vars => TypesInv'
  <2> SUFFICES ASSUME IInv, KeysInv, TypesInv, [Next]_vars PROVE TypesInv'
    OBVIOUS
  <2>1. CASE UNCHANGED vars
    BY <2>1 DEF vars, TypesInv
  <2>2. ASSUME NEW d \in Downloads, NEW layer \in Layers, Start(d, layer)
        PROVE  TypesInv'
    BY <2>2, IdleTyped DEF Start
  <2> QED
    BY <2>1, <2>2, StepTyped, AlterTableTyped DEF Next
<1> QED
  BY <1>1, <1>2, Inductive, KeysInductive, PTL DEF Spec

(* The variables have their types: the rows of every file are made of      *)
(* values and default values of its JSON columns, of texts that are empty, *)
(* and of attributes.                                                      *)
THEOREM TypeCorrect == Spec => []TypeOK
<1>1. IInv /\ KeysInv /\ TypesInv => TypeOK
  <2> SUFFICES ASSUME IInv, KeysInv, TypesInv PROVE TypeOK
    OBVIOUS
  <2>1. ASSUME NEW d \in Downloads
        PROVE  downloads[d] \in DownloadRecord
    <3> DEFINE this == downloads[d]
    <3>1. Shape(this) /\ Typed(this) /\ Knows(this, table) /\ Owns(this, held[d])
      BY Known, OwnFacts DEF TypesInv
    <3>2. this.out \in Seq(Seq(CellRecord))
      <4>1. CASE this.line = "rows"
        <5>1. this.out \in Seq(RowsOf(this)) /\ this.layer \in Layers
          BY <3>1, <4>1 DEF Knows, Owns
        <5>2. ASSUME NEW row \in RowsOf(this) PROVE row \in Seq(CellRecord)
          <6>1. this.layer.json # <<>> =>
                  \E K \in SUBSET Keys : this.pivotColumnNames = PivotColumns(this.layer, K)
            BY <3>1, <4>1 DEF Typed, Named
          <6> QED
            BY <5>1, <6>1, RowCellsFacts DEF RowsOf, RowIs
        <5> DEFINE S == Seq(CellRecord)
                   n == Len(this.out)
        <5>3. n \in Nat /\ this.out \in [1..n -> RowsOf(this)]
          BY <5>1, LenProperties
        <5>4. this.out \in [1..n -> S]
          BY <5>2, <5>3
        <5> HIDE DEF S, n
        <5>5. this.out \in Seq(S)
          BY <5>3, <5>4, SeqDef
        <5> QED
          BY <5>5 DEF S
      <4>2. CASE this.line # "rows"
        BY <3>1, <4>2, EmptySeq DEF Knows
      <4> QED
        BY <4>1, <4>2
    <3> QED
      BY <3>1, <3>2 DEF Shape, Typed, DownloadRecord
  <2>2. downloads \in [Downloads -> DownloadRecord]
    BY <2>1 DEF IInv, DownloadsOK
  <2> QED
    BY <2>2 DEF TypeOK, IInv, PoolOK, KeysInv
<1> QED
  BY <1>1, Inductive, KeysInductive, TypesInductive, PTL

-----------------------------------------------------------------------------
(* Rows against their header                                               *)

(* Titles t that begin with the names of a head h and of keys s, and       *)
(* repeat the keys n times in all.                                         *)
Begins(t, h, s, n, k) ==
  /\ Len(s) = k /\ Len(t) = Len(h) + n * k
  /\ \A p \in 1..Len(h) : t[p] = h[p]
  /\ \A i \in 1..n, q \in 1..k : t[Len(h) + ((i - 1) * k + q)] = s[q]
  /\ \A p \in 1..(n * k) : \E i \in 1..n, q \in 1..k : p = (i - 1) * k + q

Repeats(t, names, s, n, k) ==
  /\ IsPrefix(names, t)
  /\ (t = names) <=> (n <= 1 \/ s = <<>>)
  /\ Len(t) = Len(names) + (n - 1) * k
  /\ \A p \in DOMAIN t : p > Len(names) => t[p] = t[p - k]

LEMMA TitlesRepeat ==
  ASSUME NEW T, NEW h \in Seq(T), NEW s \in Seq(T), NEW t \in Seq(T),
         NEW n \in Nat \ {0}, NEW k \in Nat, Begins(t, h, s, n, k)
  PROVE  Repeats(t, h \o s, s, n, k)
<1> USE DEF Begins
<1> DEFINE l == Len(h)
           names == h \o s
<1>1. l \in Nat /\ names \in Seq(T) /\ Len(names) = l + k
  <2>1. l \in Nat
    BY LenProperties
  <2>2. h \o s \in Seq(T) /\ Len(h \o s) = Len(h) + Len(s)
    BY ConcatProperties
  <2> QED
    BY <2>1, <2>2
<1>2. PICK e \in Nat : n = 1 + e
  <2>1. n - 1 \in Nat /\ n = 1 + (n - 1)
    OBVIOUS
  <2> QED
    BY <2>1
<1>3. n * k = k + e * k /\ (n - 1) * k = e * k /\ e * k \in Nat
  BY <1>2
<1>4. ASSUME NEW p \in 1..(l + k) PROVE t[p] = names[p]
  <2>1. CASE p \in 1..l
    BY <1>1, <2>1
  <2>2. CASE ~(p \in 1..l)
    <3>1. p - l \in 1..k /\ p = l + (p - l) /\ 1 \in 1..n
      BY <1>1, <2>2
    <3>2. t[l + ((1 - 1) * k + (p - l))] = s[p - l]
      BY <3>1
    <3>3. l + ((1 - 1) * k + (p - l)) = p
      BY <1>1
    <3>4. names[p] = s[p - l]
      BY <1>1, <2>2
    <3> QED
      BY <3>2, <3>3, <3>4
  <2> QED
    BY <2>1, <2>2
<1> DEFINE more == e * k
<1>5. Len(t) = Len(names) + more /\ Len(names) \in Nat /\ more \in Nat
  <2> DEFINE all == n * k
  <2>1. more \in Nat /\ all = k + more /\ Len(t) = l + all
    BY <1>3
  <2>2. l \in Nat /\ Len(names) = l + k
    BY <1>1
  <2> DEFINE m == Len(names)
             w == Len(t)
  <2>3. w = l + all /\ m = l + k
    BY <2>1, <2>2
  <2> HIDE DEF more, all, m, w, l
  <2>4. w = m + more /\ m \in Nat /\ more \in Nat
    BY <2>1, <2>2, <2>3
  <2> QED
    BY <2>4 DEF m, w
<1> HIDE DEF names
<1>6. IsPrefix(names, t)
  <2>1. Len(names) \in Nat /\ Len(names) <= Len(t)
    <3> HIDE DEF more
    <3> QED
      BY <1>5
  <2>2. SubSeq(names, 1, Len(names)) = SubSeq(t, 1, Len(names))
    <3>1. SubSeq(names, 1, Len(names)) = [p \in 1..Len(names) |-> names[p]]
      BY <1>1, <2>1
    <3>2. SubSeq(t, 1, Len(names)) = [p \in 1..Len(names) |-> t[p]]
      BY <1>1, <2>1
    <3> QED
      BY <1>1, <1>4, <3>1, <3>2
  <2> QED
    BY <2>1, <2>2 DEF IsPrefix
<1>7. (t = names) <=> (n <= 1 \/ s = <<>>)
  <2>1. CASE e = 0 \/ k = 0
    <3>1. more = 0
      BY <1>2, <2>1
    <3>2. Len(t) = Len(names)
      <4> HIDE DEF more
      <4> QED
        BY <1>5, <3>1
    <3>3. t = names
      BY <1>1, <1>4, <3>2, SeqEqual
    <3>4. k = 0 => s = <<>>
      BY EmptySeq
    <3> QED
      BY <1>2, <2>1, <3>3, <3>4
  <2>2. CASE e # 0 /\ k # 0
    <3>1. more # 0
      BY <1>2, <2>2
    <3>2. Len(t) # Len(names)
      <4> HIDE DEF more
      <4> QED
        BY <1>5, <3>1
    <3>3. ~(n <= 1) /\ s # <<>>
      BY <1>2, <2>2
    <3> QED
      BY <3>2, <3>3
  <2> QED
    BY <2>1, <2>2
<1>8. ASSUME NEW p \in DOMAIN t, p > l + k PROVE t[p] = t[p - k]
  <2>1. p - l \in 1..(n * k)
    BY <1>1, <1>8
  <2>2. PICK i \in 1..n, q \in 1..k : p - l = (i - 1) * k + q
    BY <2>1
  <2>3. i # 1
    <3> SUFFICES ASSUME i = 1 PROVE FALSE
      OBVIOUS
    <3>1. p - l = q
      BY <2>2
    <3> QED
      BY <1>1, <1>8, <3>1
  <2>4. i - 1 \in 1..n
    BY <2>3
  <2>5. (i - 1) * k = (i - 1 - 1) * k + k
    BY <2>4
  <2>6. p - k = l + ((i - 1 - 1) * k + q) /\ p = l + ((i - 1) * k + q)
    <3> DEFINE a == (i - 1 - 1) * k
               b == (i - 1) * k
    <3>1. a \in Int /\ b = a + k /\ p - l = b + q /\ p \in Nat
      BY <1>1, <2>2, <2>5
    <3>2. l \in Nat /\ q \in Nat
      BY <1>1
    <3> HIDE DEF a, b, l
    <3>3. p - k = l + (a + q) /\ p = l + (b + q)
      BY <3>1, <3>2
    <3> QED
      BY <3>3 DEF a, b
  <2>7. t[l + ((i - 1 - 1) * k + q)] = s[q] /\ t[l + ((i - 1) * k + q)] = s[q]
    BY <2>4
  <2> QED
    BY <2>6, <2>7
<1>9. Len(t) = Len(names) + (n - 1) * k
  BY <1>3, <1>5
<1> QED
  BY <1>1, <1>6, <1>7, <1>8, <1>9, Zenon DEF names, l, Repeats

LEMMA TitlesFacts ==
  ASSUME NEW T, NEW cells \in Seq(T)
  PROVE  /\ Titles(cells) \in Seq({c.title : c \in T}) /\ Len(Titles(cells)) = Len(cells)
         /\ \A p \in 1..Len(cells) : Titles(cells)[p] = cells[p].title
<1> DEFINE n == Len(cells)
           U == {c.title : c \in T}
           t == Titles(cells)
<1>1. n \in Nat /\ cells \in [1..n -> T] /\ DOMAIN cells = 1..n
  BY LenProperties
<1>2. t = [p \in DOMAIN cells |-> cells[p].title]
  BY DEF Titles
<1>3. \A c \in T : c.title \in U
  OBVIOUS
<1> HIDE DEF n, U, t
<1>4. t = [p \in 1..n |-> cells[p].title]
  BY <1>1, <1>2
<1>5. t \in [1..n -> U]
  BY <1>1, <1>3, <1>4
<1>6. t \in Seq(U) /\ Len(t) = n
  BY <1>1, <1>5, SeqDef
<1> QED
  BY <1>4, <1>6 DEF n, U, t

(* Each row of a file is the header's names, and then the keys again for   *)
(* every other JSON column: values are under their titles exactly if there *)
(* is one such column, or no key.                                          *)
THEOREM RowsAlwaysRepeat == Spec => []RowsRepeatPivotColumns
<1>1. IInv /\ KeysInv /\ TypesInv => RowsRepeatPivotColumns
  <2> SUFFICES ASSUME IInv, KeysInv, TypesInv, NEW d \in Downloads,
                      downloads[d].line = "rows", ~getConfig(downloads[d].layer).desc,
                      NEW j \in DOMAIN downloads[d].out
               PROVE  LET this   == downloads[d]
                          names  == getColumnNames(this)
                          pivot  == this.pivotColumnNames
                          titles == Titles(this.out[j])
                      IN  /\ IsPrefix(names, titles)
                          /\ (titles = names) <=> (Len(this.layer.json) <= 1 \/ pivot = <<>>)
                          /\ Len(titles) =
                               Len(names) + (IF Len(this.layer.json) = 0 THEN 0
                                             ELSE (Len(this.layer.json) - 1) * Len(pivot))
                          /\ \A p \in DOMAIN titles :
                               p > Len(names) => titles[p] = titles[p - Len(pivot)]
    BY Zenon DEF RowsRepeatPivotColumns
  <2> DEFINE this   == downloads[d]
             layer  == this.layer
             names  == getColumnNames(this)
             pivot  == this.pivotColumnNames
             cells  == this.out[j]
             titles == Titles(cells)
             n      == Len(layer.json)
             head   == HeadOf(layer)
             R      == {c.title : c \in CellRecord}
             U      == R \cup PlainColumns \cup {FID} \cup Keys
  <2>1. /\ Typed(this) /\ Knows(this, table) /\ layer \in Layers
        /\ this.out \in Seq(RowsOf(this))
    BY Known, OwnFacts DEF TypesInv, Owns, Knows
  <2>2. /\ n \in Nat /\ (layer.json = <<>> <=> n = 0)
    BY <2>1, LayerParts
  <2>3. PICK row \in Row : cells = RowCells(layer, row, pivot)
    <3>1. cells \in RowsOf(this)
      BY <2>1, ElementOfSeq
    <3> QED
      BY <3>1 DEF RowsOf
  <2>4. layer.json # <<>> => \E K \in SUBSET Keys : pivot = PivotColumns(layer, K)
    BY <2>1 DEF Typed, Named
  <2>5. RowIs(cells, layer, pivot, head, n)
    <3>1. RowIs(RowCells(layer, row, pivot), layer, pivot, head, n)
      <4> HIDE DEF layer, pivot
      <4> QED
        BY <2>1, <2>4, RowCellsFacts
    <3> QED
      BY <2>3, <3>1
  <2>6. names = IF n = 0 THEN head ELSE head \o pivot
    BY <2>2 DEF getColumnNames, HeadOf
  <2>7. ~getConfig(layer).desc
    OBVIOUS
  <2> HIDE DEF cells, head, n, names, pivot, layer
  <2>8. /\ titles \in Seq(R) /\ Len(titles) = Len(cells)
        /\ \A p \in 1..Len(cells) : titles[p] = cells[p].title
    BY <2>5, TitlesFacts DEF RowIs
  <2> HIDE DEF titles, R
  <2>9. titles \in Seq(U) /\ head \in Seq(U) /\ Len(head) \in Nat
    BY <2>5, <2>8, LenProperties DEF RowIs
  <2> HIDE DEF U
  <2>10. CASE n = 0
    <3>1. Len(titles) = Len(head) /\ \A p \in 1..Len(titles) : titles[p] = head[p]
      BY <2>5, <2>8, <2>9, <2>10 DEF RowIs
    <3>2. titles = head
      BY <2>9, <3>1, SeqEqual
    <3>3. names = titles
      BY <2>6, <2>10, <3>2
    <3>4. IsPrefix(names, titles) /\ ~\E p \in DOMAIN titles : p > Len(names)
      BY <2>9, <3>2, <3>3 DEF IsPrefix
    <3>5. Len(titles) = Len(names) + 0
      BY <2>9, <3>2, <3>3
    <3> QED
      BY <2>10, <3>3, <3>4, <3>5 DEF titles, cells, names, n, layer, pivot
  <2>11. CASE n # 0
    <3>1. PICK K \in SUBSET Keys : Spread(cells, layer, pivot, Len(head), n, K)
      BY <2>5, <2>11, Zenon DEF RowIs
    <3> DEFINE k == Cardinality(K)
    <3>2. /\ pivot = Ascending(K) /\ k \in Nat /\ Len(pivot) = k
          /\ pivot \in Seq(Keys)
      BY <2>7, <3>1, PivotColumnsFacts, SomeKeys, AscendingFacts DEF Spread
    <3>3. pivot \in Seq(U) /\ n \in Nat \ {0}
      BY <2>2, <2>11, <3>2 DEF U
    <3>4. /\ Len(titles) = Len(head) + n * k
          /\ \A p \in 1..(n * k) : \E i \in 1..n, q \in 1..k : p = (i - 1) * k + q
      BY <2>8, <3>1 DEF Spread
    <3>5. \A p \in 1..Len(head) : titles[p] = head[p]
      <4>1. n * k \in Nat
        BY <3>2, <3>3
      <4> DEFINE all == n * k
      <4> HIDE DEF all
      <4>2. \A p \in 1..Len(head) : p \in 1..(Len(head) + all)
        BY <2>9, <4>1 DEF all
      <4>3. 1..Len(cells) = 1..(Len(head) + all)
        BY <2>8, <3>4 DEF all
      <4> QED
        BY <2>5, <2>8, <4>2, <4>3 DEF RowIs
    <3>6. ASSUME NEW i \in 1..n, NEW q \in 1..k
          PROVE  titles[Len(head) + ((i - 1) * k + q)] = pivot[q]
      <4> DEFINE p == (i - 1) * k + q
                 all == n * k
      <4>1. p \in 1..all
        <5>1. i \in Nat \ {0} /\ i < n + 1 /\ n + 1 \in Nat \ {0} /\ n + 1 - 1 = n
          BY <3>3
        <5>3. k \in Nat /\ q \in 1..k
          BY <3>2
        <5> DEFINE m == n + 1
        <5>4. i < m /\ m \in Nat \ {0} /\ i \in Nat \ {0}
          BY <5>1
        <5>5. m - 1 = n
          BY <3>3
        <5> HIDE DEF k, m
        <5>2. p \in 1..((m - 1) * k)
          BY <5>3, <5>4, Blocks
        <5> QED
          BY <5>2, <5>5
      <4>2. cells[Len(head) + p].title = pivot[q]
        BY <3>1, <3>2 DEF Spread
      <4>3. Len(cells) = Len(head) + all
        BY <3>1 DEF Spread
      <4>4. all \in Nat
        BY <3>2, <3>3
      <4> HIDE DEF p, all
      <4>5. Len(head) + p \in 1..Len(cells)
        BY <2>9, <4>1, <4>3, <4>4
      <4>6. titles[Len(head) + p] = cells[Len(head) + p].title
        BY <2>8, <4>5
      <4> QED
        BY <4>2, <4>6 DEF p
    <3>7. names = head \o pivot
      BY <2>6, <2>11
    <3> HIDE DEF k
    <3>8. Repeats(titles, names, pivot, n, k)
      <4>1. Repeats(titles, head \o pivot, pivot, n, k)
        <5>1. Begins(titles, head, pivot, n, k)
          BY <3>2, <3>4, <3>5, <3>6, Zenon DEF Begins
        <5>2. k \in Nat
          BY <3>2
        <5> QED
          BY <2>9, <3>3, <5>1, <5>2, TitlesRepeat
      <4> QED
        BY <3>7, <4>1
    <3>9. Len(titles) = Len(names) + (IF n = 0 THEN 0 ELSE (n - 1) * Len(pivot))
      BY <2>11, <3>2, <3>8 DEF Repeats
    <3>10. \A p \in DOMAIN titles : p > Len(names) => titles[p] = titles[p - Len(pivot)]
      BY <3>2, <3>8 DEF Repeats
    <3>11. IsPrefix(names, titles) /\ ((titles = names) <=> (n <= 1 \/ pivot = <<>>))
      BY <3>8, Zenon DEF Repeats
    <3> QED
      BY <3>11, <3>9, <3>10, Zenon DEF titles, cells, names, n, layer, pivot
  <2> QED
    BY <2>10, <2>11
<1> QED
  BY <1>1, Inductive, KeysInductive, TypesInductive, PTL

=============================================================================
