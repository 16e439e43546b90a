--------------------------- MODULE MCCsvDownloads ---------------------------
(* Two downloads, a pool of three connections, a table of two JSON columns *)
(* whose documents have up to two keys.                                    *)
EXTENDS CsvDownloads

CONSTANTS data, quality, depth, time   \* the columns

TwoColumns == {data, quality}
MCPlain    == {depth, time}

Pivot(desc, excludedFields) == [desc |-> desc, excludedFields |-> excludedFields]

OneColumn   == [json |-> <<data>>, plain |-> <<depth, time>>,
                pivot |-> Pivot(FALSE, {depth})]
BothColumns == [json |-> <<data, quality>>, plain |-> <<time>>, pivot |-> NULL]
NoColumn    == [json |-> <<>>, plain |-> <<depth>>, pivot |-> Pivot(TRUE, {depth})]
Unparsable  == [json |-> <<data, quality>>, plain |-> <<depth>>, pivot |-> Broken]
Descending  == [json |-> <<data>>, plain |-> <<time>>, pivot |-> Pivot(TRUE, {})]

MixedLayers == {OneColumn, BothColumns, NoColumn}
DescLayers  == {Unparsable, Descending}

FullRow  == [c \in TwoColumns |-> IF c = data THEN Object({1, 2}) ELSE Blank]
PartRow  == [c \in TwoColumns |-> IF c = data THEN Object({2}) ELSE Array]

MixedTables  == {<<FullRow>>, <<PartRow>>}
StableTables == {<<PartRow, FullRow>>}

=============================================================================
