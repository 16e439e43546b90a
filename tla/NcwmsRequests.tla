--------------------------- MODULE NcwmsRequests ---------------------------
(***************************************************************************)
(* What a request to the ncwms service is made of, and what of it is sent  *)
(* on to thredds: the descriptor of the layer in LAYERS, LAYER or          *)
(* layerName, the URL of a file under the substitutions of ncwms.xml, and  *)
(* the parameters.                                                         *)
(*                                                                         *)
(* Texts and URLs are sequences of tokens: a name, a separator, a part of  *)
(* a path.  A separator is one character, other tokens contain none.       *)
(***************************************************************************)
EXTENDS Integers, Sequences, SequencesExt, FiniteSetsExt, Ordered

CONSTANTS
  DefaultTimeField, \* "time"
  DefaultUrlField,  \* "file_url"
  NULL              \* Java's null

-----------------------------------------------------------------------------
(* LayerDescriptor *)

(* String.split: the parts between the separators, without the empty ones  *)
(* at the end; a text without the separator is its only part.              *)
Split(text, separator) ==
  LET cuts     == Ascending({i \in DOMAIN text : text[i] = separator})
      start(i) == IF i = 1 THEN 1 ELSE cuts[i - 1] + 1
      end(i)   == IF i > Len(cuts) THEN Len(text) ELSE cuts[i] - 1
      parts    == [i \in 1..(Len(cuts) + 1) |-> SubSeq(text, start(i), end(i))]
      last     == Max({0} \cup {i \in DOMAIN parts : parts[i] # <<>>})
  IN  IF cuts = <<>> THEN <<text>> ELSE SubSeq(parts, 1, last)

LayerAndWorkspace(text) == Split(text, "/")[1]

(* The workspace is expected if there is a colon anywhere in the text.     *)
LayerInformation(text) ==
  IF Contains(text, ":") THEN Split(LayerAndWorkspace(text), ":")[2]
  ELSE LayerAndWorkspace(text)

FieldNames(text) == Split(Split(LayerInformation(text), "#")[2], ",")

(* Whether the constructor returns: no part that it asks for is missing.   *)
IsDescriptor(text) ==
  /\ Contains(text, "/") /\ Len(Split(text, "/")) >= 2
  /\ Contains(text, ":") => Len(Split(LayerAndWorkspace(text), ":")) >= 2
  /\ Contains(LayerInformation(text), "#") =>
       Len(Split(LayerInformation(text), "#")) >= 2 /\ Len(FieldNames(text)) >= 2

(* What the constructor reads out of the text.                             *)
LayerDescriptor(text) ==
  LET information == LayerInformation(text)
      hasFields   == Contains(information, "#")
  IN  [workspace |-> IF Contains(text, ":")
                     THEN Split(LayerAndWorkspace(text), ":")[1] ELSE NULL,
       layer     |-> IF hasFields THEN Split(information, "#")[1] ELSE information,
       timeField |-> IF hasFields THEN FieldNames(text)[1] ELSE <<DefaultTimeField>>,
       urlField  |-> IF hasFields THEN FieldNames(text)[2] ELSE <<DefaultUrlField>>,
       netCDFVariable |-> Split(text, "/")[2]]

geoserverName(descriptor) ==
  (IF descriptor.workspace = NULL THEN <<>> ELSE Append(descriptor.workspace, ":"))
    \o descriptor.layer

-----------------------------------------------------------------------------
(* NcwmsConfig: an element urlSubstitution is a key, a regular expression  *)
(* that may be anchored at the start of the URL, and what replaces it.     *)

(* getConfigMap: the last element of a key counts.                         *)
ConfigMap(elements) ==
  LET last(key) == Max({i \in DOMAIN elements : elements[i].key = key})
  IN  [key \in {elements[i].key : i \in DOMAIN elements} |-> elements[last(key)].text]

(* replaceAll, for keys that are anchored or one token.                    *)
replaceAll(url, key, replacement) ==
  IF key.anchored
  THEN IF IsPrefix(key.text, url)
       THEN replacement \o SubSeq(url, Len(key.text) + 1, Len(url)) ELSE url
  ELSE LET upTo[i \in 0..Len(url)] ==
             IF i = 0 THEN <<>>
             ELSE upTo[i - 1] \o IF key.text = <<url[i]>> THEN replacement ELSE <<url[i]>>
       IN  upTo[Len(url)]

(* The keys in the order in which the HashMap happens to have them.        *)
mangleUrl(url, substitutions, keys) ==
  LET after[i \in 0..Len(keys)] ==
        IF i = 0 THEN url ELSE replaceAll(after[i - 1], keys[i], substitutions[keys[i]])
  IN  after[Len(keys)]

-----------------------------------------------------------------------------
(* proxyWmsRequest's parameters *)

layerParameter(operation) ==
  IF operation = "GetLegendGraphic" THEN "LAYER" ELSE "LAYERS"

(* What a client sends: TIME if it has one, and the layer's text under one *)
(* or, for a map's values at a point, two names.                           *)
RequestParameters(operation, text, time) ==
  LET layers == {layerParameter(operation)}
                  \cup (IF operation = "GetFeatureInfo" THEN {"QUERY_LAYERS"} ELSE {})
      times  == IF time = NULL THEN {} ELSE {"TIME"}
  IN  [name \in layers \cup times |-> IF name = "TIME" THEN time ELSE text]

(* Mutant of wmsParameters: QUERY_LAYERS is passed on as it is.            *)
wmsParametersLayersOnly(parameters, operation, descriptor, mismatch) ==
  [name \in (DOMAIN parameters \ (IF mismatch THEN {"TIME"} ELSE {}))
              \cup {layerParameter(operation)} |->
     IF name = layerParameter(operation) THEN descriptor.netCDFVariable
     ELSE parameters[name]]

(* TIME is dropped for the collections of collectionsWithTimeMismatch, and *)
(* the layer's text is replaced by the variable.                           *)
wmsParameters(parameters, operation, descriptor, mismatch) ==
  [name \in (DOMAIN parameters \ (IF mismatch THEN {"TIME"} ELSE {}))
              \cup {layerParameter(operation)} |->
     IF name \in {layerParameter(operation), "QUERY_LAYERS"}
     THEN descriptor.netCDFVariable ELSE parameters[name]]

=============================================================================
