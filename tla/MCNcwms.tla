------------------------------ MODULE MCNcwms ------------------------------
(* Days of two milliseconds of two ticks, months of two days and years of  *)
(* two months: the instants lie in two months and on both sides of every   *)
(* kind of midnight, and one of them is between two milliseconds.          *)
(*                                                                         *)
(* One file has no time, and one no URL.  ncwms.xml is as the repository's *)
(* sample, has one key twice, has a key for the other one's result, or     *)
(* cannot be read.  GetMap is GetFeatureInfo without QUERY_LAYERS.         *)
EXTENDS Ncwms

MCInstants == {2, 4, 7, 10}

Path == <<"/mnt/", "file">>

MCFiles == [time: MCInstants \cup {NULL}, url: {Path}] \cup {[time |-> 4, url |-> NULL]}

Mnt  == [anchored |-> FALSE, text |-> <<"/mnt/">>]
Imos == [anchored |-> TRUE, text |-> <<"/IMOS/">>]

Substitution(key, to) == [key |-> key, text |-> to]
Sample == <<Substitution(Mnt, <<"http://", "wms/">>), Substitution(Imos, <<"http://">>)>>
Twice  == <<Substitution(Mnt, <<"lost">>), Substitution(Mnt, <<"http://">>)>>
Clash  == <<Substitution(Mnt, <<"/IMOS/">>), Substitution(Imos, <<"http://">>)>>

MCServers ==
  [offset: {-1, 0, 1}, elements: {Twice}] \cup [offset: {0}, elements: {Sample, Clash, <<>>}]

MCNames == {<<"argo">>, <<"imos", ":", "argo">>}
MCMismatching == {<<"imos", ":", "argo">>}

MCDescribed ==
  {[workspace |-> NULL, layer |-> <<"argo">>, fields |-> FALSE, variable |-> <<"temp">>],
   [workspace |-> <<"imos">>, layer |-> <<"argo">>, fields |-> TRUE, variable |-> <<"temp">>]}

MCTexts ==
  {TextOf(d) : d \in MCDescribed} \cup
  {<<"argo">>, <<"imos", ":", "/", "temp">>, <<"argo", "/">>,
   <<"argo", "#", "time", "/", "temp">>, <<"argo", "/", "a", ":", "b">>,
   <<"imos", ":", "srs", "/", "temp">>, <<"argo", "#", "t", ",", "u", "/", "temp">>}

=============================================================================
