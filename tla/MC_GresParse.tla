---------------------------- MODULE MC_GresParse ----------------------------
(***************************************************************************)
(* parseGresGpuCount checked against what the fields mean, over every     *)
(* field built from a small grammar of the GRES and TRES strings Slurm    *)
(* prints.  The state is the field under test; a step picks another.      *)
(***************************************************************************)
EXTENDS GresParse

CONSTANTS
    MaxItems,   \* most GRES entries in one legacy field
    MaxPairs    \* most key=value pairs in one TRES field

ASSUME BoundsAssumption == MaxItems \in Nat \ {0} /\ MaxPairs \in Nat \ {0}

(* A legacy GRES entry name[:type]:count[(IDX:...)]; the IDX list may     *)
(* itself hold a comma.                                                    *)
GresItem ==
    [name: {"gpu", "GPU", "cpu"}, type: {<<>>, <<":", "tesla">>},
     count: {<<"1">>, <<"2">>, <<"1", "0">>},
     idx: {<<>>, <<"(", "IDX", ":", "0", ")">>,
           <<"(", "IDX", ":", "0", ",", "2", ")">>}]

RenderItem(it) == <<it.name>> \o it.type \o <<":">> \o it.count \o it.idx

(* A TRES pair key=value; a memory value such as "1M" is not a number.    *)
TresPair ==
    [key: {<<"cpu">>, <<"mem">>, <<"gres/gpu">>, <<"gres/gpu", ":", "tesla">>},
     value: {<<"1">>, <<"2">>, <<"1", "M">>}]

RenderPair(pr) == pr.key \o <<"=">> \o pr.value

(* Join rendered pieces with a separator.                                  *)
Join(pieces, sep) ==
    FoldLeft(LAMBDA acc, x : IF acc = <<>> THEN x ELSE acc \o <<sep>> \o x,
             <<>>, pieces)

NonEmptySeqs(S, n) == BoundedSeq(S, n) \ {<<>>}

Fields ==
    [kind: {"gres"}, items: NonEmptySeqs(GresItem, MaxItems)]
    \cup [kind: {"tres"}, pairs: NonEmptySeqs(TresPair, MaxPairs)]

Render(f) ==
    IF f.kind = "gres"
    THEN Join([i \in DOMAIN f.items |-> RenderItem(f.items[i])], ",")
    ELSE Join([i \in DOMAIN f.pairs |-> RenderPair(f.pairs[i])], ",")

(* What a legacy field means: the sum of the counts of its gpu entries,   *)
(* the name compared without case.                                         *)
GpusOfItems(items) ==
    FoldLeft(LAMBDA acc, it :
                 acc + IF it.name \in {"gpu", "GPU"} THEN ParseFloat(it.count).val
                                                    ELSE 0,
             0, items)

VARIABLE field

Init == field \in Fields
Next == field' \in Fields
Spec == Init /\ [][Next]_field

(* Spec 4.4 and TestParseGresGpuCount: a legacy GRES field counts the     *)
(* GPUs of all its gpu entries, typed or not, in any case, with or        *)
(* without an IDX annotation, even one whose index list has a comma.      *)
LegacyCountsGpus ==
    field.kind = "gres" => ParseGresGpuCount(Render(field)) = GpusOfItems(field.items)

(* Spec 4.4: in a TRES field every key but gres/gpu[:type] is ignored:    *)
(* removing the cpu and mem pairs does not change the count.               *)
TresIgnoresOtherKeys ==
    field.kind = "tres" =>
        LET gpuPairs == SelectSeq(field.pairs, LAMBDA pr : pr.key[1] = "gres/gpu")
        IN  ParseGresGpuCount(Render(field))
              = ParseGresGpuCount(Join([i \in DOMAIN gpuPairs |->
                                          RenderPair(gpuPairs[i])], ","))
=============================================================================
