------------------------------ MODULE GresParse ------------------------------
(***************************************************************************)
(* parseGresGpuCount of src/exporter/gpus.go: the GPU count of one GRES or *)
(* TRES field of a sinfo node or an sacct job.                             *)
(*                                                                         *)
(* A string is a sequence of lexemes: the separators ":", ",", "=", "(",  *)
(* ")", decimal digits, and words.  Every word that contains the letters   *)
(* "gpu" in any case is in GpuWords, every word that begins with "(" is    *)
(* in OpenWords, and no two lexemes put together spell "gpu" or "(" across *)
(* their boundary, so the substring tests of the code are membership tests *)
(* on lexemes.  The empty sequence is "".                                  *)
(***************************************************************************)
EXTENDS Integers, SequencesExt

(* Lexemes whose lower case contains "gpu".                                *)
GpuWords == {"gpu", "GPU", "gres/gpu"}

(* Lexemes that begin with "(".                                            *)
OpenWords == {"(", "(null)"}

DigitValue == ("0" :> 0) @@ ("1" :> 1) @@ ("2" :> 2) @@ ("4" :> 4)

(* strings.Split(s, sep): the pieces between the separators, empty ones   *)
(* included, so n separators give n + 1 pieces.                           *)
Split(s, sep) ==
    LET cuts == <<0>> \o SetToSortSeq({i \in 1..Len(s) : s[i] = sep}, <)
                      \o <<Len(s) + 1>>
    IN  [k \in 1..Len(cuts) - 1 |-> SubSeq(s, cuts[k] + 1, cuts[k + 1] - 1)]

(* strconv.ParseFloat on a numeral: it succeeds on a non-empty string of  *)
(* digits and fails on anything else.                                      *)
ParseFloat(s) ==
    IF s # <<>> /\ \A i \in 1..Len(s) : s[i] \in DOMAIN DigitValue
    THEN [ok |-> TRUE,
          val |-> FoldLeft(LAMBDA acc, d : 10 * acc + DigitValue[d], 0, s)]
    ELSE [ok |-> FALSE, val |-> 0]

(* The three strings that stand for "no GRES".                             *)
IsSentinel(s) == s \in {<<>>, <<"N/A">>, <<"(null)">>}

(* A mutant: the "gres/gpu" prefix test is left out of the TRES loop.     *)
TresAnyPart(part) ==
    LET eq == SelectInSeq(part, LAMBDA t : t = "=") IN
    /\ Len(part) > 0
    /\ eq # 0
    /\ eq < Len(part)
    /\ ParseFloat(SubSeq(part, eq + 1, Len(part))).ok

(* A TRES pair the loop accepts: key starting with "gres/gpu", an "=" not *)
(* in last place, and a value that parses.                                 *)
TresGpuPart(part) ==
    LET eq == SelectInSeq(part, LAMBDA t : t = "=") IN
    /\ Len(part) > 0
    /\ part[1] = "gres/gpu"
    /\ eq # 0
    /\ eq < Len(part)
    /\ ParseFloat(SubSeq(part, eq + 1, Len(part))).ok

TresPartValue(part) ==
    LET eq == SelectInSeq(part, LAMBDA t : t = "=") IN
    ParseFloat(SubSeq(part, eq + 1, Len(part))).val

(* TRES form: the value of the first accepted "gres/gpu..." pair, else 0. *)
TresGpuCount(s) ==
    LET parts == Split(s, ",")
        i     == SelectInSeq(parts, TresGpuPart)
    IN  IF i = 0 THEN 0 ELSE TresPartValue(parts[i])

(* A mutant: the count is taken from the second colon field, as if the   *)
(* token were always "gpu:count".                                          *)
GresSecondField(s) ==
    LET open  == SelectInSeq(s, LAMBDA t : t \in OpenWords)
        gres  == IF open = 0 THEN s ELSE SubSeq(s, 1, open - 1)
        parts == Split(gres, ":")
        count == ParseFloat(parts[2])
    IN  IF ~\E i \in 1..Len(gres) : gres[i] \in GpuWords THEN 0
        ELSE IF Len(parts) < 2 THEN 0
        ELSE IF count.ok THEN count.val ELSE 0

(* One legacy GRES token: cut at the first "(", require "gpu" in any     *)
(* case, at least two colon fields, and parse the last one; a failed     *)
(* parse is logged and counts 0.                                          *)
GresTokenCount(s) ==
    LET open  == SelectInSeq(s, LAMBDA t : t \in OpenWords)
        gres  == IF open = 0 THEN s ELSE SubSeq(s, 1, open - 1)
        parts == Split(gres, ":")
        count == ParseFloat(Last(parts))
    IN  IF ~\E i \in 1..Len(gres) : gres[i] \in GpuWords THEN 0
        ELSE IF Len(parts) < 2 THEN 0
        ELSE IF count.ok THEN count.val ELSE 0

(* The recursive call on one comma-separated piece of a string with no    *)
(* "=": the piece has neither "=" nor ",", so the call takes the sentinel *)
(* test and then the single-token path.                                    *)
ParseGresPart(part) ==
    IF IsSentinel(part) THEN 0 ELSE GresTokenCount(part)

ParseGresGpuCount(s) ==
    IF IsSentinel(s) THEN 0
    ELSE IF Contains(s, "=") THEN TresGpuCount(s)
    ELSE IF Contains(s, ",")
         THEN FoldLeft(LAMBDA acc, part : acc + ParseGresPart(part), 0,
                       Split(s, ","))
    ELSE GresTokenCount(s)
=============================================================================
