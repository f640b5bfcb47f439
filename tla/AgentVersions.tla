------------------------------ MODULE AgentVersions ------------------------------
(***************************************************************************)
(* How versions of the agent are compared (isDesiredNewer of                *)
(* controllers/oneagent/oneagent_update.go).  A version such as             *)
(* 1.203.0.20200908-220956 is split at the dots; all components but the     *)
(* last are compared as numbers, the last one as text.  A component is the  *)
(* sequence of its characters: a digit is itself, the others are integers   *)
(* in the order of the characters.                                          *)
(***************************************************************************)
EXTENDS Integers, Sequences

IsNumber(s) == s # <<>> /\ \A i \in 1 .. Len(s) : s[i] \in 0 .. 9

(* strconv.Atoi, of components that are numbers.                                 *)
Number(s) ==
    LET upTo[k \in 0 .. Len(s)] == IF k = 0 THEN 0 ELSE 10 * upTo[k - 1] + s[k]
    IN  upTo[Len(s)]

(* Go's order of strings: by the first character that differs, and a prefix is   *)
(* the smaller one.                                                              *)
TextBefore(s, t) ==
    \E k \in 1 .. Len(t) : /\ k <= Len(s) + 1
                           /\ \A j \in 1 .. k - 1 : s[j] = t[j]
                           /\ k = Len(s) + 1 \/ s[k] < t[k]

(* The components before the one that decides are equal numbers; one that is no  *)
(* number decides for no.  A desired version with fewer components than the      *)
(* actual one stops the program (index out of range).                            *)
SameNumber(s, t) == IsNumber(s) /\ IsNumber(t) /\ Number(s) = Number(t)
Lower(aa, da, i) == IsNumber(aa[i]) /\ IsNumber(da[i]) /\ Number(aa[i]) < Number(da[i])
BugNewerThan(aa, da) ==
    \E i \in 1 .. Len(aa) : /\ \A j \in 1 .. i - 1 : aa[j] = da[j]
                            /\ TextBefore(aa[i], da[i])
NewerThan(aa, da) ==
    \E i \in 1 .. Len(aa) :
      /\ \A j \in 1 .. i - 1 : SameNumber(aa[j], da[j])
      /\ \/ i < Len(aa) /\ Lower(aa, da, i)
         \/ i = Len(aa) /\ TextBefore(aa[i], da[i])

--------------------------------------------------------------------------------
(* What the versions of releases look like and in which order they come out:     *)
(* major, minor and revision are numbers, and the time of the build is written   *)
(* with the same characters in the same places.                                  *)
IsRelease(v) == Len(v) = 4 /\ \A i \in 1 .. 3 : IsNumber(v[i])
Older(v, w) ==
    \/ Number(v[1]) < Number(w[1])
    \/ Number(v[1]) = Number(w[1]) /\ Number(v[2]) < Number(w[2])
    \/ /\ Number(v[1]) = Number(w[1]) /\ Number(v[2]) = Number(w[2])
       /\ Number(v[3]) < Number(w[3])
    \/ /\ Number(v[1]) = Number(w[1]) /\ Number(v[2]) = Number(w[2])
       /\ Number(v[3]) = Number(w[3]) /\ TextBefore(v[4], w[4])

================================================================================
