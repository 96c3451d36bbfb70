------------------------------- MODULE SemVer -------------------------------
(***************************************************************************)
(* Semantic versions (src/src/update-checker/semver.cpp): which texts are  *)
(* versions and how two of them compare, as the code computes it, and the  *)
(* precedence that semver.org defines.  A text is given by the fields its  *)
(* separators leave: [core, prerelease, build], each the sequence of what  *)
(* stands between the dots, <<>> where there is no `-' or `+'.  A field is *)
(* a sequence of ASCII codes.  VariantComparesDigits is a slip that no     *)
(* definition uses: comparing numbers as text.                             *)
(***************************************************************************)
EXTENDS Integers, Sequences, SequencesExt

Field == Seq(Nat)
Text  == [core : Seq(Field), prerelease : Seq(Field), build : Seq(Field)]

Digits == 48 .. 57
IdentifierCharacters == Digits \cup 65 .. 90 \cup 97 .. 122 \cup {45}

-----------------------------------------------------------------------------
(* Parsing *)

Numeric(field)     == ToSet(field) \subseteq Digits
LeadingZero(field) == Len(field) > 1 /\ field[1] = 48

Identifiers(fields) ==
  \A f \in ToSet(fields) : f # <<>> /\ ToSet(f) \subseteq IdentifierCharacters

ParsesCore(core) ==
  Len(core) = 3 /\ \A f \in ToSet(core) : f # <<>> /\ Numeric(f) /\ ~LeadingZero(f)

\* parseSemanticVersion
IsVersion(text) ==
  /\ Identifiers(text.build)
  /\ Identifiers(text.prerelease)
  /\ \A f \in ToSet(text.prerelease) : Numeric(f) => ~LeadingZero(f)
  /\ ParsesCore(text.core)

-----------------------------------------------------------------------------
(* Comparing: -1, 0 or 1 *)

Sign(m, n) == IF m < n THEN -1 ELSE IF m = n THEN 0 ELSE 1

\* The first difference of two sequences decides; if there is none, `otherwise'.
FirstDifference(s, t, Compare(_, _), otherwise) ==
  LET differences == {i \in DOMAIN s \cap DOMAIN t : Compare(s[i], t[i]) # 0}
  IN IF differences = {} THEN otherwise
     ELSE LET i == Min(differences) IN Compare(s[i], t[i])

\* std::string_view's compare
CompareText(s, t) == FirstDifference(s, t, Sign, Sign(Len(s), Len(t)))

VariantComparesDigits(s, t) == CompareText(s, t)

CompareNumericIdentifiers(s, t) ==
  IF Len(s) # Len(t) THEN Sign(Len(s), Len(t)) ELSE CompareText(s, t)

CompareIdentifiers(s, t) ==
  IF Numeric(s) # Numeric(t) THEN IF Numeric(s) THEN -1 ELSE 1
  ELSE IF Numeric(s) THEN CompareNumericIdentifiers(s, t) ELSE CompareText(s, t)

\* a version without prerelease fields comes after one with them
ComparePrereleases(p, q) ==
  IF p = <<>> \/ q = <<>> THEN Sign(Len(q), Len(p))
  ELSE FirstDifference(p, q, CompareIdentifiers, Sign(Len(p), Len(q)))

\* compareParsedVersions
CompareVersions(v, w) ==
  FirstDifference(v.core, w.core, CompareNumericIdentifiers,
                  ComparePrereleases(v.prerelease, w.prerelease))

-----------------------------------------------------------------------------
(* Precedence as semver.org defines it in its eleventh clause. *)

Value(field) ==
  LET Prefix[n \in 0 .. Len(field)] == IF n = 0 THEN 0 ELSE 10 * Prefix[n - 1] + field[n] - 48
  IN Prefix[Len(field)]

\* s and t differ first at an element where s has the lesser one
Before(s, t, Less(_, _)) ==
  \E i \in DOMAIN s \cap DOMAIN t :
    Less(s[i], t[i]) /\ \A j \in 1 .. i - 1 : s[j] = t[j]

\* "identifiers consisting of only digits are compared numerically; with letters or
\* hyphens lexically in ASCII sort order; numeric identifiers always have lower
\* precedence than non-numeric identifiers"
Lower(f, g) ==
  \/ Numeric(f) /\ Numeric(g) /\ Value(f) < Value(g)
  \/ Numeric(f) /\ ~Numeric(g)
  \/ /\ ~Numeric(f) /\ ~Numeric(g)
     /\ Before(f, g, <) \/ IsStrictPrefix(f, g)

\* "a pre-release version has lower precedence than the associated normal version;
\* a larger set of pre-release fields has a higher precedence than a smaller set, if
\* all of the preceding identifiers are equal"
Precedes(v, w) ==
  \/ Before(v.core, w.core, LAMBDA f, g : Value(f) < Value(g))
  \/ /\ v.core = w.core
     /\ \/ v.prerelease # <<>> /\ w.prerelease = <<>>
        \/ /\ v.prerelease # <<>> /\ w.prerelease # <<>>
           /\ \/ Before(v.prerelease, w.prerelease, Lower)
              \/ IsStrictPrefix(v.prerelease, w.prerelease)
=============================================================================
