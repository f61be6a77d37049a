-------------------------- MODULE BibliographyContract --------------------------
(***************************************************************************)
(* Which files of a bibliography are ingested, in which order and under    *)
(* which role, subject and topics (services/bibliography_contract.py).     *)
(*                                                                         *)
(* A path and a pattern are sequences of names, a text is a sequence of    *)
(* symbols that the scanner tells apart: "C" stands for @COMMENT, "L" for  *)
(* the label bibmeta:, "G" for a label of an earlier format, "x" for any   *)
(* other character.  A call that raises BibliographyContractError has the  *)
(* value Error.                                                            *)
(***************************************************************************)
EXTENDS Naturals, Sequences, SequencesExt, FiniteSetsExt

CONSTANTS
  Error,      \* what a call that raises returns
  BadType     \* a TOML value of another type than the one asked for

NoSubject == "no subject"

Roles == {"canonical", "curated", "derived", "archive", "auxiliary"}
IngestableRoles == {"canonical", "curated"}
Templates == {"{stem}", "{parent}", "{grandparent}"}

(***************************************************************************)
(* Patterns.                                                               *)
(***************************************************************************)

\* fnmatchcase on one name: a star matches every name, a name itself.
FnMatch(name, token) == token \in {"*", name}

\* Mutant: "**" takes at least one name.
MatchPartsGreedy(path, pattern) ==
  LET m[i \in 1..Len(path) + 1, j \in 1..Len(pattern) + 1] ==
        IF j > Len(pattern) THEN i > Len(path)
        ELSE IF pattern[j] = "**" THEN
               i <= Len(path) /\ (m[i + 1, j + 1] \/ m[i + 1, j])
        ELSE i <= Len(path) /\ FnMatch(path[i], pattern[j]) /\ m[i + 1, j + 1]
  IN m[1, 1]

(* The names of a path are taken one by one: "**" takes none or one and     *)
(* stays, any other token takes the name it matches.                        *)
MatchParts(path, pattern) ==
  LET m[i \in 1..Len(path) + 1, j \in 1..Len(pattern) + 1] ==
        IF j > Len(pattern) THEN i > Len(path)
        ELSE IF pattern[j] = "**" THEN
               m[i, j + 1] \/ (i <= Len(path) /\ m[i + 1, j])
        ELSE i <= Len(path) /\ FnMatch(path[i], pattern[j]) /\ m[i + 1, j + 1]
  IN m[1, 1]

(* What a pattern means: its tokens cover consecutive stretches of the path, *)
(* a "**" of any length, the others of one name.                            *)
GlobLanguage(path, pattern) ==
  \E cut \in [0..Len(pattern) -> 0..Len(path)] :
    /\ cut[0] = 0 /\ cut[Len(pattern)] = Len(path)
    /\ \A j \in DOMAIN pattern :
         IF pattern[j] = "**" THEN cut[j] >= cut[j - 1]
         ELSE cut[j] = cut[j - 1] + 1 /\ FnMatch(path[cut[j]], pattern[j])

(* The first rule that matches and does not exclude the path, or 0.         *)
MatchRule(path, rules) ==
  SelectInSeq(rules, LAMBDA r :
    MatchParts(path, r.glob) /\ ~ \E p \in r.exclude : MatchParts(path, p))

(***************************************************************************)
(* Inline blocks.                                                          *)
(***************************************************************************)

\* Mutant: an escaped brace counts.
FindMatchingBraceUnescaped(text, open) ==
  LET scan[i \in open..Len(text) + 1, depth \in 0..Len(text), quoted \in BOOLEAN] ==
        IF i > Len(text) THEN 0
        ELSE CASE text[i] = "q" -> scan[i + 1, depth, ~quoted]
               [] ~quoted /\ text[i] = "{" -> scan[i + 1, depth + 1, quoted]
               [] ~quoted /\ text[i] = "}" ->
                    IF depth = 1 THEN i ELSE scan[i + 1, depth - 1, quoted]
               [] OTHER -> scan[i + 1, depth, quoted]
  IN scan[open, 0, FALSE]

(* The index of the brace that closes the one at open, or 0: "b" (a         *)
(* backslash) hides the next symbol, "q" (a quote) opens or closes a string, *)
(* in which braces do not count.                                            *)
FindMatchingBrace(text, open) ==
  LET scan[i \in open..Len(text) + 2, depth \in 0..Len(text), quoted \in BOOLEAN] ==
        IF i > Len(text) THEN 0
        ELSE CASE text[i] = "b" -> scan[i + 2, depth, quoted]
               [] text[i] = "q" -> scan[i + 1, depth, ~quoted]
               [] ~quoted /\ text[i] = "{" -> scan[i + 1, depth + 1, quoted]
               [] ~quoted /\ text[i] = "}" ->
                    IF depth = 1 THEN i ELSE scan[i + 1, depth - 1, quoted]
               [] OTHER -> scan[i + 1, depth, quoted]
  IN scan[open, 0, FALSE]

(* The same brace without a scanner: the first live one up to which as many *)
(* live braces close as open.  A symbol is live when an even number of      *)
(* backslashes stands before it and an even number of live quotes.          *)
ClosingBrace(text, open) ==
  LET Escaped(i) == \E n \in {k \in 1..i - open : k % 2 = 1} :
                      /\ \A k \in i - n..i - 1 : text[k] = "b"
                      /\ i - n > open => text[i - n - 1] # "b"
      Quotes(i) == {k \in open..i - 1 : text[k] = "q" /\ ~Escaped(k)}
      Live(i, c) == text[i] = c /\ ~Escaped(i) /\ Cardinality(Quotes(i)) % 2 = 0
      Count(i, c) == Cardinality({k \in open..i : Live(k, c)})
      closing == {i \in open..Len(text) : Live(i, "}") /\ Count(i, "{") = Count(i, "}")}
  IN IF closing = {} THEN 0 ELSE Min(closing)

\* The first position from i on that is not a blank.
SkipBlanks(text, i) == Min({k \in i..Len(text) : text[k] # " "} \cup {Len(text) + 1})

(* find_inline_bibmeta_blocks: every @COMMENT whose braces match, that      *)
(* begins with the label.  The search goes on behind the closing brace.     *)
InlineBlocks(text) ==
  LET from[cursor \in 1..Len(text) + 1] ==
        LET hits == {i \in cursor..Len(text) : text[i] = "C"}
            i == Min(hits)
            open == SkipBlanks(text, i + 1)
            end == FindMatchingBrace(text, open)
            inner == SkipBlanks(text, open + 1)
        IN CASE hits = {} -> << >>
             [] hits # {} /\ (open > Len(text) \/ text[open] # "{") -> from[i + 1]
             [] hits # {} /\ open <= Len(text) /\ text[open] = "{" ->
                  IF end = 0 THEN from[open + 1]
                  ELSE (IF text[inner] = "L" THEN <<[start |-> i, end |-> end]>>
                                             ELSE << >>) \o from[end + 1]
  IN from[1]

(* Nothing but blank lines and lines of comment ("%" to the newline "n")    *)
(* before position p.                                                       *)
LeadingTrivia(text, p) ==
  \A i \in 1..p - 1 : text[i] \notin {" ", "n"} =>
    \E j \in 1..i : /\ text[j] = "%"
                    /\ \A k \in j..i : text[k] # "n"
                    /\ \A k \in 1..j - 1 : text[k] = " " \/ \E l \in k..j - 1 : text[l] = "n"

\* A label of an earlier format at the start of a comment.
UsesLegacyLabel(text) ==
  \E i \in DOMAIN text :
    /\ text[i] = "C"
    /\ LET open == SkipBlanks(text, i + 1)
           label == SkipBlanks(text, open + 1)
       IN label <= Len(text) /\ text[open] = "{" /\ text[label] = "G"

(***************************************************************************)
(* Metadata: a record of a role, a subject and a sequence of topics.       *)
(***************************************************************************)

\* Mutant: a curated file needs no topics.
MetadataValidLax(m, slugs) ==
  /\ m.role \in Roles
  /\ m.role = "canonical" => m.topics = << >>
  /\ m.role = "curated" => m.subject = NoSubject
  /\ m.role \notin IngestableRoles => m.subject = NoSubject /\ m.topics = << >>
  /\ m.subject \in slugs \cup {NoSubject}
  /\ \A t \in ToSet(m.topics) : t \in slugs

(* What each role may carry; slugs is what passes for a slug.               *)
MetadataValid(m, slugs) ==
  /\ m.role \in Roles
  /\ m.role = "canonical" => m.topics = << >>
  /\ m.role = "curated" => m.subject = NoSubject /\ m.topics # << >>
  /\ m.role \notin IngestableRoles => m.subject = NoSubject /\ m.topics = << >>
  /\ m.subject \in slugs \cup {NoSubject}
  /\ \A t \in ToSet(m.topics) : t \in slugs

(* One table of the manifest; an absent exclude, subject or topics has its  *)
(* default here already.                                                    *)
LoadRule(raw, slugs) ==
  IF /\ ~raw.extraKeys
     /\ raw.glob \notin {BadType, << >>}
     /\ raw.role \in Roles
     /\ raw.exclude # BadType /\ raw.subject # BadType /\ raw.topics # BadType
     /\ MetadataValid(raw, slugs \cup Templates)
  THEN [glob |-> raw.glob, exclude |-> raw.exclude, role |-> raw.role,
        subject |-> raw.subject, topics |-> raw.topics]
  ELSE Error

(* load_bibmeta_manifest: all rules or none.                                *)
LoadManifest(raw, slugs) ==
  LET rules == [i \in DOMAIN raw.rules |-> LoadRule(raw.rules[i], slugs)] IN
  IF raw.version = 1 /\ rules # << >> /\ Error \notin ToSet(rules) THEN rules ELSE Error

(* A name of the path in place of a template.                               *)
Expand(template, path) ==
  CASE template = "{stem}" -> path[Len(path)]
    [] template = "{parent}" -> IF Len(path) > 1 THEN path[Len(path) - 1] ELSE "root"
    [] template = "{grandparent}" -> IF Len(path) > 2 THEN path[Len(path) - 2] ELSE "root"
    [] OTHER -> template

\* A sequence without the later occurrences of an element.
Uniq(s) == FoldLeft(LAMBDA acc, t : IF t \in ToSet(acc) THEN acc ELSE Append(acc, t), << >>, s)

\* Mutant: replace_topics is overlooked.
MergeInlineKeepsTopics(defaults, inline) ==
  LET base == IF "topics" \in DOMAIN inline THEN inline.topics ELSE defaults.topics
      topics == IF "topics_append" \in DOMAIN inline
                THEN Uniq(base \o inline.topics_append) ELSE base
  IN IF \E k \in DOMAIN inline : inline[k] = BadType THEN Error
     ELSE [role |-> IF "role" \in DOMAIN inline THEN inline.role ELSE defaults.role,
           subject |-> IF "subject" \in DOMAIN inline THEN inline.subject
                       ELSE defaults.subject,
           topics |-> topics]

(* A file's own block over what its path gives it: topics replaces, an      *)
(* append comes after that, replace_topics alone empties.                   *)
MergeInline(defaults, inline) ==
  LET has(k) == k \in DOMAIN inline
      base == IF has("topics") THEN inline.topics
              ELSE IF has("replace_topics") /\ inline.replace_topics = "true" THEN << >>
              ELSE defaults.topics
  IN IF \/ \E k \in DOMAIN inline : inline[k] = BadType
        \/ has("role") /\ inline.role \notin Roles
     THEN Error
     ELSE [role |-> IF has("role") THEN inline.role ELSE defaults.role,
           subject |-> IF has("subject") THEN inline.subject ELSE defaults.subject,
           topics |-> IF has("topics_append") THEN Uniq(base \o inline.topics_append)
                      ELSE base]

(* resolve_bibliography_source: a file is its path, its text and the        *)
(* payload of its block.                                                    *)
Resolve(file, rules, slugs) ==
  LET n == MatchRule(file.path, rules)
      defaults == [role |-> rules[n].role,
                   subject |-> Expand(rules[n].subject, file.path),
                   topics |-> [i \in DOMAIN rules[n].topics |->
                                 Expand(rules[n].topics[i], file.path)]]
      blocks == InlineBlocks(file.text)
      merged == MergeInline(defaults, file.inline)
      refused == \/ Len(blocks) > 1
                 \/ /\ Len(blocks) = 1
                    /\ \/ ~LeadingTrivia(file.text, blocks[1].start)
                       \/ merged \in {Error, defaults}
      result == IF blocks = << >> THEN defaults ELSE merged
  IN CASE UsesLegacyLabel(file.text) \/ n = 0 -> Error
       [] OTHER -> IF refused \/ ~MetadataValid(result, slugs) THEN Error
                   ELSE [path |-> file.path] @@ result

RoleOrder(role) == IF role = "canonical" THEN 0 ELSE IF role = "curated" THEN 1 ELSE 2

\* Mutant: the files in the order of their paths.
DiscoverByPath(files, rules, slugs) ==
  LET sources == [i \in DOMAIN files |-> Resolve(files[i], rules, slugs)]
  IN IF Error \in ToSet(sources) THEN Error
     ELSE SelectSeq(sources, LAMBDA s : s.role \in IngestableRoles)

(* discover_bibliography_sources, with a manifest: files come sorted by     *)
(* path; one that cannot be resolved fails them all; the sort by role is    *)
(* stable.                                                                  *)
Discover(files, rules, slugs) ==
  LET sources == [i \in DOMAIN files |-> Resolve(files[i], rules, slugs)]
      OfRole(n) == SelectSeq(sources, LAMBDA s :
                     s.role \in IngestableRoles /\ RoleOrder(s.role) = n)
  IN IF Error \in ToSet(sources) THEN Error ELSE OfRole(0) \o OfRole(1)
================================================================================
