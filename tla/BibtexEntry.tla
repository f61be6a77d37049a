------------------------------ MODULE BibtexEntry ------------------------------
(***************************************************************************)
(* One BibTeX entry from its file to a row of the library and back: the    *)
(* parser's passes (services/parser*.py), the names of authors, venues and *)
(* subjects, the row's authors (ingest_entities.py) and the export         *)
(* (entry_exports.py).                                                     *)
(*                                                                         *)
(* A raw entry is a function from the names of its fields; "ENTRYTYPE" and *)
(* "ID" are always there ("" if missing).  The value of file is split at   *)
(* the colons, that of year at the dashes, that of author at " and ";      *)
(* other values are left as they are.  Cleaning of LaTeX is Plain, which   *)
(* also stands for what a second cleaning no longer changes.               *)
(***************************************************************************)
EXTENDS Integers, Sequences, SequencesExt, FiniteSets

CONSTANTS
  None,               \* Python's None
  Plain(_),           \* clean_latex_string
  Normalized(_)       \* normalize_name: lower case, without accents

NotANumber == -1
Blank == {"", " "}

EntryTypes ==
  {"article", "book", "booklet", "inbook", "incollection", "inproceedings", "manual",
   "mastersthesis", "misc", "phdthesis", "proceedings", "techreport", "unpublished"}

Promoted == {"title", "year", "file"}

RequiredFields(type) ==
  CASE type = "article" -> {"author", "title", "journal", "year"}
    [] type \in {"book", "inbook"} -> {"title", "publisher", "year"}
    [] type \in {"booklet", "manual"} -> {"title"}
    [] type = "incollection" -> {"author", "title", "booktitle", "publisher", "year"}
    [] type = "inproceedings" -> {"author", "title", "booktitle", "year"}
    [] type \in {"mastersthesis", "phdthesis"} -> {"author", "title", "school", "year"}
    [] type = "proceedings" -> {"title", "year"}
    [] type = "techreport" -> {"author", "title", "institution", "year"}
    [] type = "unpublished" -> {"author", "title", "note"}
    [] OTHER -> {}

Field(raw, k, default) == IF k \in DOMAIN raw THEN raw[k] ELSE default
FieldMap(raw, K) == [k \in K |-> raw[k]]

(***************************************************************************)
(* The passes.                                                             *)
(***************************************************************************)
NormalizeType(raw) ==
  IF raw["ENTRYTYPE"] \in EntryTypes THEN raw["ENTRYTYPE"] ELSE "misc"

NormalizeTitle(raw) == Plain(Field(raw, "title", ""))

\* The part before the first dash, when it is a number.
NormalizeYear(raw) ==
  LET parts == Field(raw, "year", << >>)
  IN IF parts = << >> \/ Head(parts) = NotANumber THEN None ELSE Head(parts)

\* Mutant: a field of nothing but colons gives the empty path.
NormalizeFilePathEmpty(raw) ==
  LET parts == Field(raw, "file", <<"">>)
  IN CASE Len(parts) = 1 /\ parts[1] \in Blank -> None
       [] Len(parts) > 1 /\ parts[1] \in Blank -> IF parts[2] = " " THEN "" ELSE parts[2]
       [] OTHER -> parts[1]

(* A reference manager's ":path:PDF" gives the path, anything else itself;  *)
(* never the empty string.                                                  *)
NormalizeFilePath(raw) ==
  LET parts == Field(raw, "file", <<"">>)
  IN CASE Len(parts) = 1 /\ parts[1] \in Blank -> None
       [] Len(parts) > 1 /\ parts[1] \in Blank ->
            IF parts[2] \in Blank THEN None ELSE parts[2]
       [] OTHER -> parts[1]

\* parse_authors: names that are not blank, cleaned.
ParseAuthors(raw) ==
  LET names == SelectSeq(Field(raw, "author", << >>), LAMBDA a : a \notin Blank)
  IN [i \in DOMAIN names |-> Plain(names[i])]

(* normalize_venue, for a venue that aliases and their texts name: the slug  *)
(* of an alias that is the text, else of the first alias that contains it or *)
(* is contained in it.  Aliases are a sequence of records in the order of   *)
(* the dictionary; a text is a sequence of words.                           *)
Mentions(text, part) ==
  \E i \in 0..Len(text) - Len(part) : SubSeq(text, i + 1, i + Len(part)) = part

\* Mutant: the first alias that overlaps wins.
NormalizeVenueFirst(text, aliases) ==
  LET n == SelectInSeq(aliases, LAMBDA a : Mentions(text, a.text) \/ Mentions(a.text, text))
  IN IF text = << >> \/ n = 0 THEN None ELSE aliases[n].slug

NormalizeVenue(text, aliases) ==
  LET exact == SelectInSeq(aliases, LAMBDA a : a.text = text)
      near == SelectInSeq(aliases, LAMBDA a : Mentions(text, a.text) \/ Mentions(a.text, text))
  IN CASE text = << >> -> None
       [] text # << >> /\ exact # 0 -> aliases[exact].slug
       [] OTHER -> IF near = 0 THEN None ELSE aliases[near].slug

\* The venue pass: the book title is asked first, and the journal only without one.
VenueText(raw) ==
  IF Field(raw, "booktitle", << >>) # << >> THEN raw["booktitle"]
  ELSE Field(raw, "journal", << >>)

\* Mutant: a subarea with the parent's name is shown under it.
ParseSubjectPlain(slug, wholeNames, prefixNames, subareaNames) ==
  LET rest == Tail(slug)
      known == Head(slug) \in DOMAIN prefixNames
      subarea == IF rest \in DOMAIN subareaNames THEN subareaNames[rest] ELSE rest
  IN CASE slug \in DOMAIN wholeNames ->
            [parent |-> wholeNames[slug], display |-> wholeNames[slug]]
       [] slug \notin DOMAIN wholeNames /\ ~known -> [parent |-> slug, display |-> slug]
       [] OTHER -> [parent |-> prefixNames[Head(slug)],
                    display |-> IF rest = << >> THEN prefixNames[Head(slug)] ELSE subarea]

(* parse_subject_name: whole slugs, then a prefix with a subarea.  A slug is *)
(* a sequence of its parts between the dashes; names are given by functions. *)
ParseSubject(slug, wholeNames, prefixNames, subareaNames) ==
  LET rest == Tail(slug)
      known == Head(slug) \in DOMAIN prefixNames
      parent == prefixNames[Head(slug)]
      subarea == IF rest \in DOMAIN subareaNames THEN subareaNames[rest] ELSE rest
  IN CASE slug \in DOMAIN wholeNames ->
            [parent |-> wholeNames[slug], display |-> wholeNames[slug]]
       [] slug \notin DOMAIN wholeNames /\ ~known -> [parent |-> slug, display |-> slug]
       [] slug \notin DOMAIN wholeNames /\ known /\ rest = << >> ->
            [parent |-> parent, display |-> parent]
       [] OTHER -> [parent |-> parent,
                    display |-> IF subarea = parent THEN <<"general">> ELSE subarea]

(* split_required_optional_fields.  The type as written decides, also when   *)
(* it is not a known one.                                                   *)
SplitFields(raw) ==
  LET keys == DOMAIN raw \ ({"ENTRYTYPE", "ID"} \cup Promoted)
      required == keys \cap RequiredFields(raw["ENTRYTYPE"])
  IN [required |-> FieldMap(raw, required), optional |-> FieldMap(raw, keys \ required)]

(* parse_entry: the seven passes, then as_dict, which gives an entry without *)
(* a title its key in brackets for one.                                     *)
ParseEntry(raw) ==
  IF raw["ID"] = "" THEN None
  ELSE [key |-> raw["ID"],
        type |-> NormalizeType(raw),
        title |-> IF NormalizeTitle(raw) = "" THEN "[" \o raw["ID"] \o "]"
                  ELSE NormalizeTitle(raw),
        year |-> NormalizeYear(raw),
        filePath |-> NormalizeFilePath(raw),
        authors |-> ParseAuthors(raw),
        required |-> SplitFields(raw).required,
        optional |-> SplitFields(raw).optional]

(***************************************************************************)
(* The row.                                                                *)
(***************************************************************************)

\* Mutant: a name that comes again is linked again.
AuthorLinksAll(names) ==
  [i \in DOMAIN names |-> [author |-> Normalized(names[i]), position |-> i]]

(* rebuild_author_links: one link per person, at the position of the first   *)
(* of its spellings.                                                        *)
AuthorLinks(names) ==
  FoldLeftDomain(LAMBDA links, i :
    IF \E l \in ToSet(links) : l.author = Normalized(names[i]) THEN links
    ELSE Append(links, [author |-> Normalized(names[i]), position |-> i]), << >>, names)

(* entry_venue: the label shown when the entry has no venue of the catalogue. *)
VenueLabel(e) ==
  CASE "journal" \in DOMAIN e.required -> e.required["journal"]
    [] "journal" \notin DOMAIN e.required /\ "booktitle" \in DOMAIN e.required ->
         e.required["booktitle"]
    [] OTHER -> IF "journal" \in DOMAIN e.optional THEN e.optional["journal"]
                ELSE Field(e.optional, "booktitle", None)

(***************************************************************************)
(* The export.                                                             *)
(***************************************************************************)

\* Mutant: the raw author field of the required ones is exported as well.
RenderBibtexRaw(e) ==
  LET lines(f, K) == SetToSeq({<<k, f[k]>> : k \in K})
  IN <<<<"title", e.title>>>>
     \o (IF e.authors = << >> THEN << >> ELSE <<<<"author", e.authors>>>>)
     \o lines(e.required, DOMAIN e.required)
     \o lines(e.optional, DOMAIN e.optional)
     \o (IF e.filePath = None THEN << >> ELSE <<<<"file", <<e.filePath>>>>>>)

(* render_bibtex, as the sequence of its lines: the row's own values first,  *)
(* then the fields kept as they were.                                       *)
RenderBibtex(e) ==
  LET lines(f, K) == SetToSeq({<<k, f[k]>> : k \in K})
  IN <<<<"title", e.title>>>>
     \o (IF e.authors = << >> THEN << >> ELSE <<<<"author", e.authors>>>>)
     \o (IF e.year \in {None, 0} THEN << >> ELSE <<<<"year", <<e.year>>>>>>)
     \o lines(e.required, DOMAIN e.required \ {"title", "author", "year"})
     \o lines(e.optional, DOMAIN e.optional)
     \o (IF e.filePath = None THEN << >> ELSE <<<<"file", <<e.filePath>>>>>>)

(* What the BibTeX reader makes of these lines: of a field that occurs twice *)
(* the last one.                                                            *)
ReadLines(e, lines) ==
  LET keys == {lines[i][1] : i \in DOMAIN lines}
      last(k) == lines[CHOOSE i \in DOMAIN lines :
                         lines[i][1] = k /\ \A j \in i + 1..Len(lines) : lines[j][1] # k][2]
  IN [k \in keys \cup {"ENTRYTYPE", "ID"} |->
        CASE k = "ENTRYTYPE" -> e.type [] k = "ID" -> e.key [] OTHER -> last(k)]

\* What another library that imports the export sees of the entry.
Seen(e) == [key |-> e.key, type |-> e.type, title |-> e.title, year |-> e.year,
            filePath |-> e.filePath, links |-> AuthorLinks(e.authors), venue |-> VenueLabel(e),
            required |-> DOMAIN e.required, optional |-> DOMAIN e.optional]
================================================================================
