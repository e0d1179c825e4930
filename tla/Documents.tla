----------------------------- MODULE Documents -----------------------------
(***************************************************************************)
(* Documents and what is read in them (app/documents: manager.py,          *)
(* fields.py, repository.py): a file is ingested once for its content, its *)
(* text is extracted in the format it seems to have, fields are recognised *)
(* in the text, and documents are found by them.  A text is a sequence of  *)
(* lines, a line its keyword and its tokens; of the ten fields these six   *)
(* have rules of their own.  Confidence is in hundredths.                  *)
(***************************************************************************)
EXTENDS Sessions

Fields == {"upc", "ean", "gtin", "weight", "model_number", "manufacturer"}
Formats == {"pdf", "html", "csv", "txt"}
OcrMinTextLength == 1  \* lines; 20 characters in the code

\* A token, its digits when it is a number, and its unit when it is a weight.
Word(text) == [text |-> text, digits |-> <<>>, unit |-> "", mixed |-> FALSE]
Code(text) == [Word(text) EXCEPT !.mixed = TRUE]
Number(text, digits) == [Code(text) EXCEPT !.digits = digits]
Weight(text, unit) == [Code(text) EXCEPT !.unit = unit]
Line(keyword, tokens) == [keyword |-> keyword, tokens |-> tokens]

Ean == Number("4006381333931", <<4, 0, 0, 6, 3, 8, 1, 3, 3, 3, 9, 3, 1>>)
Upc == Number("036000291452", <<0, 3, 6, 0, 0, 0, 2, 9, 1, 4, 5, 2>>)
Misread == Number("036000291453", <<0, 3, 6, 0, 0, 0, 2, 9, 1, 4, 5, 3>>)

\* The files that are sent: name and type, what their bytes begin with, what is in them and
\* what a recognition of their picture finds.
Files ==
  [manual |-> [ext |-> "pdf", mime |-> "", magic |-> "pdf",
               lines |-> <<Line("model", <<Code("X-1"), Word("n/a"), Code("X-1")>>), Line("", <<Ean, Weight("2", "kgs")>>)>>, picture |-> <<>>],
   scan   |-> [ext |-> "", mime |-> "pdf", magic |-> "pdf", lines |-> <<>>, picture |-> <<Line("manufacturer", <<Word("Acme")>>)>>],
   sheet  |-> [ext |-> "csv", mime |-> "html", magic |-> "txt", lines |-> <<Line("", <<Upc, Misread, Weight("2", "pounds")>>)>>, picture |-> <<>>],
   named  |-> [ext |-> "csv", mime |-> "", magic |-> "pdf", lines |-> <<Line("model", <<Code("X-1")>>)>>, picture |-> <<>>]]

-----------------------------------------------------------------------------
\* _gtin_checksum_valid: from the right, weights 3 and 1.
GtinChecksumValid(digits) ==
  LET n == Len(digits) - 1
      total == SumOf([i \in 1 .. n |-> digits[n + 1 - i] * (IF i % 2 = 1 THEN 3 ELSE 1)])
  IN n >= 7 /\ (10 - (total % 10)) % 10 = digits[n + 1]

Tokens(text) == FlattenSeq([i \in DOMAIN text |-> text[i].tokens])
Texts(tokens) == [i \in DOMAIN tokens |-> tokens[i].text]

\* _dedupe: the first of each, up to a number of them.
Dedupe(values, most) ==
  LET first == SelectSeq([i \in DOMAIN values |-> i], LAMBDA i : \A j \in 1 .. i - 1 : values[j] # values[i])
  IN Top([i \in DOMAIN first |-> values[first[i]]], most)

ExtractBarcodes(text, length) ==
  Dedupe(Texts(SelectSeq(Tokens(text), LAMBDA t : Len(t.digits) = length /\ GtinChecksumValid(t.digits))), 12)

\* _canonical_unit.
CanonicalUnit(raw) ==
  CASE raw \in {"kg", "kgs", "kilograms"} -> "kg" [] raw \in {"g", "gram", "grams"} -> "g"
    [] raw \in {"lb", "lbs", "pounds"} -> "lb" [] raw \in {"oz", "ounces"} -> "oz"
ExtractWeight(text) ==
  LET weights == SelectSeq(Tokens(text), LAMBDA t : t.unit # "")
  IN Dedupe([i \in DOMAIN weights |-> weights[i].text \o " " \o CanonicalUnit(weights[i].unit)], 12)

\* _context_tokens of the lines with a keyword, and _drop_noise.
ContextTokens(text, keyword) == Texts(Tokens(SelectSeq(text, LAMBDA line : line.keyword = keyword)))
DropNoise(values) == SelectSeq(values, LAMBDA value : value \notin {"n/a", "none", "sku"})

\* extract_model_numbers: without any, whatever has a digit in it is one.
ExtractModelNumbers(text) ==
  LET named == ContextTokens(text, "model")
      fallback == Texts(SelectSeq(Tokens(text), LAMBDA t : t.mixed))
  IN Dedupe(DropNoise(IF named # <<>> THEN named ELSE fallback), 8)
ExtractManufacturers(text) == Dedupe(ContextTokens(text, "manufacturer"), 5)

\* compute_confidence.
ComputeConfidence(fields) ==
  LET populated == Cardinality({f \in Fields : fields[f] # <<>>})
  IN IF populated = 0 THEN 0 ELSE Least(95, 25 + 10 * populated)

ExtractFields(text) ==
  LET upc == ExtractBarcodes(text, 12)
      ean == ExtractBarcodes(text, 13)
  IN [upc |-> upc, ean |-> ean, gtin |-> Dedupe(ExtractBarcodes(text, 14) \o ean \o upc, 12), weight |-> ExtractWeight(text),
      model_number |-> ExtractModelNumbers(text), manufacturer |-> ExtractManufacturers(text)]

\* _sniff, and detect_format: the name before the type before the content.
Sniff(file) == IF file.magic \in Formats THEN file.magic ELSE "txt"
DetectFormat(file) == IF file.ext \in Formats THEN file.ext ELSE IF file.mime \in Formats THEN file.mime ELSE Sniff(file)

\* The extractors: what is not of their format is an empty text, never an error.
Extract(format, file) == IF format = "pdf" <=> file.magic = "pdf" THEN file.lines ELSE <<>>

\* _should_ocr: only where there is a provider, and hardly any text.
ShouldOcr(ocr, text) == mem.ocr /\ ocr /\ Len(text) < OcrMinTextLength

\* parse.
Parse(name, ocr) ==
  LET text == Extract(DetectFormat(Files[name]), Files[name])
      seen == IF ShouldOcr(ocr, text) THEN text \o Files[name].picture ELSE text
  IN [format |-> DetectFormat(Files[name]), fields |-> ExtractFields(seen), ocr |-> seen # text]

-----------------------------------------------------------------------------
\* Document; its id, a fresh uuid in the code, is here the name of the request that stored it.
Document ==
  [id : 1 .. MaxCalls, user : Ids \cup {NoName}, type : {"manual", "other"}, content : DOMAIN Files, format : Formats, ocr : BOOLEAN, confidence : 0 .. 95,
   fields : [Fields -> Seq(STRING)]]

TypeOK ==
  /\ \A i \in DOMAIN db : db[i] \in Document
  /\ mem.ocr \in BOOLEAN

Init == db = <<>> /\ mem \in [ocr : BOOLEAN, answer : {0}] /\ NoRequests

\* find_by_sha256: whoever sent the content first and as what.
FindBySha256(rows, content) == Filter(rows, LAMBDA d : d.content = content)

\* ingest: the content is looked up before it is parsed and stored.
Ingest(c) ==
  /\ req[c].op = "ingest"
  /\ LET sent == req[c].arg
         existing == FindBySha256(req[c].saw, sent.content)
         parsed == Parse(sent.content, sent.ocr)
     IN IF existing # <<>> THEN Rollback(c)
        ELSE Commit(c, Append(db, [id |-> req[c].at, user |-> sent.user, type |-> sent.type, content |-> sent.content,
                                   format |-> parsed.format, fields |-> parsed.fields, ocr |-> parsed.ocr,
                                   confidence |-> ComputeConfidence(parsed.fields)]))

Delete(c) ==
  /\ req[c].op = "delete"
  /\ IF \E i \in DOMAIN req[c].saw : req[c].saw[i].id = req[c].arg
       THEN Commit(c, Filter(db, LAMBDA d : d.id # req[c].arg)) ELSE Rollback(c)

Requests(c) ==
  \/ \E content \in DOMAIN Files, ocr \in BOOLEAN, user \in {NoName, "a"} :
       Ask(c, "ingest", [content |-> content, ocr |-> ocr, user |-> user, type |-> IF user = NoName THEN "other" ELSE "manual"])
  \/ \E id \in {1, 2} : Ask(c, "delete", id)

Next == \E c \in Clients : Requests(c) \/ Ingest(c) \/ Delete(c) \/ Rollback(c)

Spec == Init /\ [][Next]_sessionVars

-----------------------------------------------------------------------------
\* _apply_user.
Visible(user) == SelectSeq(db, LAMBDA d : d.user \in {user, NoName})

\* search_field: the name of every field is in what is stored, so that a value is found in
\* whatever field it is.
SearchField(field, value, user) ==
  SelectSeq(Visible(user), LAMBDA d : \E f \in Fields : \E i \in DOMAIN d.fields[f] : d.fields[f][i] = value)

\* search: the surest first.
Search(value, user) == Ranked(SearchField("any", value, user), LAMBDA d : d.confidence)

-----------------------------------------------------------------------------
\* Codes are valid and every one of them is a gtin; a document is sure of something when it
\* has a field and never of everything; what has the value of a field is found by it, and by
\* its user; the results of a search are ranked.
FoundByFields ==
  \A i \in DOMAIN db :
    LET d == db[i]
    IN /\ ToSet(d.fields["upc"]) \cup ToSet(d.fields["ean"]) \subseteq ToSet(d.fields["gtin"])
       /\ Misread.text \notin ToSet(d.fields["gtin"])
       /\ (d.confidence = 0 <=> \A f \in Fields : d.fields[f] = <<>>) /\ d.confidence <= 95
       /\ \A f \in Fields : \A value \in ToSet(d.fields[f]) :
            d \in ToSet(SearchField(f, value, d.user)) /\ IsRanking(Search(value, d.user), SearchField(f, value, d.user), LAMBDA e : e.confidence)

Integrity == FoundByFields

\* A content is stored twice only by requests that overlapped; a document never changes.
LegalStep ==
  /\ \A i \in DOMAIN db' :
       \/ \E j \in DOMAIN db : db[j] = db'[i]
       \/ \E c \in Clients : req[c].op = "ingest" /\ db'[i].id = req[c].at /\ FindBySha256(req[c].saw, db'[i].content) = <<>>
  /\ \A i \in DOMAIN db : (\E j \in DOMAIN db' : db'[j] = db[i]) \/ \E c \in Clients : req[c].op = "delete" /\ req[c].arg = db[i].id
=============================================================================
