-------------------------------- MODULE CSVReader --------------------------------
(***************************************************************************)
(* The CSV reader (CSVParser.hpp).  A file is a sequence of lines and a    *)
(* line a sequence of tokens: a comma, a quote, a semicolon, a blank, or   *)
(* what stands between them: a word, a number or an address.  A field is   *)
(* the sequence of the tokens it is made of.                               *)
(***************************************************************************)
EXTENDS Integers, Sequences, SequencesExt

Comma == <<"comma">>
Quote == <<"quote">>
Semicolon == <<"semicolon">>
Blank == <<"blank">>
Word(s) == <<"word", s>>
Num(n) == <<"number", n>>
Hex(a) == <<"hex", a>>

Token ==
    {Comma, Quote, Semicolon, Blank}
        \cup ({"word"} \X STRING) \cup ({"number"} \X Int) \cup ({"hex"} \X Nat)

(* The elements of s that Test accepts, in their order: SelectSeq(), of    *)
(* which the provers know nothing.                                         *)
Kept(s, Test(_)) ==
    FlattenSeq([k \in DOMAIN s |-> IF Test(s[k]) THEN <<s[k]>> ELSE <<>>])

IsWhitespace(tokens) == \A k \in DOMAIN tokens : tokens[k] = Blank

Trim(field) ==
    LET solid == {k \in DOMAIN field : field[k] # Blank}
    IN  IF solid = {} THEN <<>> ELSE SubSeq(field, Min(solid), Max(solid))

(* The parts of a sequence of tokens, cut at the positions where Ends holds *)
(* (in parseLine() and, at the semicolons, in parseDependencies()).        *)
Parts(tokens, Ends(_)) ==
    LET last == Len(tokens) + 1
        ends == Kept([k \in 1 .. last |-> k],
                     LAMBDA k : k = last \/ Ends(k))
    IN  [n \in DOMAIN ends |->
            SubSeq(tokens, IF n = 1 THEN 1 ELSE ends[n - 1] + 1, ends[n] - 1)]

(* inQuotes: a quote, wherever it stands, opens or closes.                 *)
InQuotes(line, k) == Cardinality({j \in 1 .. k : line[j] = Quote}) % 2 = 1

(* parseLine(): between quotes a comma is a character like any other.      *)
ParseLine(line) ==
    LET parts == Parts(line, LAMBDA k : line[k] = Comma /\ ~InQuotes(line, k))
    IN  [n \in DOMAIN parts |->
            Trim(Kept(parts[n], LAMBDA token : token # Quote))]

(* parseCSV(): the header and the rows, each a sequence of fields.  Lines  *)
(* of white space are passed over.                                         *)
ParseCSV(file) ==
    LET data == Kept(Tail(file), LAMBDA line : ~IsWhitespace(line))
    IN  [headers |-> ParseLine(Head(file)),
         rows |-> [k \in DOMAIN data |-> ParseLine(data[k])]]

(* Mutant of Rectangular: a line may have more fields than the header.     *)
EnoughFields(csv) == \A r \in ToSet(csv.rows) : Len(r) >= Len(csv.headers)

(* parseCSV() throws on a line that has not as many fields as the header.  *)
Rectangular(csv) == \A r \in ToSet(csv.rows) : Len(r) = Len(csv.headers)

(* The map of a row: of two columns of one name the last.                  *)
Places(csv, name) == {k \in DOMAIN csv.headers : csv.headers[k] = <<Word(name)>>}

HasColumn(csv, name) == Places(csv, name) # {}

Column(csv, fields, name) == fields[Max(Places(csv, name))]
=============================================================================
