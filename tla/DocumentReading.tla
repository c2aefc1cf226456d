-------------------------- MODULE DocumentReading --------------------------
(***************************************************************************)
(* Reading the Aadhaar card a candidate uploads: the OCR engine            *)
(* (app/services/ocr.py), the number and its Verhoeff checksum             *)
(* (doc_fields.py), the grade (doc_extraction.py), and the corrections of  *)
(* the candidate and of HR (api/routes/doc_requests.py).  The engine       *)
(* misreads: a copy of the number may come back with one digit wrong,      *)
(* dropped, or swapped with its neighbour.  Requests on one link come one  *)
(* at a time here; DocRequests is about how they overlap.                  *)
(***************************************************************************)
EXTENDS Integers, Sequences, FiniteSets, SequencesExt

CONSTANTS Cards,        \* numbers printed on cards
          Others,       \* other digit runs printed on them: reference numbers, a VID
          Confidences   \* bound: a page's mean word confidence

VARIABLES card,     \* the number on the candidate's card
          engine,   \* ocr_available
          file,     \* the document as the engine sees it
          block,    \* the submission's extraction
          status,   \* the submission's status
          read      \* history: the digits that the block's number was taken from

readingVars == <<card, engine, file, block, status, read>>

-----------------------------------------------------------------------------
\* The checksum: "treat them as data, not something to simplify" (doc_fields.py:104).

VerhoeffD ==
    << <<0, 1, 2, 3, 4, 5, 6, 7, 8, 9>>, <<1, 2, 3, 4, 0, 6, 7, 8, 9, 5>>,
       <<2, 3, 4, 0, 1, 7, 8, 9, 5, 6>>, <<3, 4, 0, 1, 2, 8, 9, 5, 6, 7>>,
       <<4, 0, 1, 2, 3, 9, 5, 6, 7, 8>>, <<5, 9, 8, 7, 6, 0, 4, 3, 2, 1>>,
       <<6, 5, 9, 8, 7, 1, 0, 4, 3, 2>>, <<7, 6, 5, 9, 8, 2, 1, 0, 4, 3>>,
       <<8, 7, 6, 5, 9, 3, 2, 1, 0, 4>>, <<9, 8, 7, 6, 5, 4, 3, 2, 1, 0>> >>

VerhoeffP ==
    << <<0, 1, 2, 3, 4, 5, 6, 7, 8, 9>>, <<1, 5, 7, 6, 2, 8, 3, 0, 9, 4>>,
       <<5, 8, 0, 3, 7, 9, 6, 1, 4, 2>>, <<8, 9, 1, 6, 0, 4, 3, 5, 2, 7>>,
       <<9, 4, 5, 3, 1, 2, 6, 8, 7, 0>>, <<4, 2, 8, 6, 5, 7, 3, 9, 0, 1>>,
       <<2, 7, 9, 3, 8, 0, 6, 4, 1, 5>>, <<7, 0, 4, 6, 9, 1, 3, 2, 5, 8>> >>

Digits == 0..9

\* One digit more, at a position that is counted from 0.
Added(sum, position, digit) ==
    VerhoeffD[sum + 1][VerhoeffP[(position % 8) + 1][digit + 1] + 1]

\* The last digit is at position 0.
Checksum(digits) ==
    LET last == Len(digits)
        sum[i \in 0..last] ==
          IF i = 0 THEN 0 ELSE Added(sum[i - 1], i - 1, digits[last - i + 1])
    IN sum[last]

IsValidAadhaar(digits) ==
    /\ Len(digits) = 12
    /\ digits[1] \notin {0, 1}
    /\ Checksum(digits) = 0

\* Nine in ten other numbers fail the checksum; one that passes is taken for the card's.
ASSUME CardNumbers ==
    /\ Cards \subseteq Seq(Digits) /\ \A n \in Cards : IsValidAadhaar(n)
    /\ Others \subseteq Seq(Digits) /\ \A n \in Others : ~IsValidAadhaar(n)

MaskAadhaar(digits) == IF Len(digits) = 12 THEN SubSeq(digits, 9, 12) ELSE <<>>

OfTwelve(digits) == Len(digits) = 12

\* Mutant: the first number of twelve digits.
FirstCandidate(runs) ==
    LET candidate == SelectInSeq(runs, OfTwelve)
    IN IF candidate = 0 THEN <<>> ELSE runs[candidate]

\* _find_aadhaar_candidate: the first number that satisfies the checksum, else the first.
FindAadhaarCandidate(runs) ==
    LET candidate == SelectInSeq(runs, OfTwelve)
        valid == SelectInSeq(runs, IsValidAadhaar)
    IN IF valid # 0 THEN runs[valid] ELSE IF candidate # 0 THEN runs[candidate] ELSE <<>>

-----------------------------------------------------------------------------
\* The engine.  A text has words or none, digit runs, and a mean confidence.

Empty == [words |-> FALSE, runs |-> <<>>, confidence |-> 0]
Raised == [words |-> FALSE, runs |-> <<>>, confidence |-> -1]

\* _run_tesseract: confidences are those of the words with a Latin letter or a digit, and
\* a page of other words divides by their number.
RunTesseract(page) ==
    CASE page.words = "none"  -> Empty
      [] page.words = "noise" -> Raised
      [] page.words = "latin" -> [words |-> TRUE, runs |-> page.runs, confidence |-> page.confidence]

\* An image that cannot be opened, or raises, gives no text.
OcrImage(f) ==
    LET text == RunTesseract(f.pages[1])
    IN IF ~engine \/ ~f.opens \/ text = Raised THEN Empty ELSE text

Readable(results) == {i \in DOMAIN results : results[i].words}

MeanConfidence(results) ==
    LET confidences == [i \in Readable(results) |-> results[i].confidence]
    IN FoldFunction(+, 0, confidences) \div Cardinality(Readable(results))

\* The pages are rasterised under a try, and read outside it; the confidence is the mean
\* over the readable ones.  A page that is not readable has no runs to add.
OcrPdfPages(f) ==
    LET results == [i \in 1..Len(f.pages) |-> RunTesseract(f.pages[i])]
    IN IF ~engine \/ ~f.opens THEN Empty
       ELSE IF Raised \in Range(results) THEN Raised
       ELSE IF Readable(results) = {} THEN Empty
       ELSE [words |-> TRUE,
             runs |-> FlattenSeq([i \in 1..Len(f.pages) |-> results[i].runs]),
             confidence |-> MeanConfidence(results)]

\* extract: a PDF with a text layer is exact.
OcrExtract(f) ==
    CASE f.kind = "text"  -> [words |-> TRUE, runs |-> f.pages[1].runs, confidence |-> 100]
      [] f.kind = "scan"  -> OcrPdfPages(f)
      [] f.kind = "image" -> OcrImage(f)

-----------------------------------------------------------------------------
\* The extraction block.  Of the fields it keeps the number, which a machine check may have
\* confirmed, and a name, which none does.

NoBlock == [quality |-> "none"]
Blocks == [quality : {"clear", "needs_review", "unreadable"},
           number : {<<"typed">>} \union Seq(Digits), name : {"none", "read", "typed"},
           validated : BOOLEAN, byHR : BOOLEAN]
Block(quality, number, name, validated) ==
    [quality |-> quality, number |-> number, name |-> name, validated |-> validated, byHR |-> FALSE]
BlankBlock(quality) == Block(quality, <<>>, "none", FALSE)

Grade(confidence, validated, words) ==
    IF ~words \/ confidence < 50 THEN "unreadable"
    ELSE IF confidence >= 75 /\ validated THEN "clear"
    ELSE "needs_review"

\* _extract_aadhaar: the number masked, confirmed when it satisfies the checksum.
ExtractAadhaar(text) ==
    LET number == FindAadhaarCandidate(text.runs)
    IN [number |-> MaskAadhaar(number), name |-> "read", validated |-> IsValidAadhaar(number)]

\* extract_fields: a document without text has no fields.
ExtractFields(text) ==
    IF text.words THEN ExtractAadhaar(text)
    ELSE [number |-> <<>>, name |-> "none", validated |-> FALSE]

ExtractBytes(text) ==
    LET f == ExtractFields(text)
    IN Block(Grade(text.confidence, f.validated, text.words), f.number, f.name, f.validated)

\* _apply_candidate_edits: corrections, except of what a machine check confirmed.
WithEdits(b, submitted) ==
    [b EXCEPT !.number = IF "number" \in submitted /\ ~b.validated THEN <<"typed">> ELSE @,
              !.name = IF "name" \in submitted THEN "typed" ELSE @]

-----------------------------------------------------------------------------
\* What an upload looks like to the engine.

\* One misread of a number: nothing, a wrong digit, a dropped one, two neighbours swapped.
Reads(n) ==
    {n} \union {[n EXCEPT ![i] = d] : i \in 1..Len(n), d \in Digits}
        \union {RemoveAt(n, i) : i \in 1..Len(n)}
        \union {[n EXCEPT ![i] = n[i + 1], ![i + 1] = n[i]] : i \in 1..(Len(n) - 1)}

Wordless == {[words |-> w, runs |-> <<>>, confidence |-> 0] : w \in {"none", "noise"}}
Latin(Runs) == [words : {"latin"}, runs : Runs, confidence : Confidences]

\* The front carries the number as the engine reads it, after other numbers or alone.
Fronts(n) == Wordless \union Latin({<<r>> : r \in Reads(n)}
                                     \union {<<o, r>> : o \in Others, r \in Reads(n)})

\* The back repeats the number, well read, or carries another one or none.
Backs(n) == Wordless \union Latin({<<>>, <<n>>} \union {<<o>> : o \in Others})

Uploads(n) ==
    [kind : {"image", "scan"}, opens : {TRUE}, pages : {<<p>> : p \in Fronts(n)}]
    \union [kind : {"scan"}, opens : {TRUE},
            pages : {<<p, b>> : p \in Fronts(n), b \in Backs(n)}]
    \union [kind : {"image", "scan"}, opens : {FALSE}, pages : {<<p>> : p \in Wordless}]
    \union [kind : {"text"}, opens : {TRUE}, pages : {<<p>> : p \in Latin({<<n>>})}]

NoFile == [kind |-> "none"]

-----------------------------------------------------------------------------
\* The operations.

\* The digits a block's number came from.
Taken(text) == FindAadhaarCandidate(text.runs)

\* upload_document and _extract_on_upload: no block without an engine, when it is busy or
\* when reading raises.  Bound: one upload; a re-upload starts from nothing, as this does.
Upload ==
    /\ file = NoFile
    /\ file' \in Uploads(card)
    /\ status' = "Submitted"
    /\ LET text == OcrExtract(file') IN
       \/ /\ engine /\ text # Raised
          /\ block' = ExtractBytes(text)
          /\ read' = Taken(text)
       \/ /\ block' = NoBlock
          /\ UNCHANGED read
    /\ UNCHANGED <<card, engine>>

\* confirm_submission.
Confirm(submitted) ==
    /\ status \in {"Submitted", "Rejected"}
    /\ block # NoBlock
    /\ block' = WithEdits(block, submitted)
    /\ UNCHANGED <<card, engine, file, status, read>>

\* extract_submission_fields and extract_submission, when the file could be fetched; what
\* raises is answered 500.
ExtractAgain ==
    /\ status # "none" /\ engine
    /\ LET text == OcrExtract(file) IN
       IF text = Raised
       THEN UNCHANGED <<block, read>>
       ELSE /\ block' = ExtractBytes(text)
            /\ read' = Taken(text)
    /\ UNCHANGED <<card, engine, file, status>>

\* The same when the row or the object is missing, or storage fails.
ExtractMissing ==
    /\ status # "none" /\ engine
    /\ block' = BlankBlock("unreadable")
    /\ read' = <<>>
    /\ UNCHANGED <<card, engine, file, status>>

\* review_submission: HR's fields replace the block's, or make a manual block.
Review(verdict, corrected) ==
    /\ status # "none"
    /\ status' = verdict
    /\ block' = IF ~corrected THEN block
                ELSE [(IF block = NoBlock THEN BlankBlock("needs_review") ELSE block)
                       EXCEPT !.number = <<"typed">>, !.name = "typed", !.byHR = TRUE]
    /\ UNCHANGED <<card, engine, file, read>>

ReadingInit ==
    /\ card \in Cards
    /\ engine \in BOOLEAN
    /\ file = NoFile
    /\ block = NoBlock
    /\ status = "none"
    /\ read = <<>>

ReadingNext ==
    \/ Upload
    \/ \E submitted \in SUBSET {"number", "name"} : Confirm(submitted)
    \/ ExtractAgain
    \/ ExtractMissing
    \/ \E verdict \in {"Verified", "Rejected"}, corrected \in BOOLEAN : Review(verdict, corrected)

ReadingSpec == ReadingInit /\ [][ReadingNext]_readingVars

-----------------------------------------------------------------------------
\* Properties.

ReadingTypeOK ==
    /\ card \in Cards /\ engine \in BOOLEAN
    /\ status \in {"none", "Submitted", "Verified", "Rejected"}
    /\ file.kind \in {"none", "image", "scan", "text"}
    /\ block \in Blocks \union {NoBlock}
    /\ read \in Seq(Digits)

Confirmed == block # NoBlock /\ block.validated

\* The engine read one of the copies well.
ReadWell == status # "none" /\ LET text == OcrExtract(file) IN card \in Range(text.runs)

\* "prefer one that satisfies the checksum over whichever happens to appear first"
\* (doc_fields.py:223) and "the number came off the document rather than off a keyboard"
\* (doc_requests.py:304): wherever a single misread falls and whatever the candidate edits,
\* a confirmed or clear number is the card's own, and one copy that was read well is enough.
MisreadsAreCaught ==
    /\ Confirmed => /\ read = card
                    /\ block.byHR \/ block.number = MaskAadhaar(card)
    /\ block.quality = "clear" => Confirmed
    /\ ReadWell /\ read # <<>> => read = card

\* The inductive invariant: what was read is what the engine makes of the file.
ReadsTheFile ==
    /\ file \in Uploads(card) \union {NoFile}
    /\ file = NoFile <=> status = "none"
    /\ file = NoFile => block = NoBlock
    /\ read # <<>> => file # NoFile /\ read = Taken(OcrExtract(file))

ReadingIInv == ReadingTypeOK /\ ReadsTheFile /\ MisreadsAreCaught
=============================================================================
