------------------------------ MODULE MCStaff ------------------------------
\* The office side, eight components that share no state: part names the one a behaviour
\* is about, so that their states add up and do not multiply.  The other components' variables
\* keep one of their initial values.
EXTENDS Accounts, CalendarLinks, CandidateFiles, CompanyEmails, EmployeeCodes, HandoverLink,
        JoiningLink, SeenSignatures, TLC

CONSTANTS h1, h2, e1, e2, u1, u2, private

\* The components share no state and may share names.
Two == {h1, h2}
TwoKeys == {e1, e2}
Pair == {u1, u2}
OnePrivate == {private}
OneOld == {2}

\* The address of the employees in the behaviours that are not about addresses.
ASSUME PrivateAddress == private \in Private

Symmetry == Permutations(Two) \union Permutations(TwoKeys) \union Permutations(Pair)

VARIABLE part

-----------------------------------------------------------------------------

StaffInit ==
    /\ part \in {"accounts", "files", "calendar", "codes", "handover", "signatures", "emails", "joining"}
    /\ Init /\ FileInit /\ CalendarInit /\ CodesInit /\ HandoverInit /\ JoiningInit
    /\ SignatureInit /\ (part # "signatures" => stamp = [e \in Events |-> 0])
    /\ IF part = "emails" THEN EmailInit
       ELSE /\ staff = [e \in Staff |->
                         [email |-> private, offboarded |-> FALSE, candidate |-> "none"]]
            /\ records = [r \in Records |-> NoOnboarding]
            /\ plan = NoMoves /\ phase = "new"
            /\ current = NobodyRead /\ edits = 0 /\ touched = {}

StaffNext ==
    /\ UNCHANGED part
    /\ \/ part = "accounts" /\ Next
          /\ UNCHANGED <<fileVars, calendarVars, codeVars, handoverVars, signatureVars,
                         emailVars, joiningVars>>
       \/ part = "files" /\ FileNext
          /\ UNCHANGED <<accountVars, calendarVars, codeVars, handoverVars, signatureVars,
                         emailVars, joiningVars>>
       \/ part = "calendar" /\ CalendarNext
          /\ UNCHANGED <<accountVars, fileVars, codeVars, handoverVars, signatureVars,
                         emailVars, joiningVars>>
       \/ part = "codes" /\ CodesNext
          /\ UNCHANGED <<accountVars, fileVars, calendarVars, handoverVars, signatureVars,
                         emailVars, joiningVars>>
       \/ part = "handover" /\ HandoverNext
          /\ UNCHANGED <<accountVars, fileVars, calendarVars, codeVars, signatureVars,
                         emailVars, joiningVars>>
       \/ part = "signatures" /\ SignatureNext
          /\ UNCHANGED <<accountVars, fileVars, calendarVars, codeVars, handoverVars,
                         emailVars, joiningVars>>
       \/ part = "emails" /\ EmailNext
          /\ UNCHANGED <<accountVars, fileVars, calendarVars, codeVars, handoverVars,
                         signatureVars, joiningVars>>
       \/ part = "joining" /\ JoiningNext
          /\ UNCHANGED <<accountVars, fileVars, calendarVars, codeVars, handoverVars,
                         signatureVars, emailVars>>

\* Bound: a behaviour is not followed once two documents are torn or their objects kept, or
\* three numbers are exposed.
OneMishap == Cardinality(torn \union kept) <= 1 /\ Cardinality(exposed) <= 2

staffVars == <<part, accountVars, fileVars, calendarVars, codeVars, handoverVars,
               signatureVars, emailVars, joiningVars>>
StaffSpec == StaffInit /\ [][StaffNext]_staffVars

-----------------------------------------------------------------------------
\* Properties of the components, by the names they have there (LinkIsSingleUse and
\* OneAccountEach are Accounts' own, DocumentsStand is CandidateFiles', CalendarAgrees
\* CalendarLinks', CodesAreIssuedOnce EmployeeCodes', AppliedOnce SeenSignatures' and
\* OneAddressEach CompanyEmails').

\* Every variable has its type.
StaffTypeOK ==
    /\ AccountTypeOK /\ FileTypeOK /\ CalendarTypeOK /\ CodesTypeOK
    /\ HandoverTypeOK /\ SignatureTypeOK /\ EmailTypeOK /\ JoiningTypeOK

\* What the holder of a handover or joining link was told is stored is stored, and what HR
\* purges stays purged.
LinksAddUp == HandoverAddsUp /\ JoiningStands
=============================================================================
