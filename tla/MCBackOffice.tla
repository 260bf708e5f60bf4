---------------------------- MODULE MCBackOffice ----------------------------
(* Small instances of Cabinet, Listing, Faq and AdminForms for TLC.  They    *)
(* share no state: each is explored while the others rest.                   *)
EXTENDS Cabinet

CONSTANTS
  Entries, Created, Starting, PageSize, MaxPage, MaxEdits,             \* Listing
  Admins, Ids, Texts,                                                  \* Faq
  Senders, Reasons, Notes, Blank, Statuses, New, People, AdminIds, Amounts, MaxForms

RatesEntered == {-1, 1, 2}

\* The second and the third entry were created in one transaction.
CreatedTimes == <<1, 2, 2, 3, 4>>

VARIABLES listed, edits, view, walk

VARIABLES items, used, req, part

VARIABLES row, open, forms, last, contested

Lists == INSTANCE Listing

ASSUME ListingAssumption == Lists!ListingConstants

F == INSTANCE Faq

A == INSTANCE AdminForms WITH
       Handlers <- Senders, Agents <- People, Admins <- AdminIds, FirstRate <- 1, req <- open

listVars == <<listed, edits, view, walk>>

faqVars == <<items, used, req>>

formVars == <<row, open, forms, last, contested>>

BackOfficeInit ==
  part \in {"pages", "lists", "faq", "forms"} /\ Init /\ Lists!Init /\ F!Init /\ A!Init

BackOfficeNext ==
  /\ UNCHANGED part
  /\ \/ part = "pages" /\ Next /\ UNCHANGED <<listVars, faqVars, formVars>>
     \/ part = "lists" /\ Lists!Next /\ UNCHANGED <<vars, faqVars, formVars>>
     \/ part = "faq" /\ F!Next /\ UNCHANGED <<vars, listVars, formVars>>
     \/ part = "forms" /\ A!Next /\ UNCHANGED <<vars, listVars, faqVars>>

BackOfficeSpec ==
  BackOfficeInit /\ [][BackOfficeNext]_<<vars, listVars, faqVars, formVars, part>>

\* The pages of a list show what is there (see Listing).
ListsComplete == Lists!ListsComplete

\* The FAQ is a list to its one admin (see Faq).
ImplementsList == F!ImplementsList

\* What a form was answered OK for is in the table, unless forms for the same
\* columns overlapped (see AdminForms).
AnswersHold == A!AnswersHold

============================================================================
