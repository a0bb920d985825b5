------------------------------- MODULE Onboarding -------------------------------
(***************************************************************************)
(* The form that opens a merchant's first store.  Its slug is checked      *)
(* 300 ms after the last keystroke; checks overlap and their answers may   *)
(* cross, and other merchants take slugs meanwhile.                        *)
(***************************************************************************)
EXTENDS Naturals, FiniteSets

CONSTANTS
  Words,        \* slugs as typed
  KeptWords,    \* RESERVED_SLUGS
  Checks,       \* slug checks under way at the same time
  ChecksFail,   \* whether a request may fail
  NoWord

ASSUME OnboardingAssumption ==
  /\ NoWord \notin Words /\ KeptWords \subseteq Words
  /\ ChecksFail \in BOOLEAN

VARIABLES
  taken,      \* slugs of stores
  form,       \* the slug typed, whether by itself, and the timer's slug
  verdict,    \* availability: what is shown of the slug
  asked,      \* lastRequestedSlug
  check,      \* checks under way
  opening     \* the request that opens the store

onboardingVars == <<taken, form, verdict, asked, check, opening>>

NoCheck == [pc |-> "idle", word |-> NoWord]
NotOpening == [pc |-> "idle", word |-> NoWord, found |-> NoWord, hasty |-> FALSE]
Undecided == {"idle", "loading"}

OnboardingTypeOK ==
  /\ taken \subseteq Words
  /\ form \in [slug : Words \cup {NoWord}, custom : BOOLEAN, timer : Words \cup {NoWord}]
  /\ verdict \in [kind : Undecided \cup {"success", "warning", "error"}, word : Words \cup {NoWord}]
  /\ asked \in Words \cup {NoWord}
  /\ check \in [Checks -> [pc : {"idle", "sent", "free", "used", "failed"}, word : Words \cup {NoWord}]]
  /\ opening.pc \in {"idle", "sent", "opened", "refused", "done"}

OnboardingInit ==
  /\ taken = {}
  /\ form = [slug |-> NoWord, custom |-> FALSE, timer |-> NoWord]
  /\ verdict = [kind |-> "idle", word |-> NoWord]
  /\ asked = NoWord
  /\ check = [q \in Checks |-> NoCheck]
  /\ opening = NotOpening

-------------------------------------------------------------------------------
\* The effect of a new slug: its timer replaces the one of the slug before.
Typed(word) ==
  /\ word # form.slug
  /\ verdict' = IF word = NoWord THEN [kind |-> "idle", word |-> NoWord]
                ELSE [verdict EXCEPT !.kind = "loading"]
  /\ UNCHANGED <<taken, asked, check, opening>>

\* Until the slug has been typed by itself it follows the store's name.
TypeName(word) ==
  /\ opening.pc # "done" /\ ~form.custom
  /\ Typed(word)
  /\ form' = [form EXCEPT !.slug = word, !.timer = word]

TypeSlug(word) ==
  /\ opening.pc # "done"
  /\ Typed(word)
  /\ form' = [slug |-> word, custom |-> TRUE, timer |-> word]

TimerFires(q) ==
  /\ opening.pc # "done"
  /\ form.timer # NoWord /\ check[q].pc = "idle"
  /\ asked' = form.timer
  /\ check' = [check EXCEPT ![q] = [pc |-> "sent", word |-> form.timer]]
  /\ form' = [form EXCEPT !.timer = NoWord]
  /\ UNCHANGED <<taken, verdict, opening>>

\* checkSlugAvailability.
IsFree(word) == word \notin KeptWords \cup taken

ServeCheck(q) ==
  /\ check[q].pc = "sent"
  /\ \E pc \in {IF IsFree(check[q].word) THEN "free" ELSE "used"}
                 \cup (IF ChecksFail THEN {"failed"} ELSE {}) :
       check' = [check EXCEPT ![q].pc = pc]
  /\ UNCHANGED <<taken, form, verdict, asked, opening>>

\* Mutant: every answer is shown.
ReceiveAnyCheck(q) ==
  /\ check[q].pc \in {"free", "used", "failed"}
  /\ verdict' = [kind |-> CASE check[q].pc = "free" -> "success"
                            [] check[q].pc = "used" -> "warning"
                            [] OTHER                -> "error", word |-> check[q].word]
  /\ check' = [check EXCEPT ![q] = NoCheck]
  /\ UNCHANGED <<taken, form, asked, opening>>

\* An answer counts when it is to the slug asked about last.
ReceiveCheck(q) ==
  /\ check[q].pc \in {"free", "used", "failed"}
  /\ verdict' = IF check[q].word # asked THEN verdict
                ELSE [kind |-> CASE check[q].pc = "free" -> "success"
                                 [] check[q].pc = "used" -> "warning"
                                 [] OTHER                -> "error", word |-> check[q].word]
  /\ check' = [check EXCEPT ![q] = NoCheck]
  /\ UNCHANGED <<taken, form, asked, opening>>

-------------------------------------------------------------------------------
Pending(word) == \E q \in Checks : check[q].pc # "idle" /\ check[q].word = word

\* handleSubmit wants an available slug, and sends the one that is typed.
SubmitStore ==
  /\ opening.pc = "idle" /\ verdict.kind = "success" /\ form.slug # NoWord
  /\ opening' = [pc |-> "sent", word |-> form.slug, found |-> verdict.word,
                 hasty |-> form.timer # NoWord \/ Pending(form.slug)]
  /\ UNCHANGED <<taken, form, verdict, asked, check>>

\* The store is opened unless its slug has gone meanwhile.
OpenStore ==
  /\ opening.pc = "sent"
  /\ \/ /\ IsFree(opening.word)
        /\ taken' = taken \cup {opening.word}
        /\ \E pc \in {"opened"} \cup (IF ChecksFail THEN {"refused"} ELSE {}) :
             opening' = [opening EXCEPT !.pc = pc]
     \/ /\ ~IsFree(opening.word)
        /\ opening' = [opening EXCEPT !.pc = "refused"]
        /\ UNCHANGED taken
  /\ UNCHANGED <<form, verdict, asked, check>>

\* After a success the form gives way to the dashboard; after an error it stays.
ReceiveStore ==
  /\ opening.pc \in {"opened", "refused"}
  /\ opening' = IF opening.pc = "opened" THEN [opening EXCEPT !.pc = "done"] ELSE NotOpening
  /\ UNCHANGED <<taken, form, verdict, asked, check>>

OthersTake(word) ==
  /\ IsFree(word)
  /\ taken' = taken \cup {word}
  /\ UNCHANGED <<form, verdict, asked, check, opening>>

OnboardingNext ==
  \/ SubmitStore \/ OpenStore \/ ReceiveStore
  \/ \E word \in Words \cup {NoWord} : TypeName(word) \/ TypeSlug(word)
  \/ \E word \in Words : OthersTake(word)
  \/ \E q \in Checks : TimerFires(q) \/ ServeCheck(q) \/ ReceiveCheck(q)

OnboardingSpec == OnboardingInit /\ [][OnboardingNext]_onboardingVars

-------------------------------------------------------------------------------
\* The form asks for an available slug before it goes on: the slug sent is one
\* it was told is free, once the slug's own check has ended.  Before, an answer
\* about the slug typed earlier may be taken for its own.
SentSlugWasFreeOnceChecked ==
  opening.pc # "idle" => opening.word = opening.found \/ opening.hasty
===============================================================================
