---------------------------- MODULE GraphClient -----------------------------
(***************************************************************************)
(* One call of the Microsoft Graph client (core/graph_client.py), and what *)
(* the service and the caller get of it: a POST, with retries or without,  *)
(* a paginated listing, or a download to a temporary file.                 *)
(*                                                                         *)
(* An attempt is a request, answered by `401 invalid_token' possibly       *)
(* repeated with a fresh token; resilient_http repeats failed attempts.    *)
(* (Its breaker is CircuitBreaker; calls share nothing else but the token  *)
(* cache.)  The service may do what it was asked although its answer is    *)
(* lost or an error; a success it reports carries a page that is JSON.     *)
(***************************************************************************)
EXTENDS Naturals, Sequences

CONSTANTS
    PolicyAttempts,  \* RetryPolicy.max_attempts
    PageCeiling,  \* GraphClient(page_ceiling=...)
    MaxPages      \* bound: how many pages a listing has

ASSUME GraphAssumption ==
    PolicyAttempts \in Nat \ {0} /\ PageCeiling \in Nat \ {0} /\ MaxPages \in Nat \ {0}

\* post(retry_safe=False), post and get, paginate, get_bytes
Kinds == {"once", "repeatable", "listing", "download"}

VARIABLES
    kind, pages,   \* the call, and how many pages the service has for it
    at,            \* where it is
    attempt,       \* of the page at hand
    page,
    host, bearer,  \* where the request goes, and whether with the token
    files,         \* the temporary files on disk, by the attempt that made them
    performed,     \* history: how often the service did what it was asked
    delivered,     \* history: the pages handed to the caller (0: not a page)
    mistaken       \* history: an error answer was taken for a success

graphVars == <<kind, pages, at, attempt, page, host, bearer, files, performed, delivered, mistaken>>

GraphInit ==
    /\ kind \in Kinds
    /\ pages \in 1..MaxPages
    /\ at = "ready"
    /\ attempt = 1
    /\ page = 1
    /\ host = "graph" /\ bearer = FALSE
    /\ files = {}
    /\ performed = 0
    /\ delivered = <<>>
    /\ mistaken = FALSE

-----------------------------------------------------------------------------
Answering == {"first", "second", "redirected"}
Over == {"returned", "raised", "cancelled"}

\* Mutant of AttemptsAllowed: every call is retried.
AlwaysRetried == PolicyAttempts

\* Mutant of AttemptsAllowed: the first attempt is not counted.
RetriesCounted == IF kind = "once" THEN 1 ELSE PolicyAttempts + 1

AttemptsAllowed == IF kind = "once" THEN 1 ELSE PolicyAttempts

\* The attempt failed, and a download removes its file; the next follows its backoff.
EndAttempt(retryable) ==
    /\ IF retryable /\ attempt < AttemptsAllowed
       THEN at' = "ready" /\ attempt' = attempt + 1
       ELSE at' = "raised" /\ UNCHANGED attempt
    /\ files' = files \ {attempt}

\* The attempt is admitted and has a token; a download has a file and starts over.
Send ==
    /\ at = "ready"
    /\ at' = "first" /\ bearer' = TRUE
    /\ IF kind = "download"
       THEN files' = files \cup {attempt} /\ host' = "graph"
       ELSE UNCHANGED <<files, host>>
    /\ UNCHANGED <<kind, pages, attempt, page, performed, delivered, mistaken>>

\* The breaker is open, there is no token, or the token service fails after a 401.
Refused ==
    /\ at \in {"ready", "refresh"}
    /\ at' = "raised" /\ files' = files \ {attempt}
    /\ UNCHANGED <<kind, pages, attempt, page, host, bearer, performed, delivered, mistaken>>

\* Mutant of Deliver: the ceiling is tested after one more page.
DeliverBeyond(link) ==
    /\ delivered' = Append(delivered, page)
    /\ IF link = "none" THEN at' = "returned" /\ UNCHANGED <<page, attempt>>
       ELSE IF link = "elsewhere" \/ page > PageCeiling
            THEN at' = "raised" /\ UNCHANGED <<page, attempt>>
            ELSE at' = "ready" /\ page' = page + 1 /\ attempt' = 1
    /\ UNCHANGED host

\* paginate: a page is handed to the caller, and its link validated, and followed
\* unless the ceiling is reached.
Deliver(link) ==
    /\ delivered' = Append(delivered, page)
    /\ IF link = "none" THEN at' = "returned" /\ UNCHANGED <<page, attempt>>
       ELSE IF link = "elsewhere" \/ page >= PageCeiling
            THEN at' = "raised" /\ UNCHANGED <<page, attempt>>
            ELSE at' = "ready" /\ page' = page + 1 /\ attempt' = 1
    /\ UNCHANGED host

Links == IF page = pages THEN {"none"} ELSE {"next", "elsewhere"}

\* The service did it and says so.
Success ==
    /\ at \in Answering
    /\ performed' = performed + 1
    /\ CASE kind = "listing"  -> \E link \in Links : Deliver(link)
         [] kind = "download" -> at' = "body" /\ UNCHANGED <<attempt, page, host, delivered>>
         [] OTHER             -> at' = "returned" /\ UNCHANGED <<attempt, page, host, delivered>>
    /\ UNCHANGED <<kind, pages, bearer, files, mistaken>>

\* Mutant of Unauthorized: the token is refreshed after a redirect, too.
UnauthorizedAnywhere ==
    /\ at \in Answering
    /\ \/ at \in {"first", "redirected"} /\ at' = "refresh" /\ UNCHANGED <<attempt, files>>
       \/ EndAttempt(FALSE)
    /\ UNCHANGED <<kind, pages, page, host, bearer, performed, delivered, mistaken>>

\* 401: once per attempt the token is refreshed, if it is what was refused; but a
\* download that was redirected is past that.
Unauthorized ==
    /\ at \in Answering
    /\ \/ at = "first" /\ at' = "refresh" /\ UNCHANGED <<attempt, files>>
       \/ EndAttempt(FALSE)
    /\ UNCHANGED <<kind, pages, page, host, bearer, performed, delivered, mistaken>>

Refreshed ==
    /\ at = "refresh"
    /\ at' = "second" /\ bearer' = TRUE
    /\ UNCHANGED <<kind, pages, attempt, page, host, files, performed, delivered, mistaken>>

MaybePerformed == performed' \in {performed, performed + 1}

\* Any other error status.
ErrorAnswer ==
    /\ at \in Answering
    /\ at # "second" \/ kind = "download"
    /\ MaybePerformed
    /\ \E retryable \in BOOLEAN : EndAttempt(retryable)
    /\ UNCHANGED <<kind, pages, page, host, bearer, delivered, mistaken>>

\* To the repeated request such an answer is not an error: its body is returned, or
\* yielded as a page, the last one as it has no link.
MistakenAnswer ==
    /\ at = "second" /\ kind # "download"
    /\ MaybePerformed
    /\ mistaken' = TRUE
    /\ delivered' = IF kind = "listing" THEN Append(delivered, 0) ELSE delivered
    /\ at' = "returned"
    /\ UNCHANGED <<kind, pages, attempt, page, host, bearer, files>>

\* A transport error, or none of the answer arrives in time.
Lost ==
    /\ at \in Answering \cup {"body"}
    /\ IF at = "body" THEN UNCHANGED performed ELSE MaybePerformed
    /\ \E retryable \in BOOLEAN : EndAttempt(retryable)
    /\ UNCHANGED <<kind, pages, page, host, bearer, delivered, mistaken>>

\* A download is sent elsewhere, once, without the token.
Redirected ==
    /\ kind = "download" /\ at \in {"first", "second"}
    /\ at' = "redirected"
    /\ host' = "elsewhere" /\ bearer' = FALSE
    /\ UNCHANGED <<kind, pages, attempt, page, files, performed, delivered, mistaken>>

\* The body is in the file.
Downloaded ==
    /\ at = "body"
    /\ at' = "returned"
    /\ UNCHANGED <<kind, pages, attempt, page, host, bearer, files, performed, delivered, mistaken>>

\* It is larger than max_bytes, or cannot be written.
TooLarge ==
    /\ at = "body"
    /\ EndAttempt(FALSE)
    /\ UNCHANGED <<kind, pages, page, host, bearer, performed, delivered, mistaken>>

\* The task is cancelled (or a listing is given up); only Exceptions remove the file.
Cancel ==
    /\ at \notin Over
    /\ at' = "cancelled"
    /\ UNCHANGED <<kind, pages, attempt, page, host, bearer, files, performed, delivered, mistaken>>

GraphNext ==
    \/ Send \/ Refused
    \/ Success \/ Unauthorized \/ Refreshed \/ ErrorAnswer \/ MistakenAnswer \/ Lost
    \/ Redirected \/ Downloaded \/ TooLarge
    \/ Cancel

GraphSpec == GraphInit /\ [][GraphNext]_graphVars

-----------------------------------------------------------------------------
(* Properties                                                              *)

\* Type invariant.
GraphTypeOK ==
    /\ kind \in Kinds /\ pages \in 1..MaxPages
    /\ at \in {"ready", "refresh", "body"} \cup Answering \cup Over
    /\ attempt \in 1..PolicyAttempts
    /\ page \in 1..MaxPages
    /\ host \in {"graph", "elsewhere"} /\ bearer \in BOOLEAN
    /\ files \subseteq 1..PolicyAttempts
    /\ performed \in Nat
    /\ delivered \in Seq(0..MaxPages)
    /\ mistaken \in BOOLEAN

\* post(retry_safe=False): what may not be repeated, such as sending a mail, is done at
\* most once, whatever is lost; a call that returns did it (and did a repeatable one at
\* most once per attempt), unless an error answer was mistaken for a success.
DoneOnce ==
    /\ kind = "once" => performed <= 1
    /\ kind = "repeatable" => performed <= attempt
    /\ at = "returned" => performed > 0 \/ mistaken

\* What a listing has delivered are the first pages, each once and in order, however
\* often they were fetched, and never more than the ceiling; it returns after the last
\* one only, so that nobody takes a part for the whole (unless, again, an error answer
\* was mistaken).
PagesInOrder ==
    kind = "listing" /\ ~mistaken =>
        /\ Len(delivered) <= pages /\ Len(delivered) <= PageCeiling
        /\ \A i \in 1..Len(delivered) : delivered[i] = i
        /\ at = "returned" => Len(delivered) = pages

\* The token is only sent to Graph, never along a link or a redirect elsewhere; and every
\* temporary file is that of the attempt under way, of a call that returned it, or of
\* one that was cancelled.
NothingAstray ==
    /\ at \in Answering /\ bearer => host = "graph"
    /\ files \subseteq {attempt}
    /\ files # {} => kind = "download" /\ at \notin {"ready", "raised"}
    /\ kind = "download" /\ at = "returned" => files = {attempt}
=============================================================================
