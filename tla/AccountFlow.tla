---------------------------- MODULE AccountFlow ----------------------------
(***************************************************************************)
(* Downloads into the archive cache: acquire_account, acquire_signed_url,  *)
(* download_to_cache and send_with_retry of foundryvtt-fetch/src/lib.rs.   *)
(*                                                                         *)
(* The login page is fetched, the form submitted, the release endpoint     *)
(* asked for a URL and the archive downloaded; every request is retried    *)
(* on its own.  The site is external: any request may be lost or refused,  *)
(* and a download may bring any content.                                   *)
(***************************************************************************)
EXTENDS ArchiveCache, Naturals

CONSTANT MaxAttempts  \* RetryPolicy.max_attempts

ASSUME AttemptsAreNatural == MaxAttempts \in Nat

VARIABLE tries  \* attempts of the current request that have failed

Attempts == IF MaxAttempts = 0 THEN 1 ELSE MaxAttempts

Requests == {"login", "submit", "release", "download"}

Following(stage) == CASE stage = "login"   -> "submit"
                      [] stage = "submit"  -> "release"
                      [] stage = "release" -> "download"

\* The answer is what the next request needs: a page with a CSRF token, a page
\* that welcomes the user, an acceptable URL.
Answered(p) ==
    /\ at[p] \in Requests \ {"download"}
    /\ Goto(p, Following(at[p]))
    /\ tries' = [tries EXCEPT ![p] = 0]
    /\ UNCHANGED <<store, modes, release, input, hash, record>>

\* The body has arrived in a temporary file of its own, within the size limit.
Downloaded(p, a) ==
    /\ at[p] = "download"
    /\ Goto(p, "put")
    /\ input' = [input EXCEPT ![p] = a]
    /\ tries' = [tries EXCEPT ![p] = 0]
    /\ UNCHANGED <<store, modes, release, hash, record>>

\* The operators that a comment calls a mutant are not the code: each is a
\* plausible mistake in the definition below it, which a property must notice.

\* Whether another attempt follows failed attempt i, counted from zero
\* (mutant: one attempt too many).
OneMore(i) == i < Attempts
Retries(i) == i + 1 < Attempts

\* No answer, status 429 or 5xx: sleep and send the request again.
TryAgain(p) ==
    /\ at[p] \in Requests
    /\ Retries(tries[p])
    /\ tries' = [tries EXCEPT ![p] = @ + 1]
    /\ UNCHANGED <<store, modes, call>>

\* No usable answer, none to the last attempt, or a body that breaks off.
Refused(p) ==
    /\ at[p] \in Requests
    /\ Goto(p, "failed")
    /\ tries' = [tries EXCEPT ![p] = 0]
    /\ UNCHANGED <<store, modes, release, input, hash, record>>

FlowStep(p) ==
    \/ Answered(p) \/ TryAgain(p) \/ Refused(p)
    \/ \E a \in Archives : Downloaded(p, a)

FlowTypeOK == tries \in [Procs -> 0..(Attempts - 1)]
=============================================================================
