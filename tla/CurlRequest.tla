---------------------------- MODULE CurlRequest -----------------------------
(***************************************************************************)
(* curl_sendrequest() of net/curlcomm.c with its write callback: one       *)
(* request to a server.  libcurl hands the reply to curl_writefunc() in    *)
(* pieces of any size; the transfer ends complete, broken or timed out,    *)
(* and only then does the caller get anything.  With max_read_sz it gets   *)
(* that many characters, whatever the length of the reply; without, all of *)
(* them, and the callers' replies fit in their buffers.                    *)
(*                                                                         *)
(* A reply is a record; here only its length "len" matters.                *)
(***************************************************************************)
EXTENDS Integers

CONSTANT Faults   \* may an allocation fail?

VARIABLES
  rq,        \* "idle", "transfer", or how the request ended
  max,       \* max_read_sz, what the caller wants copied; 0 for all
  rep,       \* what the server has for this URL
  size,      \* curlstr.size, the characters received
  response,  \* curlstr.response is allocated
  got,       \* *strout_sz, the characters the caller got
  timeout,   \* nodecfg.net_timeout
  err        \* nodecfg.exit_status is EXIT_FAILURE

CurlInit(r) ==
  /\ rq = "idle" /\ max = 0 /\ rep = r
  /\ size = 0 /\ response = FALSE /\ got = 0

Start(m, r) ==
  /\ rq' = "transfer" /\ max' = m /\ rep' = r
  /\ size' = 0 /\ response' = FALSE /\ got' = 0
  /\ UNCHANGED err

(* curl_easy_init() returns NULL. *)
StartFails(m, r) ==
  /\ Faults
  /\ rq' = "failed" /\ max' = m /\ rep' = r
  /\ size' = 0 /\ response' = FALSE /\ got' = 0
  /\ err' = TRUE

-----------------------------------------------------------------------------
(* curl_writefunc().  libcurl calls it with no characters only for an empty *)
(* reply, and need not do it then.                                          *)
Receive ==
  /\ rq = "transfer"
  /\ \/ \E n \in 1 .. rep.len - size : size' = size + n
     \/ rep.len = 0 /\ UNCHANGED size
  /\ response' = TRUE
  /\ UNCHANGED <<rq, max, rep, got, err>>

(* The response is freed however the request ends. *)
EndWith(how) ==
  /\ rq = "transfer" /\ rq' = how
  /\ response' = FALSE
  /\ UNCHANGED <<max, rep, size>>

(* realloc() fails: the callback returns 0 and libcurl aborts. *)
ReceiveFails == Faults /\ EndWith("failed") /\ err' = TRUE /\ UNCHANGED got

(* Mutant: the terminator is counted. *)
CompleteAndEnd ==
  /\ size = rep.len /\ (response \/ max = 0)
  /\ EndWith("ok") /\ got' = size + 1
  /\ UNCHANGED err

(* CURLE_OK.  What is read past the end of a short reply, if that goes     *)
(* well, is behind its terminator.                                         *)
Complete ==
  /\ size = rep.len /\ (response \/ max = 0)
  /\ EndWith("ok") /\ got' = size
  /\ UNCHANGED err

(* The fixed number of characters is more than the response has with its   *)
(* terminator, or there is no response: memcpy() may fault.                *)
CopyPastEnd ==
  /\ size = rep.len /\ max > 0 /\ (~response \/ size + 1 < max)
  /\ EndWith("crashed")
  /\ UNCHANGED <<got, err>>

(* Mutant: the result code is not looked at. *)
BrokenUnseen ==
  /\ response \/ max = 0
  /\ EndWith("ok") /\ got' = size
  /\ UNCHANGED err

(* Refused, an HTTP error, or a connection lost half way. *)
Broken == EndWith("failed") /\ UNCHANGED <<got, err>>

(* Mutant: the seconds are taken for milliseconds. *)
TimedOutMs == timeout \div 1000 > 0 /\ EndWith("failed") /\ UNCHANGED <<got, err>>

(* CURLOPT_TIMEOUT: 0 is none, a negative number is not accepted. *)
TimedOut == timeout > 0 /\ EndWith("failed") /\ UNCHANGED <<got, err>>

(* What waits for the network; TimedOut does not. *)
FromNetwork == Receive \/ ReceiveFails \/ Complete \/ CopyPastEnd \/ Broken

-----------------------------------------------------------------------------
CurlTypeOK ==
  /\ rq \in {"idle", "transfer", "ok", "failed", "crashed"}
  /\ max \in Nat
  /\ size \in 0 .. rep.len /\ got \in 0 .. rep.len
  /\ response \in BOOLEAN /\ timeout \in Int /\ err \in BOOLEAN
=============================================================================
