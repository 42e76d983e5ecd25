----------------------------- MODULE UdpClient -----------------------------
(***************************************************************************)
(* The receive timer of class UdpClient (src/common/udp/UdpClient).  A      *)
(* socket is the record                                                     *)
(*    timeout   - the member timeout_ (whole seconds; tv_usec is always 0), *)
(*    rcvtimeo  - the SO_RCVTIMEO option the kernel has been given.         *)
(* The two differ: ChangeTimeout sets the socket option only, so the next   *)
(* IncreaseTimeout or TimeoutReset overrides what was negotiated.           *)
(***************************************************************************)
EXTENDS Naturals

DefaultTimeout == 1

Socket == [timeout : Nat, rcvtimeo : Nat]

\* The constructor: timeout_ = default_timeout_, then ChangeTimeout(default).
NewUdpClient == [timeout |-> DefaultTimeout, rcvtimeo |-> DefaultTimeout]

ChangeTimeout(u, t) == [u EXCEPT !.rcvtimeo = t]

\* The default multiplier is 2; no caller passes another.
IncreaseTimeout(u) ==
    [timeout |-> 2 * u.timeout, rcvtimeo |-> 2 * u.timeout]

TimeoutResetSocketOnly(u) == ChangeTimeout(u, DefaultTimeout)

TimeoutReset(u) == [timeout |-> DefaultTimeout, rcvtimeo |-> DefaultTimeout]

\* What the backoff has come to after r retries.
Doubled[r \in Nat] == IF r = 0 THEN DefaultTimeout ELSE 2 * Doubled[r - 1]
=============================================================================
