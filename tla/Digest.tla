------------------------------- MODULE Digest -------------------------------
(***************************************************************************)
(* Digest authentication: the challenges and credentials of                *)
(* sippy/headers and the nonces of sippy/security.  A hash is the record   *)
(* of what it was computed over, so two are equal only if all of that is.  *)
(* A nonce hides the time it was made and the algorithm it was made for;   *)
(* the time is kept by the module that uses this one as the nonce's age.   *)
(***************************************************************************)
EXTENDS Integers

CONSTANTS
    VTime     \* how long a nonce is good for (32 s)

ASSUME DigestAssumption == VTime \in Nat

\* The hash of an algorithm and its bit in the mask of a nonce.  The empty name is
\* MD5.
NoBit == -1
GetAlgorithm(name) ==
    CASE name \in {"", "md5"} -> [hash |-> "md5", bit |-> 0]
      [] name = "md5-sess" -> [hash |-> "md5", bit |-> 1]
      [] name = "sha-256" -> [hash |-> "sha-256", bit |-> 2]
      [] name = "sha-256-sess" -> [hash |-> "sha-256", bit |-> 3]
      [] name = "sha-512-256" -> [hash |-> "sha-512-256", bit |-> 4]
      [] name = "sha-512-256-sess" -> [hash |-> "sha-512-256", bit |-> 5]
      [] OTHER -> [hash |-> "none", bit |-> NoBit]
SessionNames == {"md5-sess", "sha-256-sess", "sha-512-256-sess"}
Supported(name) == GetAlgorithm(name).bit # NoBit

-----------------------------------------------------------------------------
(* Nonces *)

\* The time and the mask under AES with a random IV: id tells two nonces of one
\* second and one algorithm apart.  Random bytes decrypt to nothing.
Encrypt(bit, id) == [bit |-> bit, id |-> id]
Decrypt(nonce) == nonce.bit

\* An algorithm that is not known gets random bytes.
EmitChallenge(name, id) == Encrypt(GetAlgorithm(name).bit, id)

\* The nonce was made for the algorithm it is used with, and not longer ago than
\* VTIME.  The age is negative if the time it was made at is of another clock.
ValidateChallenge(nonce, bit, age) ==
    bit # NoBit /\ Decrypt(nonce) = bit /\ age \in 0..VTime

-----------------------------------------------------------------------------
(* Credentials *)

DigestCalcHA1(name, passw, nonce, cnonce) ==
    [hash |-> GetAlgorithm(name).hash, passw |-> passw,
     sess |-> IF name \in SessionNames THEN <<nonce, cnonce>> ELSE <<>>]

\* A quality of protection adds the nonce count and the client's nonce.
DigestCalcResponse(name, ha1, nonce, cnonce, qop, method) ==
    [hash |-> GetAlgorithm(name).hash, ha1 |-> ha1, nonce |-> nonce, method |-> method,
     qop |-> IF cnonce # "" THEN <<cnonce, qop>> ELSE <<>>]

\* A challenge has a scheme and parameters; one that has not cannot be read.
Parses(ch) == ch.algorithm # "malformed"

\* A challenge: the algorithm, its nonce and the qop that goes with a named
\* algorithm.
Challenge(name, id) ==
    [algorithm |-> name, nonce |-> EmitChallenge(name, id),
     qop |-> IF name = "" THEN "" ELSE "auth"]

\* The response of a header; none for an algorithm that is not known.
NoResponse == [hash |-> "none"]
GenResponse(auth, passw, method) ==
    IF Supported(auth.algorithm)
    THEN DigestCalcResponse(auth.algorithm,
           DigestCalcHA1(auth.algorithm, passw, auth.nonce, auth.cnonce),
           auth.nonce, auth.cnonce, auth.qop, method)
    ELSE NoResponse

\* The Authorization header for a challenge, and its response.
constructAuthHF(ch) == [algorithm |-> ch.algorithm, nonce |-> ch.nonce, qop |-> ch.qop,
                        cnonce |-> IF ch.qop = "" THEN "" ELSE "cn", response |-> NoResponse]
GenAuthHF(ch, passw, method) ==
    LET auth == constructAuthHF(ch)
    IN  [auth EXCEPT !.response = GenResponse(auth, passw, method)]

\* The header as it is written: the parameters it has.  An algorithm that is not
\* named is left out, and without a quality of protection its two parameters too.
String(auth) ==
    [name \in {"nonce", "response"}
               \cup (IF auth.algorithm = "" THEN {} ELSE {"algorithm"})
               \cup (IF auth.qop = "" THEN {} ELSE {"cnonce", "qop"}) |-> auth[name]]

\* The header as it is read: a parameter that is missing is empty.
parseSipAuthorizationBody(params) ==
    [name \in {"nonce", "response", "algorithm", "qop", "cnonce"} |->
       IF name \in DOMAIN params THEN params[name] ELSE ""]

\* Verify of a header whose nonce has the given age.
Verify(auth, passw, method, age) ==
    /\ Supported(auth.algorithm)
    /\ auth.qop \in {"", "auth"}
    /\ ValidateChallenge(auth.nonce, GetAlgorithm(auth.algorithm).bit, age)
    /\ auth.response = GenResponse(auth, passw, method)
=============================================================================
