--------------------------- MODULE MCClaudeChannel ---------------------------
(* ClaudeChannel on small sets for TLC. *)
EXTENDS ClaudeChannel, TLC

CONSTANTS a, b, id, n1, n2

\* The second launch resumes the session of the first.
MCSessionsOf == (a :> {id}) @@ (b :> {id})

\* The first attempt is sent once more, before or after the second.
MCCopies == (n1 :> 2) @@ (n2 :> 1)

\* Two attempts under the first registration, one beside takeovers.
AttemptsAndRegistrations ==
    (\A n \in Attempts : attempt[n] # None) => binding.gen <= 1
=============================================================================
