--------------------------- MODULE WrappingIntegers ---------------------------
(***************************************************************************)
(* Wrap32 (src/minnow/src/wrapping_integers.cc): sequence numbers on the   *)
(* wire count modulo Modulus (2^32 in the program), absolute ones do not   *)
(* wrap.                                                                   *)
(***************************************************************************)
EXTENDS Naturals

CONSTANT Modulus

ASSUME ModulusAssumption == Modulus \in Nat \ {0}

Wraps == 0 .. Modulus - 1

Wrap(n, zero_point) == (n + zero_point) % Modulus

Distance(m, n) == IF m >= n THEN m - n ELSE n - m

\* Of the absolute numbers that wrap to raw: the one in the checkpoint's own
\* period, unless the one a period later or a period earlier is closer.
Unwrap(raw, zero_point, checkpoint) ==
  LET offset == ((raw + Modulus) - zero_point) % Modulus
      same == checkpoint - (checkpoint % Modulus) + offset
      up == IF Distance(same + Modulus, checkpoint) < Distance(same, checkpoint)
            THEN same + Modulus ELSE same
  IN  IF same >= Modulus /\ Distance(same - Modulus, checkpoint) < Distance(up, checkpoint)
      THEN same - Modulus ELSE up
===============================================================================
