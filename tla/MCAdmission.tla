---------------------------- MODULE MCAdmission ----------------------------
EXTENDS Admission, TLC

CONSTANT TheAccount

OneAccount == {TheAccount}
AllOfOne == [p \in Project |-> TheAccount]
TightPools == {[slots |-> 1, headroom |-> 1], [slots |-> 2, headroom |-> 0]}
Slots == {[limit |-> 1, seconds |-> 2, active |-> TRUE], [limit |-> 2, seconds |-> 1, active |-> TRUE],
          [limit |-> 1, seconds |-> 0, active |-> FALSE]}
=============================================================================
