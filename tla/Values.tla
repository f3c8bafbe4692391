------------------------------- MODULE Values -------------------------------
(***************************************************************************)
(* The values of C++ objects that are not plain data.                      *)
(***************************************************************************)

CONSTANTS
  Absent,    \* an empty std::optional
  NaN,       \* a floating-point value JSON has no text for
  None       \* a variable that has not been given a value

=============================================================================
