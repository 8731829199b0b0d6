------------------------------ MODULE VendorStub ------------------------------
(***************************************************************************)
(* internal/vendor/stub.go: the answer of the vendor service is a function *)
(* of the scenario named in the request.  The two image-quality failures   *)
(* differ only in wording, so one stands for both.                         *)
(***************************************************************************)

Scenarios == {"CLEAN", "IQA_FAIL", "DUPLICATE_DETECTED",
              "MICR_READ_FAILURE", "AMOUNT_MISMATCH"}

VendorStatus(s) ==
  CASE s = "CLEAN"                                   -> "pass"
    [] s \in {"IQA_FAIL", "DUPLICATE_DETECTED"}      -> "fail"
    [] s \in {"MICR_READ_FAILURE", "AMOUNT_MISMATCH"} -> "flagged"

HasMICR(s) == s \notin {"IQA_FAIL", "MICR_READ_FAILURE"}

(* The reason the pipeline stores: deposit/service.go derives it from the  *)
(* presence of MICR data, not from the comparison of the amounts.          *)
FlagReasons == {"none", "micr_failure", "amount_mismatch"}

FlagReason(s) ==
  IF VendorStatus(s) # "flagged" THEN "none"
  ELSE IF HasMICR(s) THEN "amount_mismatch" ELSE "micr_failure"
===============================================================================
