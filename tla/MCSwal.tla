------------------------------- MODULE MCSwal -------------------------------
(* The write-ahead log on rings of a few slots; every constant is fixed by  *)
(* the configuration swal.cfg.                                              *)
EXTENDS Swal
=============================================================================
