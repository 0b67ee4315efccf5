------------------------------ MODULE MCWriter ------------------------------
(* The four calls of request_handle, shortened to three to five bytes.     *)
EXTENDS Writer

MCLens == <<3, 5, 3, 4>>
=============================================================================
