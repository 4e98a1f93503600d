-------------------------- MODULE MCInvoiceService --------------------------
(* One request sent three times with the default expiry, or sent with an   *)
(* early one and again without.                                            *)
EXTENDS InvoiceService

CONSTANT r1

Plain == <<r1, null>>
Early == <<r1, 1>>
MCWorkloads == {<<Plain, Plain, Plain>>, <<Early, Early>>, <<Early, Plain>>}
=============================================================================
