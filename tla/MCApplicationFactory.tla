------------------------- MODULE MCApplicationFactory -------------------------
(* Clients that confirm and execute one batch of vacancies concurrently.     *)
EXTENDS ApplicationFactory
=============================================================================
