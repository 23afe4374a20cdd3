---------------------------- MODULE InvoicingMC -----------------------------
EXTENDS Invoicing, TLC

Sym == Permutations(Processes) \cup Permutations(Tenants) \cup
       Permutations(Subs) \cup Permutations(Invoices)
=============================================================================
