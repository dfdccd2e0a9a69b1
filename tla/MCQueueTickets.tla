----------------------------- MODULE MCQueueTickets -----------------------------
\* Instances of QueueTickets
EXTENDS QueueTickets, TLC

\* Tickets, matches, workers, parties and modes are interchangeable
Symmetry == Permutations(Ticket) \cup Permutations(Match) \cup Permutations(Worker) \cup Permutations(Party)
    \cup Permutations(Mode)
=============================================================================
