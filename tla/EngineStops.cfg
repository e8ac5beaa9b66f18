SPECIFICATION Spec
CONSTANTS
  q1 = q1
  q2 = q2
  m1 = m1
  m2 = m2
  Queues = {q1, q2}
  Messages = {m1, m2}
  QueueOf <- MCQueueOf
  Clients = {c1}
  MaxLives = 2
INVARIANTS CalmStopSaves
PROPERTIES AutosaveCatchesUp
