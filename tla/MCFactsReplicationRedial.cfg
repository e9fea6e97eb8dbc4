SPECIFICATION RedialSpec
CONSTANTS
  Triples = {f1}
  Replicas = {r1}
  UwMax = 4
  MaxForwards = 1
PROPERTY ReplayResumes
