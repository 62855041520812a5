\* One number more than the device needs, for the files of others.
CONSTANTS
  n1 = n1
  n2 = n2
  n3 = n3
  n4 = n4
  Fds = {n1, n2, n3, n4}
  NoFd = NoFd
SPECIFICATION Spec
SYMMETRY Symmetry
INVARIANTS NoStrayClose DescriptorsReturned NoInterfaceLeft Delivered
